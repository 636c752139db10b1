# Cubeplane: TLA+ specifications

Cubeplane is a Minecraft server: a multi-threaded tokio program in which one task per
connection, a game loop at 20 ticks a second, a saving task, a task that carries out
what mods ask for and the handlers of an HTTP control API share one `Arc<Shared>`. Every
table of `Shared` has a lock of its own, held for a few statements; nothing is ever done
under two player-facing tables at once. What goes wrong in such a program goes wrong
*between* two lock sections, or between a lock section and the disk or the network.
These modules describe those steps and check what must hold however they interleave.

In all modules **one action is one lock section** (or one call to the file system, or
one packet broadcast), because that is the granularity at which other tasks can run.
Where a run of such sections is merged into one action, the action's comment says so and
why nothing can come between.

## 1. The system and what is hard about it

| component | source | state | operations | modelled in |
|---|---|---|---|---|
| World store | `crates/world/src/{lib,chunk}.rs`, `persistence.rs` | edit map, chunks in memory, dirty set; `blocks.bin`, `blocks.tmp`, `region/*.bin` | build, read, set, evict, save in two formats, load | `World` |
| Lifecycle | `server/src/lib.rs`, `cubeplane/src/main.rs` | phase of the process, the two savers | boot, save loop, Ctrl-C, final save, crash | `World`, `Lives`, `Desk` (`server_stop`) |
| Other persistence | `persistence.rs` | containers, players, entities, clock | written in place by the same saves | `Lives` |
| Presence | `connection.rs` `login`..`play`, `state.rs` | player table; what each client lists and shows | admit, join, respawn, change dimension, time out, leave | `Presence` |
| Chunk streaming and light | `connection.rs` `stream_chunks`, `chunk.rs`, `sim.rs` `set` | each client's chunks, the connection's `loaded` set, cached light | stream, cross a boundary, change dimension, set and broadcast a block, evict | `ChunkView` |
| Villagers: talk | `connection.rs`, `ai.rs`, `state.rs`, `mobs.rs` | villager table (history, busy flag), `talking_to`, requests in flight | click, speak, ask, answer, fail, die, switch off | `Conversation` |
| Villagers: trade | `connection.rs`, `state.rs` | uses per offer | open, trade, restock | `Items` (stock) |
| Inventory and item entities | `inventory.rs`, `player.rs`, `drops.rs` | slots, items on the ground | pick up, drop, eat, wear, give, trade, die | `Items` |
| Survival, combat, effects | `combat.rs`, `effects.rs`, `player.rs` | health, food, effects; what the client shows of them | take damage, die, revive, eat, drink, starve | `Lives` |
| Block entities | `connection.rs`, `furnace.rs`, `brewing.rs`, `recipe.rs` | containers, furnaces, stands, crafting grids, the anvil | open, click, step, spill, close | `Windows` |
| Redstone, timers, scheduled changes | `sim.rs`, `state.rs` | power, buttons, plates, the delayed-change queue | toggle, press, propagate, fire, push, retract | `Overworld` |
| Fluids, growth, fire, gravity | `sim.rs` | block states, the fluid queue | flow, grow, spread, fall, explode | `Overworld` |
| Mobs, projectiles, vehicles | `mobs.rs`, `entity.rs`, `drops.rs` | mobs, arrows, riders | step, spawn, breed, hit, mount | `Lives` |
| Login, encryption, framing | `connection.rs`, `codec.rs`, `encryption.rs` | phase, cipher state, pending ciphertext | read a frame, write a frame, hand over to the writer task | `Wire` |
| Protocol versions | `version.rs`, `ids.rs`, `clientbound.rs` | none | translate ids and layouts | `Dialects` |
| Mod runtime | `crates/mods`, `mod_actions.rs` | event channel, action array, action channel | fire, run, drain, apply, shut down | `Desk` |
| Chat, commands, control API | `connection.rs`, `commands.rs`, `control.rs` | AI settings; otherwise that of the others | say, order, ask | `Desk`; mobs, effects and health in `Lives` |
| Terrain generation | `gen.rs` | none | pure function | constant `Generated` of `World` |
| NBT, registry, packets `version.rs` leaves alone | `crates/nbt`, `crates/protocol` | none | byte layouts | not modelled: no state, round-trip tests reach them |
| Advancements, recipe and item tables, configuration; Atlas panel | `items_table.rs`, ...; `src/admin` | static data; a client of the API | lookups; pages | not modelled |

What makes each of them correct, and hard:

* **World store.** Readers see the last write wherever the chunk is, in memory or not; a
  restart brings back one complete picture of the world; nothing written is forgotten.
  Hard: chunks come and go while edits are copied for saving; the two formats lock
  differently; a save is three file operations and the process may be killed between any
  two; errors are dropped; two savers can overlap.
* **Presence.** Clients list and show exactly the players who are there. Hard: joining
  is five separate accesses to the table and leaving is three, and the tasks of all
  players interleave.
* **Chunk streaming.** A client shows what the world holds, correctly lit. Hard: a chunk
  is copied, lit and sent in three steps; a block is set and broadcast in two, by any
  task; a newcomer hears no broadcasts.
* **Conversations.** One request per villager, an answer to each, no villager left
  thinking. Hard: requests outlive what started them; the flag is read and set apart;
  mobs die at any time.
* **Items.** Nothing is duplicated or lost but where the code says so. Hard: a slot is
  read, changed and written back in separate lock sections while the game loop delivers
  to the same inventory or empties it.
* **Windows.** The same across block entities. Hard: the client decides what a slot is
  to hold, from a picture that is old when its click arrives; furnaces step, blocks are
  broken and others click in between; a window is a position without a dimension.
* **Overworld.** A circuit, a fluid and a heap of sand come to rest where they should.
  Hard: a change, the recomputation of power around it, the observers and the fluids
  that are told are separate lock sections, and the sections of players mix with those
  of a tick.
* **Lives.** Whoever has no health is dead and is shown so; things and creatures exist
  once, in memory and in the files. Hard: every table has its own lock; a player is a
  clone that outlives its place in the table; a save takes the tables one by one.
* **Wire.** What is queued for a client arrives once, in order, in its version's layout.
  Hard: a socket takes part of what is written; the cipher is stateful; the phases
  change cipher, compression and reader in the middle of the stream.
* **Desk.** What mods and the panel ask for happens once and in order. Hard: it crosses
  two channels and three tasks; handlers throw.

`PROJECT.json` lists the hazards one by one, with the line where each bites and the
properties that cover it.

## 2. Modules

* `BlockMap`: the abstract specification of the store. Two maps, what readers see
  (`mem`) and what a restart brings back (`dur`), and the pictures that savers have
  taken (`pend`).
* `World`: the store itself. `edits`, `loaded`/`grid` and `dirty` are the fields of
  `struct World`; `blocksBin`, `blocksTmp` and `region` are the files; `pc`, `file`,
  `snap` and `todo` are the local state of a save. `World` implements `BlockMap`
  (`ImplementsBlockMap`), with `View` for `mem` and `Durable` for `dur`.
* `WorldProofs`: the theorems about `World`.
* `Presence`: `pc` follows a connection from `login` through `play` to the clean-up
  after `play_loop`. `table` is `Shared.players`, `existing` the local copy of it that
  joining and respawning work through. `listed` and `shown` are what a client makes of
  the packets queued for it: one channel per client keeps their order.
* `PresenceProofs`: the theorems about `Presence`.
* `ChunkView`: `centre` and `loaded` are the locals of `play_loop`, `copy` the chunk
  cloned under the world's mutex, `light` the cache in the chunk, `telling` a block that
  a task has set and not yet broadcast, `shown` the client.
* `ChunkViewProofs`: the theorems about `ChunkView`.
* `Conversation`: `brain` is `Shared.villagers`, `flying` the spawned tasks that wait
  for the model, `pc` where a player's task is between two lock sections.
* `ConversationProofs`: the theorems about `Conversation`.
* `Items`: `inv` is `Player.inventory`, `ground` the table of item entities, `task`
  where a player's task is inside a handler and the stack it has copied, `loop` the same
  for the game loop, `uses` the stock of one villager's offer. `Add`, `Spend` and `Less`
  are the methods of `Inventory`.
* `ItemsProofs`: the theorems about `Items`, after what folds over slots and sums
  compute.
* `Overworld`: `world` is a small piece of the overworld, `todo` the lock sections each
  task has still to go through, `timers`, `plates`, `sched`, `queue` and `tnt` the
  tables of `Shared` that the ticks work off. The flood of power is a recursive function
  over the strength of a signal.
* `Windows`: `slots` are the slots of block entities, grids and inventories by name,
  `entry` which block entities there are, `flags` the `open_...` fields of
  `PlayerState`, `sent` the messages of a client under way, and `screen`, `view` and
  `cursor` the client.
* `Lives`: `self` is a connection with its `PlayerState`, inventory and effects, whether
  it is in `table` or not; `mob`, `known`, `rider`, `arrow`, `ground`, `chest` are
  tables of `Shared`; `todo` and `tick` the locals of the game loop, `step` those of any
  thread, `disk` the files.
* `LivesSteps`: two inductive invariants of `Lives`, and what each of its steps does to
  what they speak of: the order of the loop's jobs, the types, who is where, which step
  can change which table, field or mark; and where each thing is, in the world, in the
  picture the saver took and in the files.
* `LivesProofs`, which extends `LivesSteps`: that every step keeps the invariants, part
  by part, and the theorems about `Lives`.
* `Dialects`: no state. The id tables of nine protocol versions and the two translations
  (`translate_clientbound`, `translate_serverbound`), the layouts of the packets that
  `version.rs` rewrites or should, and the layouts a client of each version reads as far
  as the repository says what they are.
* `Wire`, which extends `Dialects`: one connection per client. `srv` is the session's
  locals, `task`, `left`, `pending` and `pos` the writer task and its `EncryptedWriter`,
  `down` and `up` the sockets, `cli` the client.
* `Desk`, which extends `Wire`: `cast` is what a task has still to send, `msgs` and
  `chan` the two channels to and from the mod thread, `actions` the array its handlers
  fill, `panel` the requests to the control API. Its runs check `Wire` too: the one
  next-state relation has the steps of both.
* `DeskProofs`: theorems about `Desk`, and through it about `Wire`: sequences, the pieces of
  a stream, what a connection is in each phase, each step of it, and what tasks send.
* `MC...`: small instances of these for TLC.

Operators whose comment starts with "Mutant:" are faulty variants of the definition
below them, a dropped guard or a forgotten reset. Nothing uses them; replacing the
definition by its variant shows that the property it is listed with in `PROJECT.json`
can fail.

Variables marked *history* in the declarations are not in the code. They remember that a
race has happened, so that an invariant can say both what the code guarantees and the
exact circumstances in which it does not.

## 3. Runs

| run | bounds | states | what it shows |
|---|---|---|---|
| `world_delta` | 2 blocks in 2 chunks, 2 states, periodic saver | 13,528 | `BlockMap` is implemented, edits reach the disk |
| `world_region` | the same and a position above the build limit, both savers | 50,265 | differences from the disk are accounted for; clean evictions are invisible |
| `region_evict` | as `world_region` | (violation) | an evicted chunk does not come back as it was |
| `torn_save` | as `world_delta`, both savers | (violation) | a truncated file takes the place of `blocks.bin` |
| `presence` | 3 connections of 2 users, 2 places | 214,244 | clients show who is there; the silent go |
| `chunk_view` | 1 player, the game loop, 2 chunks in 2 dimensions | 128,148 | clients show the world; light is current |
| `conversation` | 2 players, 1 villager, 3 requests in flight | 72,032 | histories are dialogues; no villager is left thinking |
| `items` | 2 players, 2 slots, 4 items, 4 units, 1 use | 713,416 | items are accounted for; an offer is oversold by one at most |
| `overworld` | 14 rooms of 11 cells, 2 players, power of 4, a box of 2 cells each way, 2 clicks or restarts | 121,497 | circuits settle but for what a box cuts, timed blocks come up, fluids run on, sand falls and is not doubled |
| `windows` | 7 scenes, 2 players, 2 messages under way | 210,545 | items are accounted for across windows; clients show their windows |
| `lives` | 13 scenes, 3 connections of 2 users, 3 mobs, 2 things | 853,862 | the dead are dead, things exist once, clients and tables agree |
| `desk` | 41 setups, 2 clients, up to 3 packets each way | 202,196 | the stream is whole in every version, both ends agree; answers follow, reactions and settings are kept |

A property that holds of these runs is often an invariant with its exceptions spelled
out. That is deliberate: the exceptions are the races the code has, each was found as a
counterexample to the property without it, and the property then says that there are no
others.

**World.** A chunk is independent of the others except in eviction and saving, which
take sets of them: two chunks give every subset, and two states tell an edit from what
was there. A third block, above the limit, is recorded in the edit map and marks its
chunk without being in it. The runs are exhaustive: no counter needs a bound.
`ChunkIsOverlay` is why eviction is harmless in the delta format. `NoForgottenDebt` says
for the region format that a block differs from its file only if its chunk is dirty, is
about to be written, or is *orphaned*: evicted while dirty, or refused by the disk,
after which no save writes it again. The two violations are what the comments at
`world/src/lib.rs:146` and `persistence.rs:73` deny:

* in the region format `build_chunk` does not lay the edits over the file, and
  `take_dirty_grids` drops the mark of a chunk that is not in memory;
* `blocks.tmp` is one file for all savers. After Ctrl-C the main task saves without
  waiting for the periodic save, so one can truncate what the other renames.

**Presence.** `ShowsWhoIsThere` and `ForgetsWhoLeft` have the exceptions spelled out:
`raced` holds the pairs of which one was being told who is there while the other joined
or left; `travelled` the clients that changed dimension, which sends no entity again;
`Single` excludes users who have logged in twice, whose list entry goes with the first
of the two to leave. `OverfullOnlyByRush`: the place is checked at login and taken at
the end of the join, so more than `max_players` get in only if some of them were on
their way together. Three connections are enough for a bystander to every race of two,
and for one user's second login beside another user. Only one of them changes dimension,
respawns or falls silent (`Restless`, `Frail`), which are the named bounds. What the
model drops of a connection once it has left is read by nobody.

**ChunkView.** The four exceptions in `ClientsShowTheWorld` are all needed: leaving any
out of `MayMiss` or `Tell` gives a counterexample. They are a change that overtakes a
copied chunk, one before the newcomer is in the table, two tasks that change one place
at once, and an update of the same coordinates in another dimension (`block_update`
names none and goes to everyone). `LightIsCurrent` excepts chunks changed while a copy
was being lit, whose old light is then cached until the next edit, against the comment
at `chunk.rs:186`. Two tasks that set blocks, of which one also streams, make all of
these; blocks change only in the overworld (`Changing`), the nether being where the
player may be instead.

**Conversation.** `SecondFlightByRush` says how more than one request can come to be in
flight, and `GhostsByRace` how a villager can be remembered that is gone: registered by
a click after its death, or cleared away with all mobs when nobody was online
(`mobs.rs:46` clears only the mob table). `Request` bounds the requests in flight at
three, one more than there are players; a history limit of 2 keeps two exchanges, so
that both appending and dropping happen.

**Items.** `Accounted` keeps a ledger of what every step is meant to add or take: a
broken block drops one, `/give` adds, eating takes one, a despawned stack goes. In every
state there is exactly that of each item, in inventories, on the ground and in the
loop's hands. Three things are written off, each as it happens. Between two lock
sections of a handler a death emptied the slot in hand (the handler then places, drinks
or writes back what already lies on the ground), the loop delivered into that slot
(`set_slot` destroys what came; `add` fills the hotbar first, so the slot just emptied
by filling a bucket is where a pickup goes), or an inventory was full (`Player::give`
and `do_trade` drop what `add` returns, unlike `tick_items`). Leaving out any of them,
in any handler, gives a counterexample. `StockNearlyKept`: the stock is checked, the
items change hands and the use is counted in three lock sections, so two players can buy
the last one. Only one player is near mobs and drops and handles items, since the tasks
of two share nothing but the ground, to which they only add; the other trades. Two slots
make an inventory full; `MaxUnits` (4) fills the first player's and leaves one for the
second. One hotbar slot is always the one in hand: only the player's own task changes
that, between handlers.

**Overworld.** Each room is a few cells with one circuit, pool or heap, and an upper
floor: what several mechanisms do to each other is in the rooms that mix them (a piston
that shoves a button, sand over TNT, fire beside wire). `SettledIsPowered` compares the
result of whatever recomputations took place, in any order, with the local law of each
wire, lamp and gate: no reference to the flood that `redstone_update` computes. That
flood stays in a box of 12 cells each way around a change (`sim.rs:406`) while a signal
of 15 goes 14 wires far, so a long circuit is recomputed in part. The run keeps the
proportion: `Full` is 4 and `R` is 2, so that power goes 3 wires far, beyond the box.
In some rooms the circuit lies within the box of whatever is used there (in one of them
power dies out on a winding wire), in others it reaches beyond. `shaken` holds the cells
that may be wrong: the parts of a circuit that the last box cut, and all of them after a
change without a recomputation. `SettledIsPowered` is about the others. `shaken`,
`stuck`, `parched` and `floating` collect what the code changes and does not follow up:
a block that a piston shoves is not taken out of `active_buttons`, an explosion
recomputes no power and tells no fluid, none of the tables is saved. `FlowsOn` contains the limit of
the fluid queue (`state.rs:282`), 5 here, at which updates are dropped. `SandKept` says
that sand over air is about to fall, and counts sand through the two lock sections of a
fall. Random ticks may do anything they may do at any time.

**Windows.** `ItemsKept` follows items through clicks that are under way while the
server changes what they were aimed at. The client decides the contents of a slot, so
there is nothing the server could refuse; the ledger says when what it writes is no
longer a move: the slot was changed by another player, by the furnace or by the answer
to an earlier click, or the window was opened over another one, or the grid had to be
returned to a full inventory, or the player left with items in it. Two things the ledger
counts as gone without any race: what is thrown out of a window, by a key over a slot or
by a click outside, which the server drops nowhere (`apply_window_click` skips slot -999
and only blanks the other), and what is laid in a brewing stand's fuel slot, which
`brewing.rs:48` ignores. The client goes on showing the second until the window is sent
again (`Ignored`), and the items are back if it takes them out before. The scenes give each
kind of window its own start, and one puts two chests of two dimensions at one position,
which share one entry in `containers` (`state.rs:96`). Two messages under way make every
order of a click with the click, the opening and the closing before it.

**Lives.** Scenes with a budget of deeds take the place of one large instance: each puts
together what touches the same tables, and the budgets are the bounds. Life is two
points of health and two of food, clocks have three hours, everything that counts down
counts one or two. `NothingIsLost` is `OnceInTheWorld`, `RestingIsKept` and
`ClockIsKept`: the first says what the cut of a save can do to what moves, the second
that what does not move survives any number of crashes, the third that the clock loses
no tick or setting but to the race of `state.rs:530`. When a player who left has yet to
write its file and another connection of the user does too, whatever the two would write
differently is cut: `Relay` is the scene where a thing passes through both. `ShownIsTrue` and `TablesAgree`
are conjunctions in the same way: what clients are shown of health, speed and weather;
and who rides, who is registered, who has statistics. Two connections of one user are
there because files are named by users and everything else by connections.

**Desk.** A setup is a configuration with clients and a network; each turns one part of
`Wire` or `Desk` loose. `Pipe`, `Mouth` and `Bare` cut the stream anywhere, under cipher
and compression, the cipher's feedback being two bytes instead of sixteen; a byte decrypts
only if the receiver has seen what the sender had written, so that a byte sent twice,
lost or out of order turns all that follows into junk. `Entry`, `Modern`, `Rude`,
`Query`, `Wrong`, `Full` and `Crowd` go from the handshake to play, keeping the protocol
or not. In `Blunt` a client that sends a stray packet in place of the login's last is in
play at once, and the packet may be read as one of play: `TakenAsSaid` excepts clients that
are lost or have left and had said nothing. A client that meets a frame it cannot read,
or a packet its phase does not know, is `confused`, which is not what a client that
breaks the protocol is (`lost`): `PeersAgree` says that no client is ever confused, and
that the session gets an unreadable frame only in setups whose clients slip, and
`EverythingArrives` excuses only who is lost or has left. `SetupsAssumption` says what all setups have in
common, and `TablesAssumption` what the id tables and layouts of `version.rs` come to:
each packet of play arrives as itself, is one of the `Foreign`, which the version does
not have, or one of the `Unadapted`, which arrive under their id in the layout of 763;
and what a client says is understood. TLC works the second out, packet by packet and version by version. `Tongue` and `Ear` say every packet in every version: `HeardAsTold` requires
that a client of that version reads the packet that was meant, with its fields in its
version's order as far as the repository says what that is: `ClientLayout` has what
`version.rs` rewrites, the tags that lost their names in 1.20.2, the text that became a
compound in 1.20.3, and the advancements. The other packets have one field, of which
nothing is claimed. The comment at `version.rs:43`, that what is
not rewritten is already wire-compatible, is not so for `Unadapted`.
`Talk`, `Debate`, `Late`, `Chores`, `Craft`, `Ruled`, `Desk1` to
`Desk3` and `Ending` are chat, commands, mods and the panel. In `Spoilt` a mod throws, asks for something
with a string that is no Unicode, or throws an error that throws again when it is made
a string; in `Hungry` the mods' memory runs out while their actions are drained. One
batch is what one event's handlers asked for, of all mods together, and
`host.rs:174` loses the whole of one it cannot parse, so `ReactionsKept` says that
what is missing is whole events: those with a garbled string, and where a drain can fail
those drained in vain (`heeded`). `SettingsKept` excepts
fields that a request wrote back from an older reading (`control.rs:247`): `crossed`.

**Fairness.** `World`: the interval of `save_loop` fires for ever and a save has no
`await`, so its steps go on (weak fairness of the beginning); the steps that can also
fail need strong fairness, which says that the disk does not refuse *every* time. Edits
are assumed to reach the disk only from the loop: a server that is stopped makes no
promise but its final save. `Presence`: a task runs on, and the 30 s timeout of
`play_loop` ends one that hears nothing. Nothing is assumed of the login, which has no
timeout, nor of living clients. `ChunkView`: a task that has set a block goes on to
broadcast it. `Conversation`: the HTTP client gives up after 30 s, so every request
ends.

`Overworld`: the game loop ticks on and a task that has begun a handler ends it (its
lock sections wait for nothing but locks); players need not click. `Desk`: writers that
can write do, sockets move bytes and a client that is connected reads; whether
`EverythingArrives` is then a matter of `poll_write` and its buffer alone. Nothing is
assumed of what players say or of the panel. `Windows` and `Lives` state safety only.

`CHECK_DEADLOCK FALSE` is set for `Presence`, where each connection is used once, for
`Windows` and `Lives`, where the budgets run out, and for `Desk`, where all may have
been said and everyone may have left: then nothing is left to do.

`World` and `Conversation` have a type invariant that is checked and proved. Those of
`Presence`, `ChunkView` and `Lives` belong to their inductive invariants and are proved
with them. The other modules have none: each variable's comment says what it holds.

## 4. Proofs

`WorldProofs`, for every set of blocks, chunks and states, every generator and every
assignment of blocks to chunks, from `WorldAssumption` only.

* `TypeCorrect`: `Spec => []TypeOK`, in both formats. That a block is in memory exactly
  when its chunk is belongs to it, since the rest needs it everywhere.
* `OverlayCorrect`: `ChunkIsOverlay`. It is not inductive by itself, since a chunk is
  built from its region file when there is one; `DeltaInv` adds that in the delta format
  there is none.
* `DebtAccounted`: `NoForgottenDebt`. The inductive `DebtInv` speaks of every chunk that
  is not owed a save, says of it that what readers see *and* what `build_chunk` would
  build are what is on disk, and that a dirty chunk is in memory or orphaned. Without
  the second an eviction, and without the third the draining of the marks, could not be
  shown to preserve the first.
* `CleanEvictionCorrect`: the action property of the region format, from the same
  invariant.
* `DeltaImplementsBlockMap`: the refinement. Under `SaveInv` (an open file is
  `blocks.tmp`, and a written one holds the saver's picture) each step of the store is a
  step of `BlockMap` or a stutter (`StepSimulation`). It is stated for one saver: with
  two, `SaveInv` fails, and `torn_save` shows how.

`ConversationProofs`, for any players, villagers, requests and history limit, from
`ConversationAssumption` only.

* `TypeCorrect`: `Spec => []TypeOK`.
* `NoneLeftThinking` and `GhostsExplained`: `BusyIsAnswered` and `GhostsByRace` are
  inductive as they stand, given the types.
* `SecondFlightExplained`: `SecondFlightByRush`. The inductive `SoloInv` says of a
  villager that was neither rushed nor registered anew that at most one request for it
  is in flight or about to be sent, and that it is busy while one flies: only then does
  the busy flag a second player reads keep that player out.
* `HistoryCorrect`: `HistoryIsDialogue`, from two lemmas: an exchange appended to whole
  exchanges, and whole exchanges without the first, are whole exchanges. The limit is
  twice a number of exchanges (`connection.rs:1144`); an odd one would cut an exchange
  in two.

`PresenceProofs`, for any connections, users, dimensions and `max_players`, from
`PresenceAssumption` only.

* `PlayersSeeEachOther` and `LeaversAreForgotten`: `ShowsWhoIsThere` and
  `ForgetsWhoLeft`, both from `PresenceInv`. A connection works through a copy of the
  table that may be old; whoever joins while it joins, or leaves while it is being told
  who is there, is noted (`Races`). Of a pair that is not noted, whoever is there is
  shown already or still in the copy (`Sees`), and whoever is gone is in neither
  (`Forgets`).
* `OverfullTakesARush`: `OverfullOnlyByRush`. The table alone is not inductive, since
  who has passed the check enters it later. `PlacesInv` counts the guests, those in the
  table and those on the way: without the ones who rushed they are no more than
  `max_players`. `AdmitKeeps` is the check; `OthersLetNobodyIn` is every other step.

`ChunkViewProofs`, for any players, engine tasks, dimensions, chunks, contents and any
view, from `ChunkViewAssumption` only. That the client's having nothing (`Nowhere`) is
no chunk, no contents and no change is part of it.

* `LoadedCorrect` and `CachedLightCorrect`: `LoadedIsShown` and `LightIsCurrent`. The
  second needs what is true of light on its way into the cache (`LitIsCurrent`): it is
  that of what the chunk holds, or the chunk was changed since it was copied.
* `ViewsCorrect`: `ClientsShowTheWorld`. Between a change and its broadcast, a copy and
  its sending, and loading and entering the table, a client may show something else;
  `Current` says that a copy on its way, what a newcomer shows, and what a task is about
  to tell are each what the world holds, or noted as overtaken.

`LivesSteps` and `LivesProofs`, for any players, users, mobs, kinds, vehicles, things,
scenes and numbers, from `LivesAssumption` and `ScenesAssumption`: that players, mobs
and things are finitely many, that names of different things differ, that blows, full
health and some times are not zero, that villagers are not bred (they have no food in
`breeding_food`), and that scenes begin with mobs just born.

* `LivesInvariant`: `LivesInv`, which TLC found to hold on the instance of `Lives.cfg`.
  The next three theorems follow from it. `Lives` has over sixty steps on eighteen
  variables, so the proof first says what each step leaves alone (`MarksKept`,
  `WhatBecomesOfPlayers`, `WhatBecomesOfTables`, `WhatThreadsDo`, `AsideLeaves`), and
  each part is then shown against the few steps that concern it.
* `TheDeadAreDead`: `DeadOrAlive`. Inductive but for mobs: a baby must have an age and a
  lover must be tame and there, so that what becomes of two lovers is sound, and for
  that no lover may go while a tick runs through its mobs (`LoversTame`, `JobsInOrder`,
  `MobsToCome`, `RemoveNoted`). That a blow reaches a known player is `Whereabouts`.
* `RegistersAgree`: `TablesAgree`. Mounting and dismounting are two locks each, so
  `Boarding` speaks of the players between them: half way on, a player is the vehicle's
  rider or was ousted; half way off, it rides nothing. `NamingVillagers` speaks of
  villagers spawned and not yet registered, and `OneSavedEach` of the file, since a
  restart registers what it reads there.
* `ClientsAreToldTheTruth`: `ShownIsTrue`. Only at rest does a client show what is so.
  `SomeoneTells` is the reason: whoever shows something else has a thread that is about
  to tell it, and `TellsTheTruth` that what a thread is about to tell is so unless
  another thread has overtaken it, which `old` notes. `WeatherToTell` says the same of
  the broadcast of rain, and `SlowAtFirst` of the speed of newcomers.

* `NothingIsEverLost`: `NothingIsLost`, from a second invariant, `ThingsInv`, on top of
  the first (`ThingsInvariant`). Of a thing that still counts, `Sole` says that it is in
  exactly one place, where a pack that is yet to be saved, the picture of the save under
  way and the file are one place and `Alike` says that they agree; of one that has not
  moved since the save began, `Rests` says that each file the save has passed has it
  exactly where it is, and so have those it has taken and not yet written; of one that
  has rested through a whole save, `Homed` says that it still is where it was. Two
  connections of one user are why the first is not inductive: what either has counts no
  more (`TwiceNoted`, `TwiceBare`). `SaverInOrder` and `ClockNoted` fix the order of
  the save and of the loop that the rest leans on. `ScenesAssumption` says further that
  a scene begins with each thing in one place at most, and `NothingAssumption` that what
  stands for a missing or torn file is no content of one.

`ItemsProofs`, for any players, items, slots, stack sizes and number of uses, from
`ItemsAssumption` only: that the order in which the window shows its slots has all of
them, that stacks hold at least one, that what a player begins with are stacks, and that
an offer is paid in another item than it gives.

* `StockBound`: `StockNearlyKept`, inductive given that `uses` is a number and `task` a
  function. A player who passes the check finds at least one use left and everyone else
  at most past it too.
* `ItemsAddUp`: `Accounted`. The inductive `AccountInv` adds what each task and the loop
  may hold where they are, and `CopiesAgree`: the stack a task has copied is the one in
  hand, or part of it if the loop has only filled that since, or there is nothing in
  hand if the loop has only emptied it. Only then is what a handler writes back later
  what the ledger was told. Below it are the methods of `Inventory` as folds over slots
  (`AddDoes`, `SpendDoes`: what they leave and what they add or take, whatever the
  slots hold) and the sums over slots and players (`SumTakes`, `SumChanges`). Both are
  proved by induction, in the form that a set of numbers has a least one and a set of
  finite sets a smallest (`LeastNumber`, `SmallestSet`, from `WFMin`).

`DeskProofs`, for any clients, texts, mods and requests.

* `SettingsSurvive`: `SettingsKept`, inductive as it stands and from no assumption. A
  request that leaves a field out writes what it had read: that is either the field
  still, or the field is noted as crossed (`WritingKeeps`); nothing else in the server
  writes the settings (`PlayersTouchNone`, `OtherRequests`).
* `ReactionsInOrder`: `ReactionsKept`, from `DeskAssumption`: handlers and what they do
  come in an order, and Shutdown is no event. The inductive invariant `Tallied` divides
  the events fired into those drained, those `held` in the array because the last drains
  failed, and those that wait for the thread, in order and before its Shutdown: what is
  applied and in the channel together are the reactions to the drained ones that were
  heeded, and the array holds the calls of the held ones and no others. A drain that
  parses passes on exactly those (`DrainTallies`), one that does not is either garbled
  by a call of one of them, or the memory had run out. What `FlattenSeq` makes of one more sequence
  (`FlattenAppend`) is shown by induction up to a number (`Reached`).
* `HeardInOrder` and `SaidInOrder`: `HeardAsTold` and `TakenAsSaid`, from
  `SetupsAssumption` and `TablesAssumption`, which TLC evaluates. `WiredInv`
  (`ConnectionsInvariant`) says of every connection (`Wired`) how far the two ends can be
  apart (`Stage`: which of the session's phases goes with which of the client's, and the
  packets of the login then on the way), and that what is on the way down, in the
  client's hands, the sockets, the cipher's buffer and `write_all`'s, is the packets told
  and not yet heard (`DownFlow`, `Owed`), the channel holding the rest (`Queued`); on the
  way up, those said and not yet taken (`UpFlow`, `Sent`). It does not follow the cipher.
  It says that the bytes are those of the frames or junk (`Blurs`), and the argument is
  that a frame is then read as its packet or not at all: its first byte tells how long
  it is, a junk byte makes it no packet, and whoever reads no packet reads nothing
  after it (`UpTakes`, `DownHandles`). So compression, keys and registers may disagree
  and order still holds; that they do agree is `PeersAgree`, and that nothing stops
  `EverythingArrives`, both model-checked only. Of layouts the theorem says no more than
  `ClientLayout` does: of a packet in `Unadapted`, that it comes under its id, in its
  turn. Every step is one lemma (`ConnectionSteps` and those it
  cites). A task's plan holds only packets of play (`CastOK`), with `SendsOne` for a
  broadcast's steps.

Only model-checked:

* the liveness properties (`EditReachesDisk`, `SilenceIsNoticed`,
  `ChangeReachesClients`, `ComesRound`, `ComesUp`, `EverythingArrives`), since fairness
  is out of the prover's reach;
* `PeersAgree`, since the invariant of the connections does not follow the cipher's
  registers, nor what is on the way to a client that only asks for the status;
* `AnswersFollow`, which has not been attempted: given the order on each connection it is
  about who had been sent a line when its answer is sent, through three tasks;
* `SettledIsPowered`, `PowerIsReleased`, `FlowsOn` and `SandKept` of
  `Overworld`, and `ItemsKept` and `ViewIsTrue` of `Windows`, which have not been
  attempted. The first two rest on the flood of power, a recursive function.

## 5. What the models leave out

* `World`: a write to a file is one step, and a truncated file is read as one without
  edits (`load_blocks` takes what it can parse). In the region format a file is written
  and renamed under the world's mutex, which `save_all` holds for the whole loop, so it
  is one step too. A grid of the wrong length, at which `from_grid` would panic, is not
  read back by a server that wrote it. Only the overworld is saved; the nether and the
  end are made anew at each start. Light is a function of a chunk's contents, the
  contents are one value, and the generator is a constant.
* `Presence`: mobs and vehicles sent to a newcomer, movement, statistics and
  advancements cleared at the end. Chat and mod events are in `Desk`, effects in
  `Lives`.
* `ChunkView`: leaving; the order in which missing chunks are sent (any order will do);
  a client's own prediction of what it breaks and places.
* `Conversation`: the words, the prompts and the providers.
* `Items`: what a handler does to the block, the animal or the food bar; enchantments
  and potion kinds (a stack is an item and a count, and stacks merge by item as in
  `add`); creative mode; the bow, `/craft` and `/clear`; armour; where players and
  stacks are; a player's leaving. Of trading: villagers' experience and the offers it
  unlocks, several offers, the merchant window. Window clicks are in `Windows`.
* `Overworld`: rails, note blocks, sounds; the other dimensions; the chances of random
  ticks; saving (`World`) and broadcasting (`ChunkView`) of what it changes. A restart
  brings the world back as it was.
* `Windows`: a click moves what a cursor can take or leave at one slot (of the code's
  list of changed slots, the client sends one); a client does not predict what taking a
  crafted item uses up; packets to a client arrive when sent, since whatever the client
  did before one arrives it may as well have done before it was sent; the number of
  slots; pickups into an open inventory (`Items`); signs.
* `Lives`: where anyone is, so that whoever can be near is, when it matters; the
  capacity of inventories and using things up (`Items`); shearing, milking, experience,
  signs, the spawning and breaking of vehicles. `snapshot_data`'s two locks on one
  player are one step, and so are the look and the blow of an attack; there is one saver
  at a time (`World` has two); packets to clients arrive when sent; a tick makes at most
  one pair; its phases come in any order. The process dies and starts in one step.
* `Wire` and `Desk`: RSA, the session server and zlib; the contents of a status answer;
  empty frames; pieces smaller than a third of a frame. On leaving, the writer's queue
  is dropped at once. The mods' ticks and block events; loading of mods; the handlers of
  an event and the drain of their actions are one step. `/help`, `/list` and `/pos` are
  one answer. The panel's read-only endpoints and its stream of status. The process may
  end at any time after `server_stop` was fired.

### Not modelled

* The terrain generator, the tables of items, recipes, mobs and advancements, and the
  configuration: pure functions and data, on which the models have constants.
* NBT, the registry and the layout of packets whose layout the repository says nothing
  about in other versions: byte layouts without state; their round trips are
  unit-tested.
* The Atlas panel (`src/admin`), a client of the control API.

### What was seen on the way

Places where the code does other than its comments or players would expect, which the
properties name as exceptions or the models reproduce:

* `README.md:44` promises that players see each other and `AI_VILLAGERS.md:15` one
  request per villager: both hold but for the races in `ShowsWhoIsThere` and
  `SecondFlightByRush`.
* A baby fed to exactly age 0 stays one (`entity.rs:174`, `connection.rs:1039`):
  `overfed`.
* A player saved while dead comes back with no health and cannot be killed
  (`combat.rs:35`): `undead`.
* `state.rs:631` clears effects "on leave/respawn"; respawning does not. Milk takes an
  effect and leaves the walk speed: `milked`. `/weather` tells clients and does not set
  the weather: `misled`.
* A clock saved at 0 is read as none. A periodic save can overwrite the newer file of a
  player who has left.
* `commands.rs:37` lists `/kill` among the operator commands; it asks for no rights.
* A kick sends a disconnect packet and goes on reading.
* In the configuration phase of the newer versions, a client that sends anything but the
  acknowledgement of its login is in play at once.
* `version.rs:990` tests that no two source ids map to one target. Ids that a table does
  not list are not tested and do collide: `hurt_animation` arrives as another packet in
  760, 759 and 758, `damage_event` in 759, `resource_pack` in 765. 1.18's chat id is in
  no table, and such lines are ignored.
* Power is recomputed within 12 cells of a change and runs 15: the end of a longer wire
  keeps what it had (`sim.rs:406`).
* What is laid in a brewing stand's fuel slot, or thrown out of a window, is gone
  (`brewing.rs:48`, `connection.rs:1930`).
* Clients of 1.20.2 and later get items whose tag has a name, and those of 1.20.3 most
  text as JSON, though `version.rs:773` and `connection.rs:363` know that they read
  neither: `Unadapted` lists these packets. Advancements are withheld from 1.20.3 for that reason.
* One string of a mod that serde_json refuses loses what all mods asked for at that
  event (`host.rs:174`), and an error that cannot be made a string ends the event for
  the handlers that follow (`prelude.js:59`).
* Packets still queued when a player leaves are dropped with the writer task, and
  reactions of mods to `server_stop` may never be carried out.

## 6. Plan

All components with state of their own are modelled; what is left is depth.

1. Theorems: `AnswersFollow` of `Desk`, on top of `HeardInOrder`; `PeersAgree`, for
   which the invariant must follow the registers of both ciphers; then `ItemsKept` and
   `ViewIsTrue` of `Windows`, with the sums of `ItemsProofs`.
2. A byte queue as the abstract specification of `EncryptedWriter`, and the refinement.
3. `Items` again: villagers' levels, several offers, the bow.
4. Signs and vehicles among what is saved.
