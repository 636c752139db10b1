-------------------------------- MODULE Desk --------------------------------
(***************************************************************************)
(* What is said and ordered in play, on top of Wire: chat lines and slash  *)
(* commands (connection.rs, commands.rs), the mods behind their two        *)
(* channels (crates/mods, mod_actions.rs) and the panel's requests         *)
(* (control.rs).  A task's broadcast goes from player to player under a    *)
(* read lock on the player table: other tasks send in between, nobody      *)
(* joins or leaves.                                                        *)
(*                                                                         *)
(* Wire's numbers for what a client says name the texts here.  The client  *)
(* shows arg of a packet: t for the line with text t, -t for what a mod    *)
(* makes of it, 0 otherwise.  Nobody is talking to a villager              *)
(* (Conversation); blocks reaching the clients' screens is in ChunkView.   *)
(***************************************************************************)
EXTENDS Wire

CONSTANTS
  Texts,     \* what may be said: [name, n, who, times], by its number
  Ops,       \* the clients with operator rights
  Items,     \* the items commands name
  Recipe,    \* of an item that can be crafted: the items it takes, and how many
  Handlers,  \* of an event's name: the mods' handlers in the order they registered
  Orders,    \* of a command's name: the mod's handler of it
  Requests,  \* of a panel request: [what, allowed, n, who, sets]
  Mods,      \* the task that applies what mods ask for
  NoEvent    \* nothing for the mods

VARIABLES
  person,    \* per client: its mode, pack, place, experience, last enchantment
  clock,     \* world_time
  block,     \* the block at the one place mods and panel write
  fleet,     \* how many vehicles there are
  cast,      \* per task: what it is still to send
  msgs,      \* the channel to the mod thread
  thread,    \* the mod thread: "up", "down" after Shutdown
  actions,   \* the array the mods' calls fill
  heeded,    \* history: of each event whose actions were drained, whether they were sent on
  held,      \* history: how many events have run since the array was last emptied
  chan,      \* the channel of actions
  ai,        \* the live AI settings
  panel,     \* per request: how far it is, and the settings it read
  audience,  \* history: to whom a line's broadcast went
  fired,     \* history: events fired while there was a mod thread to take them
  applied,   \* history: actions taken from the channel
  given,     \* history: the settings each field was last given
  crossed    \* history: the fields one request overwrote with what it had read before another

saidVars  == <<person, clock, block, fleet>>
modVars   == <<msgs, thread, actions, heeded, held, chan, fired, applied>>
panelVars == <<ai, panel, given, crossed>>
deskVars  == <<saidVars, cast, modVars, panelVars, audience>>
vars      == <<wireVars, deskVars>>

Request == DOMAIN Requests
Task == Clients \cup {Mods} \cup Request
Field == {"enabled", "key"}

-----------------------------------------------------------------------------
(***************************************************************************)
(* Sending.  What a task still has to send is a sequence of [packet, to],  *)
(* to a set of players or "all" or "others" for whoever is in the table    *)
(* when its turn comes; then it fires an event.                            *)
(***************************************************************************)
Idle == [plan |-> <<>>, to |-> {}, event |-> NoEvent, busy |-> FALSE]
Busy(plan, event) == [plan |-> plan, to |-> {}, event |-> event, busy |-> TRUE]
Sending(plan) == [Idle EXCEPT !.plan = plan]

Say(arg) == Packet(SYSTEM_CHAT, Body(SYSTEM_CHAT), arg)
Plain(id) == Packet(id, Body(id), 0)
To(cs, packet) == [packet |-> packet, cs |-> cs, all |-> FALSE]
ToAll(packet) == [packet |-> packet, cs |-> {}, all |-> TRUE]
ToOthers(c, packet) == [packet |-> packet, cs |-> {c}, all |-> TRUE]

Audience(send) == IF send.all THEN Playing \ send.cs ELSE send.cs

\* The player table is being walked by a broadcast.
Locked == \E a \in Task : cast[a].to # {}

\* One player is sent the packet; the first one starts the broadcast.
SendOne(a) ==
  /\ cast[a].plan # <<>>
  /\ LET send == Head(cast[a].plan)
         new  == cast[a].to = {}
         to   == IF new THEN Audience(send) ELSE cast[a].to
     IN /\ IF to = {}
           THEN /\ cast' = [cast EXCEPT ![a].plan = Tail(@)]
                /\ UNCHANGED <<queue, told>>
           ELSE \E c \in to :
                  /\ SendTo({c}, send.packet)
                  /\ cast' = [cast EXCEPT
                       ![a].to = to \ {c},
                       ![a].plan = IF to = {c} THEN Tail(@) ELSE @]
        /\ audience' = IF new /\ send.packet.id = SYSTEM_CHAT /\ send.packet.arg > 0
                       THEN [audience EXCEPT ![send.packet.arg] = to] ELSE audience
  /\ UNCHANGED <<srvVars, outVars, cliVars, down, up, saidVars, modVars, panelVars>>

\* fire_mod: the event is queued, if there is a thread to take it.
fire_mod(event) ==
  IF event = NoEvent THEN UNCHANGED <<msgs, fired>>
  ELSE /\ msgs' = Append(msgs, event)
       /\ fired' = IF thread = "up" /\ ~\E i \in DOMAIN msgs : msgs[i] = NoEvent
                   THEN Append(fired, event) ELSE fired

\* A session has sent all: it fires the event, and its packet is dealt with.
Finish(c) ==
  /\ cast[c].busy /\ cast[c].plan = <<>>
  /\ fire_mod(cast[c].event)
  /\ cast' = [cast EXCEPT ![c] = Idle]
  /\ hand' = [hand EXCEPT ![c] = NoPacket]
  /\ UNCHANGED <<setup, srv, todo, taken, outVars, cliVars, queue, down, up, told, audience,
                 saidVars, panelVars, thread, actions, heeded, held, chan, applied>>

-----------------------------------------------------------------------------
(***************************************************************************)
(* Coming, going, chat.                                                    *)
(***************************************************************************)
Event(name, n) == [name |-> name, n |-> n]

Comes(c) ==
  /\ ~Locked /\ Join(c)
  /\ cast' = [cast EXCEPT ![c] = Busy(<<ToAll(Say(0))>>, Event("player_join", 0))]
  /\ UNCHANGED <<saidVars, modVars, panelVars, audience>>

\* The name leaves the list, the entity the world, and the others are told.
Goes(c) ==
  /\ ~Locked /\ ~cast[c].busy /\ Leave(c)
  /\ cast' = [cast EXCEPT ![c] = Busy(<<ToAll(Plain(PLAYER_INFO_REMOVE)),
       ToAll(Plain(REMOVE_ENTITIES)), ToAll(Say(0))>>, Event("player_leave", 0))]
  /\ UNCHANGED <<saidVars, modVars, panelVars, audience>>

InHand(c, id) == hand[c] # NoPacket /\ ~cast[c].busy /\ hand[c].id = id

\* The line to everybody, then the event.
ChatPlan(t) == <<ToAll(Say(t))>>
ChatEvent(t) == Event("chat", t)

\* Mutant: the mods are told before the players are.
chat_fired_first(c) ==
  /\ InHand(c, CHAT_MESSAGE)
  /\ fire_mod(ChatEvent(hand[c].arg))
  /\ cast' = [cast EXCEPT ![c] = Busy(ChatPlan(hand[c].arg), NoEvent)]
  /\ UNCHANGED <<wireVars, saidVars, thread, actions, heeded, held, chan, applied, panelVars,
                 audience>>

handle_chat(c) ==
  /\ InHand(c, CHAT_MESSAGE)
  /\ cast' = [cast EXCEPT ![c] = Busy(ChatPlan(hand[c].arg), ChatEvent(hand[c].arg))]
  /\ UNCHANGED <<wireVars, saidVars, modVars, panelVars, audience>>

-----------------------------------------------------------------------------
(***************************************************************************)
(* Commands: what one does to the player at once, and what it then sends.  *)
(***************************************************************************)
Tells(c) == <<To({c}, Say(0))>>
Order(c) == Texts[hand[c].arg]

\* The command changes the player to p and sends these.
Does(c, p, sends) ==
  /\ person' = [person EXCEPT ![c] = p]
  /\ cast' = [cast EXCEPT ![c] = Busy(sends, NoEvent)]

\* It only tells the player something.
Answers(c) == Does(c, person[c], Tells(c))

\* /tp to a place or to somebody in the table.
teleport(c, text) ==
  LET there == IF text.n >= 0 THEN text.n ELSE person[text.who].place
  IN /\ IF text.n >= 0 \/ text.who \in Playing
        THEN Does(c, [person[c] EXCEPT !.place = there],
                  <<To({c}, Plain(SYNC_POSITION)), ToOthers(c, Plain(ENTITY_TELEPORT))>>)
        ELSE Answers(c)
     /\ UNCHANGED <<clock, fleet>>

set_gamemode(c, gm) ==
  Does(c, [person[c] EXCEPT !.mode = gm],
       <<To({c}, Plain(GAME_EVENT)), To({c}, Plain(PLAYER_ABILITIES))>> \o Tells(c))

gamemode(c, text) ==
  /\ IF text.n \in 0 .. 3 THEN set_gamemode(c, text.n) ELSE Answers(c)
  /\ UNCHANGED <<clock, fleet>>

give(c, text) ==
  /\ IF text.n \in Items
     THEN Does(c, [person[c] EXCEPT !.pack[text.n] = @ + 1],
               <<To({c}, Plain(WINDOW_ITEMS))>> \o Tells(c))
     ELSE Answers(c)
  /\ UNCHANGED <<clock, fleet>>

\* Anything that is no time is day.
time(c, text) ==
  /\ clock' = IF text.n >= 0 THEN text.n ELSE 1000
  /\ Does(c, person[c], <<ToAll(Plain(UPDATE_TIME))>> \o Tells(c))
  /\ UNCHANGED fleet

weather(c) ==
  /\ Does(c, person[c], <<ToAll(Plain(GAME_EVENT))>> \o Tells(c))
  /\ UNCHANGED <<clock, fleet>>

\* The first item there is is the one in hand.
enchant(c, text) ==
  /\ IF text.n >= 0 /\ \E i \in Items : person[c].pack[i] > 0
     THEN Does(c, [person[c] EXCEPT !.ench = text.n], <<To({c}, Plain(SET_SLOT))>> \o Tells(c))
     ELSE Answers(c)
  /\ UNCHANGED <<clock, fleet>>

vehicle(c) ==
  /\ fleet' = fleet + 1
  /\ Does(c, person[c], <<ToAll(Plain(SPAWN_ENTITY))>> \o Tells(c))
  /\ UNCHANGED clock

NoItems == [i \in Items |-> 0]

clear(c) ==
  /\ Does(c, [person[c] EXCEPT !.pack = NoItems, !.ench = 0],
          <<To({c}, Plain(WINDOW_ITEMS))>> \o Tells(c))
  /\ UNCHANGED <<clock, fleet>>

xp(c, text) ==
  /\ Does(c, [person[c] EXCEPT !.xp = IF @ + text.n > 0 THEN @ + text.n ELSE 0],
          <<To({c}, Plain(SET_EXPERIENCE)), To({c}, Plain(SOUND_EFFECT))>> \o Tells(c))
  /\ UNCHANGED <<clock, fleet>>

\* As often as asked while the ingredients last.
craft(c, text) ==
  LET need == Recipe[text.n]
      lasts(k) == \A i \in Items : person[c].pack[i] >= k * need[i]
      made == CHOOSE k \in 0 .. text.times : lasts(k) /\ (k < text.times => ~lasts(k + 1))
  IN /\ IF text.n \in DOMAIN Recipe /\ made > 0
        THEN Does(c, [person[c] EXCEPT !.pack = [i \in Items |->
                        @[i] - made * need[i] + (IF i = text.n THEN made ELSE 0)]],
                  <<To({c}, Plain(WINDOW_ITEMS))>> \o Tells(c))
        ELSE Answers(c)
     /\ UNCHANGED <<clock, fleet>>

Cheats == {"gamemode", "give", "time", "weather", "enchant", "vehicle", "clear"}
Builtin == Cheats \cup {"help", "list", "pos", "tp", "xp", "craft"}

\* is_op and require_op: a cheat needs operator rights, if any are given out.
Refused(c, name) == name \in Cheats /\ Ops # {} /\ c \notin Ops

\* The commands that do something.
run_builtin(c, text) ==
  CASE text.name = "tp"       -> teleport(c, text)
    [] text.name = "gamemode" -> gamemode(c, text)
    [] text.name = "give"     -> give(c, text)
    [] text.name = "time"     -> time(c, text)
    [] text.name = "weather"  -> weather(c)
    [] text.name = "enchant"  -> enchant(c, text)
    [] text.name = "vehicle"  -> vehicle(c)
    [] text.name = "clear"    -> clear(c)
    [] text.name = "xp"       -> xp(c, text)
    [] text.name = "craft"    -> craft(c, text)

\* Built-in commands first; what none of them is goes to the mods.
handle_command(c) ==
  /\ InHand(c, CHAT_COMMAND)
  /\ LET text == Order(c)
         only_told == text.name \in {"help", "list", "pos"} \/ Refused(c, text.name)
     IN CASE text.name \notin Builtin ->
               /\ cast' = [cast EXCEPT ![c] = Busy(<<>>, Event("command", hand[c].arg))]
               /\ UNCHANGED <<person, clock, fleet>>
          [] text.name \in Builtin /\ only_told -> Answers(c) /\ UNCHANGED <<clock, fleet>>
          [] OTHER -> run_builtin(c, text)
  /\ UNCHANGED <<wireVars, block, modVars, panelVars, audience>>

-----------------------------------------------------------------------------
(***************************************************************************)
(* Mods.  A handler is [does, ends]: the calls it makes before it ends     *)
(* "well", or is "thrown" by an error, or "uncaught" by one that throws    *)
(* again when it is made a string, or leaves no memory for that.  An       *)
(* action is [type, n, who], n what it answers; one of type "garbled" has  *)
(* a string that is no Unicode, which JSON.stringify writes and serde_json *)
(* refuses.                                                                *)
(***************************************************************************)
Log == [type |-> "log", n |-> 0, who |-> NoPacket]

\* The calls of one handler: what it did before it threw stays.
Caught(handler, n) ==
  [i \in DOMAIN handler.does |-> [handler.does[i] EXCEPT !.n = IF @ = 0 THEN n ELSE @]]
    \o (IF handler.ends = "thrown" THEN <<Log>> ELSE <<>>)

HandlersOf(name) == IF name \in DOMAIN Handlers THEN Handlers[name] ELSE <<>>

\* The catch of an earlier handler did not itself throw, which ends the dispatch.
Runs(handlers, i) == \A j \in 1 .. (i - 1) : handlers[j].ends # "uncaught"

dispatch(name, n) ==
  FlattenSeq([i \in DOMAIN HandlersOf(name) |->
    IF Runs(HandlersOf(name), i) THEN Caught(HandlersOf(name)[i], n) ELSE <<>>])

\* A command without a handler of its own is an event like the others.
runCommand(n) ==
  IF Texts[n].name \in DOMAIN Orders THEN Caught(Orders[Texts[n].name], n)
  ELSE dispatch("command", n)

Calls(event) ==
  IF event.name = "command" THEN runCommand(event.n) ELSE dispatch(event.name, event.n)

\* Handlers and what they do come in an order; Shutdown is no event.
Listed(s) == s \in Seq(Range(s))
ASSUME DeskAssumption ==
  /\ \A name \in DOMAIN Handlers :
       /\ Listed(Handlers[name])
       /\ \A i \in DOMAIN Handlers[name] : Listed(Handlers[name][i].does)
  /\ \A name \in DOMAIN Orders : Listed(Orders[name].does)
  /\ Event("server_stop", 0) # NoEvent

\* Mutant: drain does not empty the array.
DrainedNever(array) == array

\* What drain leaves in the array.
Drained(array) == <<>>

\* Action types the thread does not know are skipped.
Known(calls) ==
  FlattenSeq([i \in DOMAIN calls |-> IF calls[i].type = "unknown" THEN <<>> ELSE <<calls[i]>>])

\* One string that does not parse, and nothing of the batch is: unwrap_or_default.
Garbled(calls) == \E i \in DOMAIN calls : calls[i].type = "garbled"
Parsed(calls) == IF Garbled(calls) THEN <<>> ELSE Known(calls)

All(n, heed) == [i \in 1 .. n |-> heed]

\* A drain sends on what was asked for since the last one.
Drains(all) ==
  /\ chan' = chan \o Parsed(all)
  /\ actions' = Drained(all)
  /\ heeded' = heeded \o All(held + 1, ~Garbled(all)) /\ held' = 0

\* The mods' memory is at its limit and the drain throws: before the new array is
\* there, and the old one stays for the next drain, or while the text is made of it.
DrainFails(all) ==
  /\ setup.starves
  /\ \/ actions' = all /\ held' = held + 1 /\ UNCHANGED heeded
     \/ actions' = <<>> /\ held' = 0 /\ heeded' = heeded \o All(held + 1, FALSE)
  /\ UNCHANGED chan

\* The thread takes an event, runs its handlers and drains what they asked for;
\* NoEvent is Msg::Shutdown.
RunThread ==
  /\ thread = "up" /\ msgs # <<>>
  /\ msgs' = Tail(msgs)
  /\ IF Head(msgs) = NoEvent
     THEN thread' = "down" /\ UNCHANGED <<actions, heeded, held, chan>>
     ELSE /\ LET all == actions \o Calls(Head(msgs)) IN Drains(all) \/ DrainFails(all)
          /\ UNCHANGED thread
  /\ UNCHANGED <<wireVars, saidVars, cast, panelVars, audience, fired, applied>>

\* What a mod's message shows when it answers n.
Reply(n) == Say(-n)

ModSends(action) ==
  CASE action.type = "broadcast" -> <<ToAll(Reply(action.n))>>
    [] action.type = "tell" /\ action.who \in Playing -> <<To({action.who}, Reply(action.n))>>
    [] action.type = "kick" /\ action.who \in Playing -> <<To({action.who}, Plain(DISCONNECT))>>
    [] action.type = "set_block" /\ action.n >= 0 -> <<ToAll(Plain(BLOCK_UPDATE))>>
    [] OTHER -> <<>>

\* mod_actions::run: one action after another; a block that has no name is -1.
Apply ==
  /\ cast[Mods].plan = <<>> /\ chan # <<>>
  /\ chan' = Tail(chan)
  /\ applied' = Append(applied, Head(chan))
  /\ block' = IF Head(chan).type = "set_block" /\ Head(chan).n >= 0 THEN Head(chan).n ELSE block
  /\ cast' = [cast EXCEPT ![Mods] = Sending(ModSends(Head(chan)))]
  /\ UNCHANGED <<wireVars, person, clock, fleet, msgs, thread, actions, heeded, held, fired, panelVars,
                 audience>>

\* Ctrl-C: server_stop, then Shutdown; the process ends at any time after.
ServerStop ==
  /\ setup.stops /\ ~\E i \in DOMAIN msgs : msgs[i] = NoEvent
  /\ thread = "up"
  /\ msgs' = msgs \o <<Event("server_stop", 0), NoEvent>>
  /\ fired' = Append(fired, Event("server_stop", 0))
  /\ UNCHANGED <<wireVars, saidVars, cast, thread, actions, heeded, held, chan, applied, panelVars,
                 audience>>

-----------------------------------------------------------------------------
(***************************************************************************)
(* The panel.  Every request shows the token first.                        *)
(***************************************************************************)
Asked(r, sends) ==
  /\ panel' = [panel EXCEPT ![r].at = "done"]
  /\ cast' = [cast EXCEPT ![r] = Sending(sends)]

PanelStays == UNCHANGED <<wireVars, person, clock, fleet, modVars, audience, ai, given, crossed>>

Unauthorized(r) ==
  /\ r \in setup.asks /\ panel[r].at = "new" /\ ~Requests[r].allowed
  /\ panel' = [panel EXCEPT ![r].at = "done"]
  /\ UNCHANGED <<block, cast>> /\ PanelStays

Allowed(r, what) ==
  /\ r \in setup.asks /\ panel[r].at = "new"
  /\ Requests[r].what = what /\ Requests[r].allowed

\* say, and the same over the WebSocket.
say(r) ==
  /\ Allowed(r, "say")
  /\ Asked(r, <<ToAll(Say(0))>>)
  /\ UNCHANGED block /\ PanelStays

\* The player is sent a disconnect; the connection is left open.
kick(r) ==
  /\ Allowed(r, "kick")
  /\ Asked(r, IF Requests[r].who \in Playing
              THEN <<To({Requests[r].who}, Plain(DISCONNECT))>> ELSE <<>>)
  /\ UNCHANGED block /\ PanelStays

setblock(r) ==
  /\ Allowed(r, "setblock")
  /\ Asked(r, IF Requests[r].n >= 0 THEN <<ToAll(Plain(BLOCK_UPDATE))>> ELSE <<>>)
  /\ block' = IF Requests[r].n >= 0 THEN Requests[r].n ELSE block
  /\ PanelStays

\* What a request supplies: 0 stands for a field it leaves out, and for an empty key.
Supplied(r) == {f \in Field : Requests[r].sets[f] # 0}

\* Mutant: an empty key overwrites, as the other fields would not.
MergedBlank(r, cfg) ==
  [f \in Field |-> IF f \in Supplied(r) \cup {"key"} THEN Requests[r].sets[f] ELSE cfg[f]]

\* Only what is supplied overwrites.
Merged(r, cfg) == [f \in Field |-> IF f \in Supplied(r) THEN Requests[r].sets[f] ELSE cfg[f]]

\* set_ai reads the settings ...
ReadAi(r) ==
  /\ Allowed(r, "ai")
  /\ panel' = [panel EXCEPT ![r] = [at |-> "read", cfg |-> ai]]
  /\ UNCHANGED <<block, cast>> /\ PanelStays

\* ... and writes all of them, over whatever was written since.
WriteAi(r) ==
  /\ panel[r].at = "read"
  /\ ai' = Merged(r, panel[r].cfg)
  /\ panel' = [panel EXCEPT ![r].at = "done"]
  /\ given' = [f \in Field |-> IF f \in Supplied(r) THEN Requests[r].sets[f] ELSE given[f]]
  /\ crossed' = (crossed \ Supplied(r))
                  \cup {f \in Field \ Supplied(r) : panel[r].cfg[f] # ai[f]}
  /\ UNCHANGED <<wireVars, saidVars, cast, modVars, audience>>

Panel(r) == \/ Unauthorized(r) \/ say(r) \/ kick(r) \/ setblock(r) \/ ReadAi(r) \/ WriteAi(r)

-----------------------------------------------------------------------------
DeskInit ==
  /\ person   = [c \in Clients |-> [mode |-> 0, pack |-> NoItems, place |-> 0, xp |-> 0, ench |-> 0]]
  /\ clock    = 0
  /\ block    = 0
  /\ fleet    = 0
  /\ cast     = [a \in Task |-> Idle]
  /\ msgs     = <<>>
  /\ thread   = "up"
  /\ actions  = <<>>
  /\ heeded   = <<>>
  /\ held     = 0
  /\ chan     = <<>>
  /\ ai       = [f \in Field |-> 1]
  /\ panel    = [r \in Request |-> [at |-> "new", cfg |-> [f \in Field |-> 1]]]
  /\ audience = [t \in DOMAIN Texts |-> {}]
  /\ fired    = <<>>
  /\ applied  = <<>>
  /\ given    = [f \in Field |-> 1]
  /\ crossed  = {}

Init == WireInit /\ DeskInit

\* Steps of the connection that touch nothing here; a session in the middle of
\* sending takes no packet.
Connection(c) ==
  /\ \/ Writes(c) \/ Client(c) \/ ClientActs(c) \/ Tell(c)
     \/ ~cast[c].busy /\ Reads(c)
  /\ UNCHANGED deskVars

Session(c) == Finish(c) \/ Comes(c) \/ Goes(c) \/ handle_chat(c) \/ handle_command(c)

Next == \/ \E c \in Clients : Connection(c) \/ Session(c)
        \/ \E a \in Task : SendOne(a)
        \/ RunThread \/ Apply \/ ServerStop
        \/ \E r \in Request : Panel(r)

\* Writers that can write do, sockets move bytes, and a connected client reads: as
\* none of it goes on forever by itself, fairness to each comes to this.
Moves == \E c \in Clients : (Writes(c) \/ Client(c)) /\ UNCHANGED deskVars
Fairness == WF_vars(Moves)

Spec == Init /\ [][Next]_vars /\ Fairness

-----------------------------------------------------------------------------
(***************************************************************************)
(* Properties.                                                             *)
(***************************************************************************)

\* Whoever was there when a line was said reads what a mod makes of it only after
\* the line itself, though line, event, action and answer go through three tasks,
\* two channels and a socket: handle_chat broadcasts before it fires, and a
\* broadcast reaches everybody before anything after it.
AnswersFollow ==
  \A c \in Clients : \A i \in DOMAIN heard[c] :
    LET t == -heard[c][i].arg
    IN t > 0 /\ t \in DOMAIN Texts /\ c \in audience[t]
         => \E j \in 1 .. (i - 1) : heard[c][j].arg = t

\* What is carried out for the mods is what their handlers asked for, once each, in
\* the order of the events and of the handlers, whatever of them throws, and nothing
\* after Shutdown.  Missing are whole events at a time: those whose batch holds a
\* string that does not parse, and while the mods' memory is at its limit those that
\* were drained in vain.
Reactions(events, heed) ==
  FlattenSeq([i \in DOMAIN heed |-> IF heed[i] THEN Known(Calls(events[i])) ELSE <<>>])
ReactionsKept ==
  /\ IsPrefix(applied, Reactions(fired, heeded))
  /\ \A i \in DOMAIN heeded : heeded[i] \/ Garbled(Calls(fired[i])) \/ setup.starves

\* A setting stays what a request last supplied for it: a request that leaves it out
\* (or sends an empty key) keeps it, unless it had read the settings before another
\* request wrote them.
SettingsKept == \A f \in Field : ai[f] = given[f] \/ f \in crossed
=============================================================================
