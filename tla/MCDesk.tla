------------------------------- MODULE MCDesk -------------------------------
(***************************************************************************)
(* Two clients; each setup looks at one part with the rest kept small.     *)
(***************************************************************************)
EXTENDS Desk, TLC

CONSTANTS ann, bob

Alone(x) == ann :> x @@ bob :> "over"
Both(x)  == ann :> x @@ bob :> x
Beat == Small(KEEP_ALIVE_REPLY, 0)
Chat(t) == Small(CHAT_MESSAGE, t)
Command(t) == Small(CHAT_COMMAND, t)
Basic == [protocol |-> ann :> 763 @@ bob :> 763, wants |-> ann :> 2 @@ bob :> 2,
          online |-> FALSE, threshold |-> -1, maxPlayers |-> 2, room |-> 20, pieces |-> {20},
          begins |-> Alone("play"), sends |-> {}, maxTold |-> 0, maxSaid |-> 0,
          speech |-> ann :> {Chat(1), Beat} @@ bob :> {Chat(2)},
          slips |-> FALSE, stops |-> FALSE, starves |-> FALSE, asks |-> {}]

Text(name, n, who) == [name |-> name, n |-> n, who |-> who, times |-> 2]
AllTexts == <<Text("say", 0, ann), Text("say", 0, bob),
  Text("help", 0, ann), Text("tp", 3, ann), Text("tp", -1, bob), Text("gamemode", 1, ann),
  Text("gamemode", 9, ann), Text("give", 1, ann), Text("time", 6000, ann), Text("weather", 0, ann),
  Text("enchant", 1, ann), Text("vehicle", 0, ann), Text("clear", 0, ann), Text("xp", 5, ann),
  Text("craft", 2, ann), Text("spawn", 0, ann), Text("dance", 0, ann), Text("give", -1, ann),
  Text("curse", 0, ann)>>

\* The cipher, the writer's buffer and the compression under any cut of the stream.
Pipe == [Basic EXCEPT !.online = TRUE, !.threshold = 2, !.room = 2, !.pieces = {1, 2},
                      !.sends = {KEEP_ALIVE, CHUNK_DATA}, !.maxTold = 3]
Mouth == [Pipe EXCEPT !.maxTold = 0, !.maxSaid = 3, !.speech = ann :> {Beat, Small(KEEP_ALIVE_REPLY, 1),
                                                                      Small(KEEP_ALIVE_REPLY, 2)} @@ bob :> {}]
Bare == [Basic EXCEPT !.room = 2, !.pieces = {1, 2}, !.sends = {KEEP_ALIVE, CHUNK_DATA},
                      !.maxTold = 2]

\* From the handshake to play, with and without the protocol kept.
Entry == [Basic EXCEPT !.online = TRUE, !.threshold = 0, !.begins = Alone("start"),
                       !.pieces = {1, 20}, !.sends = {KEEP_ALIVE}, !.maxTold = 2]
Modern == [Entry EXCEPT !.protocol = ann :> 764 @@ bob :> 763, !.threshold = 2]
Rude  == [Modern EXCEPT !.slips = TRUE, !.pieces = {20}]
Blunt == [Rude EXCEPT !.protocol = Both(763)]
Query == [Entry EXCEPT !.slips = TRUE, !.wants = ann :> 1 @@ bob :> 2, !.pieces = {20}]
Wrong == [Entry EXCEPT !.wants = ann :> 3 @@ bob :> 3]
Full  == [Basic EXCEPT !.begins = Both("start"), !.maxPlayers = 1,
                       !.protocol = ann :> 763 @@ bob :> 700]
Crowd == [Full EXCEPT !.protocol = Both(763), !.begins = ann :> "start" @@ bob :> "joining",
                       !.room = 4, !.pieces = {4}]

\* Every packet in every version, and everything said in it.
Tongue(p) == [Basic EXCEPT !.protocol = ann :> p @@ bob :> 763, !.sends = play_cb, !.maxTold = 1]
Ear(p) == [Tongue(p) EXCEPT !.sends = {}, !.maxSaid = 1, !.speech = ann :> {Chat(1), Command(3), Beat} @@ bob :> {}]

\* Lines and what the mods answer; commands; the panel; the end.
Talk   == [Basic EXCEPT !.begins = Both("play"), !.maxSaid = 1, !.room = 2,
                        !.speech = ann :> {Chat(1)} @@ bob :> {}]
Debate == [Talk EXCEPT !.speech = ann :> {Command(17)} @@ bob :> {Chat(2)}]
Late   == [Basic EXCEPT !.begins = ann :> "play" @@ bob :> "joining", !.maxSaid = 1, !.room = 2, !.pieces = {2},
                        !.speech = ann :> {Chat(1)} @@ bob :> {}]
Chores == [Basic EXCEPT !.maxSaid = 1, !.speech = ann :> {Command(t) : t \in 3 .. 18} @@ bob :> {}]
Craft  == [Basic EXCEPT !.maxSaid = 2, !.speech = ann :> {Command(t) : t \in {8, 11, 13, 15}} @@ bob :> {}]
Ruled  == [Talk EXCEPT !.speech = ann :> {Command(t) : t \in {5, 9, 10, 12}} @@ bob :> {Command(6)}]
Desk1  == [Basic EXCEPT !.asks = {"s1", "s2", "s3"}]
Desk2  == [Talk EXCEPT !.maxSaid = 0, !.asks = {"say", "put"}]
Desk3  == [Desk2 EXCEPT !.asks = {"kick", "no"}]
Spoilt == [Basic EXCEPT !.maxSaid = 3, !.speech = ann :> {Chat(1), Command(16), Command(19)} @@ bob :> {}]
Hungry == [Spoilt EXCEPT !.starves = TRUE, !.speech = ann :> {Chat(1), Command(17), Command(19)} @@ bob :> {}]
Ending == [Basic EXCEPT !.maxSaid = 2, !.stops = TRUE, !.slips = TRUE]

AllSetups ==
  {Pipe, Mouth, Bare, Entry, Modern, Rude, Blunt, Query, Wrong, Full, Crowd, Talk, Debate, Late, Chores, Craft, Ruled,
   Spoilt, Hungry, Desk1, Desk2, Desk3, Ending} \cup {Tongue(p) : p \in SUPPORTED_PROTOCOLS} \cup {Ear(p) : p \in SUPPORTED_PROTOCOLS}

Dishes == 2 :> [i \in {1, 2} |-> IF i = 1 THEN 1 ELSE 0]

Act(type, n, who) == [type |-> type, n |-> n, who |-> who]
Fn(does, ends) == [does |-> does, ends |-> ends]
Shout == Act("broadcast", 0, NoPacket)
AllHandlers ==
  "chat" :> <<Fn(<<Shout>>, "well"), Fn(<<Act("unknown", 0, NoPacket)>>, "well")>>
    @@ "command" :> <<Fn(<<Act("tell", 0, ann)>>, "thrown"), Fn(<<Act("kick", 0, bob)>>, "well")>>
    @@ "server_stop" :> <<Fn(<<Act("log", 0, NoPacket)>>, "uncaught"), Fn(<<Act("kick", 0, ann)>>, "well")>>
AllOrders == "spawn" :> Fn(<<Act("set_block", 5, NoPacket)>>, "well")
  @@ "curse" :> Fn(<<Shout, Act("garbled", 0, NoPacket)>>, "thrown")

Ask(what, allowed, n, who, key, on) ==
  [what |-> what, allowed |-> allowed, n |-> n, who |-> who, sets |-> [key |-> key, enabled |-> on]]
AllRequests ==
  "say" :> Ask("say", TRUE, 0, ann, 0, 0) @@ "kick" :> Ask("kick", TRUE, 0, ann, 0, 0)
    @@ "put" :> Ask("setblock", TRUE, 7, ann, 0, 0) @@ "no" :> Ask("setblock", FALSE, 8, ann, 0, 0)
    @@ "s1" :> Ask("ai", TRUE, 0, ann, 2, 0) @@ "s2" :> Ask("ai", TRUE, 0, ann, 0, 2)
    @@ "s3" :> Ask("ai", TRUE, 0, ann, 3, 3)
=============================================================================
