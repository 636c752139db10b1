-------------------------------- MODULE Wire --------------------------------
(***************************************************************************)
(* One TCP connection per client, from the accepted socket to its end:     *)
(* handshake, status or login, the key exchange, the switch to compression *)
(* and the configuration phase, then the play state with its reading loop  *)
(* and its writer task (connection.rs), the framing and the encrypting     *)
(* reader and writer underneath (codec.rs, encryption.rs).  The sockets    *)
(* take and give bytes in pieces of any size.                              *)
(*                                                                         *)
(* A byte is [b, k]: the piece of a frame it carries, and its place in the *)
(* ciphertext stream, 0 for a byte in the clear.  In the code the next     *)
(* byte's key stream depends on the last sixteen ciphertext bytes; here on *)
(* the places of the last FeedbackWidth of them, so that a byte decrypts   *)
(* exactly when the receiver has seen the same bytes before it as the      *)
(* sender had written.  The content of a frame comes in one to three       *)
(* pieces.  Joining and leaving the player table is in Presence.           *)
(***************************************************************************)
EXTENDS Dialects

CONSTANTS
  Clients,        \* the connections
  Setups,         \* the configurations, with the clients and the network they meet
  FeedbackWidth   \* ciphertext bytes the cipher feeds back (16 in the code)

VARIABLES
  setup,   \* one of the Setups; it never changes
  srv,     \* per client: the session's phase, its ciphers, threshold and frame
  todo,    \* per client: frames the session writes before it reads on
  queue,   \* per client: the channel to the writer task
  task,    \* per client: "none" before play, "on", "off" when it ended
  left,    \* per client: the rest of the frame that write_all still holds
  pending, \* per client: ciphertext the EncryptedWriter has buffered
  pos,     \* per client: how much of pending is written
  down,    \* per client: bytes on the way to the client
  up,      \* per client: bytes on the way to the server
  cli,     \* per client: the client's own phase, ciphers, threshold and bytes
  hand,    \* per client: the play packet being handled
  told,    \* history: packets handed to the channel
  heard,   \* history: packets the client has read
  said,    \* history: play packets the client sent
  taken    \* history: play packets the session has read

\* A setup: the configuration (online is whether there is an RSA key), the version
\* of each client and what its handshake asks for (1 status, 2 login), the bytes a
\* socket holds and how many it takes or gives at once; and the bounds: where the
\* clients begin, the canonical ids the rest of the server sends to a player and
\* how many, what clients may say and how much, whether clients break the protocol or leave.
Protocol(c) == setup.protocol[c]
Wants(c)    == setup.wants[c]
Online      == setup.online
Threshold   == setup.threshold
MaxPlayers  == setup.maxPlayers
SocketRoom  == setup.room
Pieces      == setup.pieces
Begins(c)   == setup.begins[c]
Sends       == setup.sends
MaxTold     == setup.maxTold
Speech(c)   == setup.speech[c]
MaxSaid     == setup.maxSaid
Slips       == setup.slips

srvVars  == <<setup, srv, todo, hand, taken>>
outVars  == <<task, left, pending, pos>>
cliVars  == <<cli, heard, said>>
wireVars == <<srvVars, outVars, cliVars, queue, down, up, told>>

-----------------------------------------------------------------------------
(***************************************************************************)
(* Packets, frames and bytes.                                              *)
(***************************************************************************)
Packet(id, body, arg) == [id |-> id, body |-> body, arg |-> arg]

\* No packet: none has a negative id.
NoPacket == Packet(-1, <<>>, 0)

\* Ids outside the play state; they mean what the phase makes of them.
LOGIN_DISCONNECT == 0
ENCRYPTION_REQUEST == 1
LOGIN_SUCCESS == 2
SET_COMPRESSION == 3
REQUEST == 0
PING == 1
SERVER_INFO == 0
PONG == 1
LOGIN_START == 0
ENCRYPTION_RESPONSE == 1
LOGIN_ACKNOWLEDGED == 3
FINISH_CONFIGURATION == 2
REGISTRY_DATA == 5
CLIENT_INFORMATION == 0
Stray == 9             \* an id no phase before play knows
CHAT_COMMAND == \h04
CHAT_MESSAGE == \h05
KEEP_ALIVE_REPLY == \h12

Small(id, arg) == Packet(id, <<>>, arg)

\* Who starts in the middle of things speaks a version the server does; and what
\* clients say and the server sends in play are packets of the play state.
ASSUME SetupsAssumption ==
  /\ FeedbackWidth \in Nat \ {0}
  /\ \A s \in Setups :
       /\ s.threshold \in Int /\ s.online \in BOOLEAN
       /\ s.sends \subseteq play_cb
       /\ \A c \in Clients :
            /\ s.protocol[c] \in Nat
            /\ s.begins[c] \in {"joining", "play"} => s.protocol[c] \in SUPPORTED_PROTOCOLS
            /\ \A packet \in s.speech[c] :
                 /\ packet = Small(packet.id, packet.arg)
                 /\ packet.id \in {CHAT_COMMAND, CHAT_MESSAGE, KEEP_ALIVE_REPLY}

\* How many bytes stand for a packet's id and body.
Size(packet) == IF Len(packet.body) > 4 THEN 3 ELSE 1

Piece(t, n, packet) == [t |-> t, n |-> n, of |-> packet]
Junk == Piece("junk", 0, NoPacket)

Parts(packet) == [i \in 1 .. Size(packet) |-> Piece("part", i, packet)]
Squeezed(packet) == <<Piece("zip", 1, packet)>>

\* The length, then the payload; with compression on, its uncompressed size or 0.
encode_frame(packet, zip) ==
  LET frame(data) == <<Piece("len", Len(data), NoPacket)>> \o data
      size(n)     == <<Piece("size", n, NoPacket)>>
  IN CASE zip < 0              -> frame(Parts(packet))
       [] zip > Size(packet)   -> frame(size(0) \o Parts(packet))
       [] OTHER                -> frame(size(Size(packet)) \o Squeezed(packet))

Whole(parts) ==
  IF parts # <<>> /\ parts[1].of # NoPacket /\ parts = Parts(parts[1].of)
  THEN parts[1].of ELSE NoPacket

\* What read_frame makes of a whole frame, or NoPacket when it is an error.
decode_frame(frame, zip) ==
  LET data  == Tail(frame)
      plain == frame[1].t = "len" /\ zip < 0
      sized == frame[1].t = "len" /\ zip >= 0 /\ data # <<>> /\ data[1].t = "size"
  IN CASE plain                    -> Whole(data)
       [] sized /\ data[1].n = 0   -> Whole(Tail(data))
       [] sized /\ data[1].n # 0 /\ Len(data) > 1 /\ data[2].t = "zip" -> data[2].of
       [] OTHER                    -> NoPacket

\* How many bytes are missing before the frame is whole: its length comes first.
Missing(frame) ==
  CASE frame = <<>>                         -> 1
    [] frame # <<>> /\ frame[1].t = "len"   -> frame[1].n + 1 - Len(frame)
    [] OTHER                                -> 0

\* A cipher's register: the places of the ciphertext bytes it last fed back.
Fresh == [i \in 1 .. FeedbackWidth |-> 0]
Latest(s) == SubSeq(s, Len(s) - FeedbackWidth + 1, Len(s))
Places(bytes) == [i \in DOMAIN bytes |-> bytes[i].k]
Fed(iv, bytes) == Latest(iv \o Places(bytes))

Clear(pieces) == [i \in DOMAIN pieces |-> [b |-> pieces[i], k |-> 0]]

Cfb8Encrypt(iv, pieces) ==
  [i \in DOMAIN pieces |-> [b |-> pieces[i], k |-> Last(iv) + i]]

\* The register the sender had when it wrote the byte at place k.
RegisterAt(k) ==
  [i \in 1 .. FeedbackWidth |-> IF k + i > FeedbackWidth + 1
                                THEN k + i - FeedbackWidth - 1 ELSE 0]

Cfb8Decrypt(iv, bytes) ==
  [i \in DOMAIN bytes |->
     IF bytes[i].k > 0 /\ Fed(iv, SubSeq(bytes, 1, i - 1)) = RegisterAt(bytes[i].k)
     THEN bytes[i].b ELSE Junk]

Decipher(secret, iv, bytes) ==
  IF secret THEN Cfb8Decrypt(iv, bytes)
  ELSE [i \in DOMAIN bytes |-> IF bytes[i].k = 0 THEN bytes[i].b ELSE Junk]

-----------------------------------------------------------------------------
Peer(phase) ==
  [phase |-> phase, secret |-> FALSE, inIv |-> Fresh, outIv |-> Fresh,
   zip |-> -1, got |-> <<>>]

\* Where a connection begins: a client yet to connect, one about to join or in play
\* with every byte of the login delivered (places are counted from here), or one
\* that is over.
Begun(c, start, joining, over) ==
  LET settled(phase) == [Peer(phase) EXCEPT !.secret = Online, !.zip = Threshold]
  IN CASE Begins(c) = "start"   -> Peer(start)
       [] Begins(c) = "joining" -> settled(joining)
       [] Begins(c) = "play"    -> settled("play")
       [] OTHER                 -> Peer(over)

WireInit ==
  /\ setup \in Setups
  /\ srv     = [c \in Clients |-> Begun(c, "handshake", "joining", "gone")]
  /\ cli     = [c \in Clients |-> Begun(c, "start", "play", "left")]
  /\ todo    = [c \in Clients |-> <<>>]
  /\ queue   = [c \in Clients |-> <<>>]
  /\ task    = [c \in Clients |-> IF Begins(c) = "play" THEN "on" ELSE "none"]
  /\ left    = [c \in Clients |-> <<>>]
  /\ pending = [c \in Clients |-> <<>>]
  /\ pos     = [c \in Clients |-> 0]
  /\ down    = [c \in Clients |-> <<>>]
  /\ up      = [c \in Clients |-> <<>>]
  /\ hand    = [c \in Clients |-> NoPacket]
  /\ told    = [c \in Clients |-> <<>>]
  /\ heard   = [c \in Clients |-> <<>>]
  /\ said    = [c \in Clients |-> <<>>]
  /\ taken   = [c \in Clients |-> <<>>]

InPlay(c) == srv[c].phase = "play"
Playing == {c \in Clients : InPlay(c)}
Gone(c) == srv[c].phase = "gone"
Left(c) == cli[c].phase = "left"

-----------------------------------------------------------------------------
(***************************************************************************)
(* Writing.  A frame goes through write_all, which offers the rest of it   *)
(* to poll_write until nothing is left, then through flush.                *)
(***************************************************************************)
Settled(c) == left[c] = <<>> /\ pending[c] = <<>>

Room(c) == SocketRoom - Len(down[c])

\* How many bytes the socket may take of the n it is offered.
Accepts(c, n) == {k \in 1 .. n : k <= Room(c) /\ (k \in Pieces \/ k = n)}

\* The plain half: the socket takes a prefix of what it is offered.
PollWritePlain(c) ==
  /\ ~srv[c].secret
  /\ left[c] # <<>>
  /\ \E k \in Accepts(c, Len(left[c])) :
       /\ down' = [down EXCEPT ![c] = @ \o Clear(SubSeq(left[c], 1, k))]
       /\ left' = [left EXCEPT ![c] = SubSeq(@, k + 1, Len(@))]
  /\ UNCHANGED <<srvVars, cliVars, task, pending, pos, queue, up, told>>

\* Mutant: flushing the writer flushes what is under it only.
MayDrainLate(c) == pending[c] # <<>> /\ left[c] # <<>>

\* A flush drains what is buffered, and so does the next write.
MayDrain(c) == pending[c] # <<>>

\* Part of the buffered ciphertext goes out; the buffer is cleared at its end.
Drain(c) ==
  /\ MayDrain(c)
  /\ \E k \in Accepts(c, Len(pending[c]) - pos[c]) :
       /\ down' = [down EXCEPT ![c] = @ \o SubSeq(pending[c], pos[c] + 1, pos[c] + k)]
       /\ IF pos[c] + k = Len(pending[c])
          THEN pending' = [pending EXCEPT ![c] = <<>>] /\ pos' = [pos EXCEPT ![c] = 0]
          ELSE pending' = pending /\ pos' = [pos EXCEPT ![c] = @ + k]
  /\ UNCHANGED <<srvVars, cliVars, task, left, queue, up, told>>

\* Mutant: the encrypted half reports the bytes the socket took.
RetainedRest(c, k) == SubSeq(left[c], k + 1, Len(left[c]))

\* The rest the encrypted half still holds after it took everything offered, and
\* tried to write all of it at once.
Unwritten(c, k) == k < Len(left[c])
Retained(c, k) == <<>>

\* The encrypted half, nothing buffered: it encrypts all it is offered, buffers it
\* and writes what the socket takes at once, maybe nothing.
PollWriteEncrypted(c) ==
  /\ srv[c].secret
  /\ left[c] # <<>> /\ pending[c] = <<>>
  /\ LET enc == Cfb8Encrypt(srv[c].outIv, left[c])
     IN \E k \in {0} \cup Accepts(c, Len(enc)) :
          /\ down' = [down EXCEPT ![c] = @ \o SubSeq(enc, 1, k)]
          /\ pending' = [pending EXCEPT ![c] = IF Unwritten(c, k) THEN enc ELSE <<>>]
          /\ pos' = [pos EXCEPT ![c] = IF Unwritten(c, k) THEN k ELSE 0]
          /\ srv' = [srv EXCEPT ![c].outIv = Fed(@, enc)]
          /\ left' = [left EXCEPT ![c] = Retained(c, k)]
  /\ UNCHANGED <<setup, todo, hand, taken, cliVars, task, queue, up, told>>

\* The session's own frames, before there is a writer task.
WritesOwn(c) ==
  /\ todo[c] # <<>> /\ Settled(c)
  /\ left' = [left EXCEPT ![c] = encode_frame(Head(todo[c]).packet, Head(todo[c]).zip)]
  /\ todo' = [todo EXCEPT ![c] = Tail(@)]
  /\ UNCHANGED <<setup, srv, hand, taken, cliVars, task, pending, pos, queue, down, up, told>>

\* The writer task: the next payload of the channel, translated and framed.
WriterTakes(c) ==
  /\ task[c] = "on" /\ Settled(c)
  /\ queue[c] # <<>>
  /\ left' = [left EXCEPT ![c] =
       encode_frame(translate_clientbound(Head(queue[c]), Protocol(c)), srv[c].zip)]
  /\ queue' = [queue EXCEPT ![c] = Tail(@)]
  /\ UNCHANGED <<srvVars, cliVars, task, pending, pos, down, up, told>>

\* The client is gone and the write fails: the task ends, or the login does.
WriteFails(c) ==
  /\ Left(c) /\ ~Settled(c)
  /\ left' = [left EXCEPT ![c] = <<>>]
  /\ pending' = [pending EXCEPT ![c] = <<>>] /\ pos' = [pos EXCEPT ![c] = 0]
  /\ task' = [task EXCEPT ![c] = IF InPlay(c) THEN "off" ELSE @]
  /\ srv' = [srv EXCEPT ![c].phase = IF InPlay(c) THEN @ ELSE "gone"]
  /\ todo' = [todo EXCEPT ![c] = <<>>]
  /\ UNCHANGED <<setup, hand, taken, cliVars, queue, down, up, told>>

-----------------------------------------------------------------------------
(***************************************************************************)
(* Reading.                                                                *)
(***************************************************************************)

\* Before play the session writes and then reads; in play it only reads, and
\* reads on once the packet in hand is dealt with.
Reading(c) ==
  /\ ~Gone(c) /\ hand[c] = NoPacket
  /\ InPlay(c) \/ (Settled(c) /\ todo[c] = <<>>)

\* Some of the missing bytes arrive, and only those are asked for.
ReadMore(c) ==
  /\ Reading(c)
  /\ Missing(srv[c].got) > 0
  /\ \E k \in 1 .. Len(up[c]) :
       /\ k <= Missing(srv[c].got)
       /\ k \in Pieces \/ k = Missing(srv[c].got)
       /\ LET bytes == SubSeq(up[c], 1, k)
          IN srv' = [srv EXCEPT
               ![c].got = @ \o Decipher(srv[c].secret, srv[c].inIv, bytes),
               ![c].inIv = IF srv[c].secret THEN Fed(@, bytes) ELSE @]
       /\ up' = [up EXCEPT ![c] = SubSeq(@, k + 1, Len(@))]
  /\ UNCHANGED <<setup, todo, hand, taken, outVars, cliVars, queue, down, told>>

\* The frame the session has read, if it is whole.
FrameIn(c) == Reading(c) /\ Missing(srv[c].got) = 0
Frame(c) == decode_frame(srv[c].got, srv[c].zip)

\* The session goes on in another phase with frames to write first.
Turns(c, phase, frames) ==
  /\ srv' = [srv EXCEPT ![c].phase = phase, ![c].got = <<>>]
  /\ todo' = [todo EXCEPT ![c] = frames]
  /\ UNCHANGED <<setup, hand, taken, outVars, cliVars, queue, down, up, told>>

Out(packet) == [packet |-> packet, zip |-> -1]

\* A frame that does not parse ends the connection.
BadFrame(c) ==
  /\ FrameIn(c) /\ Frame(c) = NoPacket /\ ~InPlay(c)
  /\ Turns(c, "gone", <<>>)

\* arg of the first packet: what the client asks for.
Handshake(c) ==
  /\ srv[c].phase = "handshake" /\ FrameIn(c) /\ Frame(c) # NoPacket
  /\ Turns(c, CASE Frame(c).arg = 1 -> "status"
                [] Frame(c).arg = 2 -> "login"
                [] OTHER            -> "gone", <<>>)

Status(c) ==
  /\ srv[c].phase = "status" /\ FrameIn(c) /\ Frame(c) # NoPacket
  /\ CASE Frame(c).id = REQUEST -> Turns(c, "status", <<Out(Small(SERVER_INFO, 0))>>)
       [] Frame(c).id = PING    -> Turns(c, "gone", <<Out(Small(PONG, Frame(c).arg))>>)
       [] OTHER                 -> Turns(c, "gone", <<>>)

\* Mutant: the packet that switches the compression on is compressed itself.
FinishLoginSwitched ==
  (IF Threshold >= 0 THEN <<[packet |-> Small(SET_COMPRESSION, Threshold), zip |-> Threshold]>>
   ELSE <<>>)
    \o <<[packet |-> Small(LOGIN_SUCCESS, 0), zip |-> Threshold]>>

\* What finish_login writes before play or configuration.
FinishLogin ==
  (IF Threshold >= 0 THEN <<Out(Small(SET_COMPRESSION, Threshold))>> ELSE <<>>)
    \o <<[packet |-> Small(LOGIN_SUCCESS, 0), zip |-> Threshold]>>

AfterLogin(c) == IF Protocol(c) >= 764 THEN "acknowledge" ELSE "joining"

Login(c) ==
  /\ srv[c].phase = "login" /\ FrameIn(c) /\ Frame(c) # NoPacket
  /\ CASE Frame(c).id # LOGIN_START -> Turns(c, "gone", <<>>)
       [] Frame(c).id = LOGIN_START /\
          (Protocol(c) \notin SUPPORTED_PROTOCOLS \/ Cardinality(Playing) >= MaxPlayers) ->
            Turns(c, "gone", <<Out(Small(LOGIN_DISCONNECT, 0))>>)
       [] OTHER ->
            IF Online THEN Turns(c, "encrypt", <<Out(Small(ENCRYPTION_REQUEST, 0))>>)
            ELSE Turns(c, "success", <<>>)

\* The verify token must come back as it was sent (arg 1), and from here both
\* directions are encrypted under the shared secret.
EncryptionHandshake(c) ==
  /\ srv[c].phase = "encrypt" /\ FrameIn(c) /\ Frame(c) # NoPacket
  /\ IF Frame(c).id = ENCRYPTION_RESPONSE /\ Frame(c).arg = 1
     THEN /\ srv' = [srv EXCEPT ![c].phase = "success", ![c].got = <<>>,
                                ![c].secret = TRUE, ![c].inIv = Fresh, ![c].outIv = Fresh]
          /\ UNCHANGED <<setup, todo, hand, taken, outVars, cliVars, queue, down, up, told>>
     ELSE Turns(c, "gone", <<>>)

Succeed(c) ==
  /\ srv[c].phase = "success"
  /\ srv' = [srv EXCEPT ![c].phase = AfterLogin(c), ![c].zip = Threshold]
  /\ todo' = [todo EXCEPT ![c] = FinishLogin]
  /\ UNCHANGED <<setup, hand, taken, outVars, cliVars, queue, down, up, told>>

\* Anything but the acknowledgement skips the configuration phase.
LoginAcknowledged(c) ==
  /\ srv[c].phase = "acknowledge" /\ FrameIn(c) /\ Frame(c) # NoPacket
  /\ IF Frame(c).id = LOGIN_ACKNOWLEDGED
     THEN Turns(c, "configuration",
            <<[packet |-> Small(REGISTRY_DATA, 0), zip |-> Threshold],
              [packet |-> Small(FINISH_CONFIGURATION, 0), zip |-> Threshold]>>)
     ELSE Turns(c, "joining", <<>>)

\* Everything but the end of the configuration is consumed.
Configuration(c) ==
  /\ srv[c].phase = "configuration" /\ FrameIn(c) /\ Frame(c) # NoPacket
  /\ Turns(c, IF Frame(c).id = FINISH_CONFIGURATION THEN "joining" ELSE "configuration",
           <<>>)

\* Join Game is the first packet of the play state; from here the writer task
\* writes.  The rest of the join sequence is sent by Tell.
Join(c) ==
  /\ srv[c].phase = "joining" /\ Settled(c) /\ todo[c] = <<>>
  /\ srv' = [srv EXCEPT ![c].phase = "play"]
  /\ task' = [task EXCEPT ![c] = "on"]
  /\ queue' = [queue EXCEPT ![c] = <<Packet(LOGIN, Body(LOGIN), 0)>>]
  /\ told' = [told EXCEPT ![c] = <<Packet(LOGIN, Body(LOGIN), 0)>>]
  /\ UNCHANGED <<setup, todo, hand, taken, left, pending, pos, cliVars, down, up>>

\* Player::send, for every player in cs at once: what a broadcast does.
SendTo(cs, packet) ==
  /\ queue' = [c \in Clients |-> IF c \in cs THEN Append(queue[c], packet) ELSE queue[c]]
  /\ told' = [c \in Clients |-> IF c \in cs THEN Append(told[c], packet) ELSE told[c]]

\* Any other part of the server sends the player a packet.
Tell(c) ==
  /\ InPlay(c) /\ Len(told[c]) < MaxTold
  /\ \E id \in Sends :
       /\ Sendable(id, Protocol(c))
       /\ SendTo({c}, Packet(id, Built(id, Protocol(c)), Len(told[c])))
  /\ UNCHANGED <<srvVars, outVars, cliVars, down, up>>

\* The reading loop takes the next play packet, its id translated.
TakeFrame(c) ==
  /\ InPlay(c) /\ FrameIn(c) /\ Frame(c) # NoPacket
  /\ srv' = [srv EXCEPT ![c].got = <<>>]
  /\ hand' = [hand EXCEPT ![c] = translate_serverbound(Frame(c), Protocol(c))]
  /\ taken' = [taken EXCEPT ![c] = Append(@, translate_serverbound(Frame(c), Protocol(c)))]
  /\ UNCHANGED <<setup, todo, outVars, cliVars, queue, down, up, told>>

\* A packet the loop only has to note, or does not know.
Passes(c) ==
  /\ hand[c] # NoPacket /\ hand[c].id \notin {CHAT_COMMAND, CHAT_MESSAGE}
  /\ hand' = [hand EXCEPT ![c] = NoPacket]
  /\ UNCHANGED <<setup, srv, todo, taken, outVars, cliVars, queue, down, up, told>>

\* The loop breaks: a frame that does not parse, the end of the stream, or thirty
\* seconds without a whole frame.  The player is removed, the channel closes and
\* the writer task is aborted with whatever it still held.
Leave(c) ==
  /\ InPlay(c) /\ hand[c] = NoPacket
  /\ \/ Missing(srv[c].got) = 0 /\ Frame(c) = NoPacket
     \/ Missing(srv[c].got) > 0 /\ up[c] = <<>> /\ Left(c)
     \/ Missing(srv[c].got) > 0 /\ up[c] = <<>> /\ Slips
  /\ srv' = [srv EXCEPT ![c].phase = "gone", ![c].got = <<>>]
  /\ task' = [task EXCEPT ![c] = "off"]
  /\ queue' = [queue EXCEPT ![c] = <<>>]
  /\ left' = [left EXCEPT ![c] = <<>>]
  /\ pending' = [pending EXCEPT ![c] = <<>>] /\ pos' = [pos EXCEPT ![c] = 0]
  /\ UNCHANGED <<setup, todo, hand, taken, cliVars, down, up, told>>

\* The stream ends before play.
EndOfStream(c) ==
  /\ ~InPlay(c) /\ Reading(c) /\ Missing(srv[c].got) > 0
  /\ up[c] = <<>> /\ Left(c)
  /\ Turns(c, "gone", <<>>)

-----------------------------------------------------------------------------
(***************************************************************************)
(* The client, external: it follows the protocol of its version, except    *)
(* that with Slips it may send a stray packet, answer the encryption       *)
(* request wrongly, or leave.                                              *)
(***************************************************************************)
\* The frames a client writes for packets, with the modes it is in; NoPacket is a
\* frame that does not parse.
ClientBytes(c, packets) ==
  LET frame(p) == IF p = NoPacket THEN <<Piece("len", 1, NoPacket), Junk>>
                  ELSE encode_frame(p, cli[c].zip)
      pieces == FlattenSeq([i \in DOMAIN packets |-> frame(packets[i])])
  IN IF cli[c].secret THEN Cfb8Encrypt(cli[c].outIv, pieces) ELSE Clear(pieces)

ClientSends(c, phase, packets) ==
  /\ up' = [up EXCEPT ![c] = @ \o ClientBytes(c, packets)]
  /\ cli' = [cli EXCEPT ![c].phase = phase,
       ![c].outIv = IF cli[c].secret THEN Fed(@, ClientBytes(c, packets)) ELSE @]

\* Handshake and first request leave together.
ClientStarts(c) ==
  /\ cli[c].phase = "start"
  /\ \E id \in {0} \cup (IF Slips THEN {Stray} ELSE {}) :
       ClientSends(c, IF Wants(c) = 1 THEN "status" ELSE "login",
         <<Small(0, Wants(c)), Small(id, 0)>>)
  /\ UNCHANGED <<srvVars, outVars, heard, said, queue, down, told>>

\* The first whole frame of what the client has read.
ClientHas(c) ==
  /\ cli[c].got # <<>>
  /\ cli[c].got[1].t # "len" \/ Len(cli[c].got) > cli[c].got[1].n
ClientFrame(c) ==
  IF cli[c].got[1].t # "len" THEN NoPacket
  ELSE decode_frame(SubSeq(cli[c].got, 1, cli[c].got[1].n + 1), cli[c].zip)
Rest(c) == SubSeq(cli[c].got, cli[c].got[1].n + 2, Len(cli[c].got))

\* It reads on once it has dealt with what it has.
ClientReads(c) ==
  /\ down[c] # <<>> /\ cli[c].phase \notin {"left", "lost", "confused"} /\ ~ClientHas(c)
  /\ cli' = [cli EXCEPT
       ![c].got = @ \o Decipher(cli[c].secret, cli[c].inIv, down[c]),
       ![c].inIv = IF cli[c].secret THEN Fed(@, down[c]) ELSE @]
  /\ down' = [down EXCEPT ![c] = <<>>]
  /\ UNCHANGED <<srvVars, outVars, heard, said, queue, up, told>>

\* What the client answers to a packet, and the phase it goes on in.
Answer(c, packet) ==
  LET go(phase, packets) == [phase |-> phase, packets |-> packets]
  IN CASE cli[c].phase = "status" ->
            CASE packet.id = SERVER_INFO -> go("status", <<Small(PING, 7)>>)
              [] packet.id = PONG        -> go("left", <<>>)
              [] OTHER                   -> go("confused", <<>>)
       [] cli[c].phase = "login" ->
            CASE packet.id = LOGIN_DISCONNECT   -> go("left", <<>>)
              [] packet.id = ENCRYPTION_REQUEST -> go("login", <<Small(ENCRYPTION_RESPONSE, 1)>>)
              [] packet.id = SET_COMPRESSION    -> go("login", <<>>)
              [] packet.id = LOGIN_SUCCESS      ->
                   IF Protocol(c) >= 764
                   THEN go("configuration", <<Small(LOGIN_ACKNOWLEDGED, 0)>>)
                   ELSE go("play", <<>>)
              [] OTHER                          -> go("confused", <<>>)
       [] cli[c].phase = "configuration" ->
            CASE packet.id = REGISTRY_DATA -> go("configuration", <<Small(CLIENT_INFORMATION, 0)>>)
              [] packet.id = FINISH_CONFIGURATION -> go("play", <<Small(FINISH_CONFIGURATION, 0)>>)
              [] OTHER -> go("confused", <<>>)
       [] OTHER -> go("play", <<>>)

\* What it cannot make sense of leaves it confused: it neither reads nor sends again.
ClientHandles(c) ==
  /\ cli[c].phase \in {"status", "login", "configuration", "play"} /\ ClientHas(c)
  /\ LET packet == ClientFrame(c)
         answer == Answer(c, packet)
         asked  == cli[c].phase = "login" /\ packet.id = ENCRYPTION_REQUEST
         zipped == cli[c].phase = "login" /\ packet.id = SET_COMPRESSION
     IN IF packet = NoPacket
        THEN /\ cli' = [cli EXCEPT ![c].phase = "confused", ![c].got = <<>>]
             /\ UNCHANGED <<up, heard>>
        ELSE /\ up' = [up EXCEPT ![c] = @ \o ClientBytes(c, answer.packets)]
             /\ cli' = [cli EXCEPT
                  ![c].phase = answer.phase,
                  ![c].got = Rest(c),
                  ![c].secret = @ \/ asked,
                  ![c].zip = IF zipped THEN packet.arg ELSE @,
                  ![c].outIv = IF cli[c].secret THEN Fed(@, ClientBytes(c, answer.packets))
                               ELSE @]
             /\ heard' = [heard EXCEPT ![c] =
                  IF cli[c].phase = "play" THEN Append(@, packet) ELSE @]
  /\ UNCHANGED <<srvVars, outVars, said, queue, down, told>>

\* The id a client of version p gives the packet the server calls id.
ClientId(id, p) ==
  CASE id = KEEP_ALIVE_REPLY /\ p = 765         -> \h15
    [] id = KEEP_ALIVE_REPLY /\ p = 764         -> \h14
    [] id = KEEP_ALIVE_REPLY /\ p \in {761, 759} -> \h11
    [] id = KEEP_ALIVE_REPLY /\ p <= 758        -> \h0f
    [] id # KEEP_ALIVE_REPLY /\ p = 759         -> id - 1
    [] OTHER                                    -> id

\* What the tables come to, which TLC works out: in every version each packet of
\* the play state that version.rs adapts is read for what it is, the others have at
\* least their id, and what a client says is understood.
Reaches(id, p) ==
  LET wire == translate_clientbound(Packet(id, Built(id, p), 0), p)
  IN /\ wire.id >= 0
     /\ Foreign(id, p) \/ ~Sendable(id, p) \/ Arrives(id, wire, p)

Understood(id, p) ==
  /\ ClientId(id, p) >= 0
  /\ remap_play_serverbound(ClientId(id, p), p) = id

ASSUME TablesAssumption ==
  \A p \in SUPPORTED_PROTOCOLS :
    /\ \A id \in play_cb : Reaches(id, p)
    /\ Understood(KEEP_ALIVE_REPLY, p)
    /\ p > 758 => Understood(CHAT_COMMAND, p) /\ Understood(CHAT_MESSAGE, p)

\* arg is what the client says, each thing once.  The one chat packet of 1.18 is in
\* no table: the server takes it for something else, and a line is lost.
ClientSays(c) ==
  /\ cli[c].phase = "play" /\ Len(said[c]) < MaxSaid
  /\ \E packet \in Speech(c) :
       /\ \A i \in DOMAIN said[c] : said[c][i] # packet
       /\ Protocol(c) <= 758 => packet.id = KEEP_ALIVE_REPLY
       /\ ClientSends(c, "play", <<[packet EXCEPT !.id = ClientId(packet.id, Protocol(c))]>>)
       /\ said' = [said EXCEPT ![c] = Append(@, packet)]
  /\ UNCHANGED <<srvVars, outVars, heard, queue, down, told>>

\* A stray packet, or a broken frame, in place of what the protocol asks for;
\* nothing follows it.
ClientStrays(c) ==
  /\ Slips /\ cli[c].phase \in {"status", "login", "configuration", "play"}
  /\ \E packet \in {NoPacket, Small(Stray, 0)} :
       /\ packet = NoPacket \/ cli[c].phase # "play"
       /\ ClientSends(c, "lost", <<packet>>)
  /\ UNCHANGED <<srvVars, outVars, heard, said, queue, down, told>>

ClientLeaves(c) ==
  /\ Slips \/ cli[c].phase = "lost" \/ Gone(c)
  /\ cli[c].phase \notin {"start", "left"}
  /\ cli' = [cli EXCEPT ![c].phase = "left", ![c].got = <<>>]
  /\ UNCHANGED <<srvVars, outVars, heard, said, queue, down, up, told>>

-----------------------------------------------------------------------------
Writes(c) == \/ WritesOwn(c) \/ WriterTakes(c) \/ WriteFails(c)
             \/ PollWritePlain(c) \/ PollWriteEncrypted(c) \/ Drain(c)

\* What the session does before it joins and between two packets of play.
Reads(c) == \/ ReadMore(c) \/ BadFrame(c) \/ Handshake(c) \/ Status(c) \/ Login(c)
            \/ EncryptionHandshake(c) \/ Succeed(c) \/ LoginAcknowledged(c)
            \/ Configuration(c) \/ TakeFrame(c) \/ Passes(c) \/ EndOfStream(c)

Client(c) == ClientReads(c) \/ ClientHandles(c)

ClientActs(c) == ClientStarts(c) \/ ClientSays(c) \/ ClientStrays(c) \/ ClientLeaves(c)

-----------------------------------------------------------------------------
(***************************************************************************)
(* Properties.                                                             *)
(***************************************************************************)

\* What a client in play has read is what was queued for it: the same packets in
\* the same order, none missing, none twice, through the cipher, the compression
\* switch and any cut of the stream into pieces, each under the id of its version
\* and in its layout as far as the repository knows it -- except packets the version
\* does not have (version.rs leaves their id alone, and the client takes them for
\* the packet with that id), and in 1.20.2 and later the layout of the packets
\* Unadapted names, which keep 763's.
HeardAsTold ==
  \A c \in Clients :
    /\ Len(heard[c]) <= Len(told[c])
    /\ \A i \in DOMAIN heard[c] :
         \/ Foreign(told[c][i].id, Protocol(c))
         \/ /\ Arrives(told[c][i].id, heard[c][i], Protocol(c))
            /\ heard[c][i].arg = told[c][i].arg

\* What the reading loop has taken is what the client sent, in order and whole;
\* but the stray packet of a client that breaks off the login may be taken for one
\* of play.
TakenAsSaid ==
  \A c \in Clients : \/ IsPrefix(taken[c], said[c])
                     \/ cli[c].phase \in {"lost", "confused", "left"} /\ said[c] = <<>>

\* The two ends always make sense of each other's frames: key, compression and
\* cipher registers are switched at the same byte on both, so a client never meets a
\* frame that does not parse or a packet its phase does not know, and the session
\* meets a frame that does not parse only from a client that breaks the protocol.
PeersAgree ==
  \A c \in Clients : /\ cli[c].phase # "confused"
                     /\ FrameIn(c) /\ Frame(c) = NoPacket => Slips

\* Whatever is queued for a player arrives, unless the session ends or the client
\* breaks the protocol or leaves: nothing stays behind in the encrypted writer's
\* buffer waiting for more to be written.
EverythingArrives ==
  []<>(\A c \in Clients : \/ Len(heard[c]) = Len(told[c])
                          \/ Gone(c) \/ cli[c].phase \in {"lost", "left"})
=============================================================================
