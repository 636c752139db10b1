------------------------------ MODULE Dialects ------------------------------
(***************************************************************************)
(* The packets of the play state in the nine protocol versions the server  *)
(* speaks.  Everything is built in the layout of protocol 763 and          *)
(* translated on the way out (version.rs); what a client sends has its     *)
(* packet id translated on the way in.  A packet is a record of its id and *)
(* the sequence of its fields, each field a name: which fields there are   *)
(* and in which order is what the versions differ in.  The arrays of an    *)
(* entry (world names, player list entries) stand for one entry; the       *)
(* metadata of an entity holds a name and an item, an advancement its text *)
(* and its conditions.                                                     *)
(***************************************************************************)
EXTENDS Integers, Sequences, SequencesExt, FiniteSets

PROTOCOL_VERSION == 763

SUPPORTED_PROTOCOLS == {763, 764, 762, 761, 765, 760, 759, 758, 757}

\* The ids of the packets the server looks at or sends in the play state.
LOGIN == \h28
UNLOAD_CHUNK == \h1e
CHUNK_DATA == \h24
SYNC_POSITION == \h3c
PLAYER_INFO_UPDATE == \h3a
PLAYER_INFO_REMOVE == \h39
SYSTEM_CHAT == \h64
HURT_ANIMATION == \h21
DISCONNECT == \h1a
KEEP_ALIVE == \h23
UPDATE_TIME == \h5e
GAME_EVENT == \h1f
BLOCK_UPDATE == \h0a
ENTITY_TELEPORT == \h68
SPAWN_ENTITY == \h01
PLAYER_ABILITIES == \h34
SET_SLOT == \h14
WINDOW_ITEMS == \h12
SET_EXPERIENCE == \h56
SOUND_EFFECT == \h62
REMOVE_ENTITIES == \h3e
OPEN_WINDOW == \h30
DEATH_COMBAT_EVENT == \h38
SET_TITLE_SUBTITLE == \h5d
SET_TITLE_TEXT == \h5f
TAB_LIST_HEADER == \h65
ENTITY_METADATA == \h52
TRADE_LIST == \h2a
UPDATE_ADVANCEMENTS == \h69

play_cb == {\h01, \h02, \h03, \h05, \h2a, \h59, \h10, \h11, \h12, \h15, \h14,
  \h1d, \h26, \h30, \h31, \h46, \h52, \h56, \h5d, \h5f, \h60, \h62, \h65, \h67,
  \h69, \h6c, \h06, \h0a, \h18, \h1c, \h1a, \h1e, \h1f, \h21, \h22, \h23, \h24,
  \h28, \h2b, \h2c, \h2d, \h34, \h35, \h38, \h39, \h3a, \h3c, \h3e, \h3f, \h40,
  \h41, \h42, \h4d, \h4e, \h50, \h54, \h57, \h5e, \h64, \h68}

-----------------------------------------------------------------------------
(***************************************************************************)
(* The id tables.  Each run <<a, b, d>> stands for the pairs of the table  *)
(* that take the ids a .. b to a + d .. b + d.                             *)
(***************************************************************************)
CB_763_TO_764 == {<<\h04, \h0c, -1>>, <<\h0d, \h32, 1>>, <<\h33, \h62, 2>>,
  <<\h63, \h6a, 3>>, <<\h6c, \h6e, 2>>}

SB_764_TO_763 == {<<\h08, \h0a, -1>>, <<\h0c, \h1c, -2>>, <<\h1e, \h35, -3>>}

CB_763_TO_761 == {<<\h01, \h0c, -1>>, <<\h0e, \h17, -2>>, <<\h19, \h20, -3>>,
  <<\h22, \h6e, -4>>}

SB_761_TO_763 == {<<\h06, \h1f, 1>>, <<\h20, \h20, -26>>}

CB_763_TO_765 == {<<\h04, \h0c, -1>>, <<\h0d, \h32, 1>>, <<\h33, \h3f, 2>>,
  <<\h41, \h62, 4>>, <<\h63, \h68, 5>>, <<\h69, \h6a, 7>>, <<\h6c, \h6e, 6>>}

SB_765_TO_763 == {<<\h08, \h0a, -1>>, <<\h0c, \h0e, -2>>, <<\h10, \h1d, -3>>,
  <<\h1f, \h36, -4>>}

CB_763_TO_760 == {<<\h01, \h0c, -1>>, <<\h0e, \h17, -1>>, <<\h19, \h1a, -1>>,
  <<\h1c, \h20, -2>>, <<\h22, \h34, -3>>, <<\h35, \h38, -2>>, <<\h3a, \h50, -3>>,
  <<\h51, \h6a, -2>>, <<\h6c, \h6e, -3>>}

CB_763_TO_759 == {<<\h01, \h0c, -1>>, <<\h0e, \h15, -1>>, <<\h17, \h17, -2>>,
  <<\h1a, \h1a, -3>>, <<\h1c, \h20, -4>>, <<\h22, \h38, -5>>, <<\h3a, \h50, -6>>,
  <<\h51, \h6a, -5>>, <<\h6c, \h6e, -6>>}

SB_759_TO_763 == {<<\h03, \h04, 1>>, <<\h06, \h31, 1>>}

CB_763_TO_758 == {<<\h01, \h02, -1>>, <<\h03, \h03, 1>>, <<\h04, \h0c, 2>>,
  <<\h0e, \h15, 2>>, <<\h17, \h17, 1>>, <<\h1c, \h20, -1>>, <<\h22, \h34, -2>>,
  <<\h36, \h38, -3>>, <<\h3a, \h44, -4>>, <<\h46, \h63, -5>>, <<\h65, \h6a, -6>>,
  <<\h6c, \h6e, -7>>}

SB_758_TO_763 == {<<\h04, \h2f, 3>>}

Lists(table, id) == \E run \in table : id \in run[1] .. run[2]

\* A sparse remap: ids the table does not list stay as they are.
apply_map(id, table) ==
  IF Lists(table, id)
  THEN id + (CHOOSE run \in table : id \in run[1] .. run[2])[3]
  ELSE id

ClientboundTable(p) ==
  CASE p = 764          -> CB_763_TO_764
    [] p = 765          -> CB_763_TO_765
    [] p = 761          -> CB_763_TO_761
    [] p = 760          -> CB_763_TO_760
    [] p = 759          -> CB_763_TO_759
    [] p \in {758, 757} -> CB_763_TO_758
    [] OTHER            -> {}

\* Packets an older version folds into another of its packets.
Folded(id, p) ==
  CASE p = 760 /\ id = PLAYER_INFO_REMOVE          -> \h37
    [] p = 759 /\ id = PLAYER_INFO_REMOVE          -> \h34
    [] p \in {758, 757} /\ id = PLAYER_INFO_REMOVE -> \h36
    [] p \in {758, 757} /\ id = SYSTEM_CHAT        -> \h0f
    [] OTHER                                       -> -1

remap_play_clientbound(id, p) ==
  IF Folded(id, p) # -1 THEN Folded(id, p) ELSE apply_map(id, ClientboundTable(p))

\* 762 and 760 use the serverbound ids of 763.
remap_play_serverbound(id, p) ==
  CASE p = 764          -> apply_map(id, SB_764_TO_763)
    [] p = 765          -> apply_map(id, SB_765_TO_763)
    [] p = 761          -> apply_map(id, SB_761_TO_763)
    [] p = 759          -> apply_map(id, SB_759_TO_763)
    [] p \in {758, 757} -> apply_map(id, SB_758_TO_763)
    [] OTHER            -> id

-----------------------------------------------------------------------------
(***************************************************************************)
(* The bodies as the server builds them.                                   *)
(***************************************************************************)
join_game == <<"entity", "hardcore", "mode", "previous mode", "worlds",
  "named codec", "type", "name", "seed", "max players", "view", "simulation",
  "reduced debug", "respawn screen", "debug", "flat", "death", "cooldown">>

chunk_data == <<"x", "z", "named heightmaps", "data", "entities", "light">>

unload_chunk == <<"x", "z">>

sync_position == <<"place", "look", "flags", "teleport">>

player_info_add == <<"mask", "count", "uuid", "name", "properties", "mode",
  "listed", "latency">>

player_info_remove == <<"count", "uuid">>

system_chat == <<"json", "action bar">>

\* Text as JSON, and what an item's slot holds besides its id and count.
chat_packet(id) ==
  CASE id = OPEN_WINDOW        -> <<"window", "kind", "json">>
    [] id = DEATH_COMBAT_EVENT -> <<"entity", "json">>
    [] id = TAB_LIST_HEADER    -> <<"json", "json">>
    [] OTHER                   -> <<"json">>

write_slot(id) ==
  CASE id = SET_SLOT     -> <<"window", "slot", "named tag">>
    [] id = WINDOW_ITEMS -> <<"window", "named tag", "named tag">>
    [] id = TRADE_LIST   -> <<"window", "named tag", "uses">>
    [] OTHER             -> <<"entity", "json", "named tag">>

ChatIds == {DISCONNECT, OPEN_WINDOW, DEATH_COMBAT_EVENT, SET_TITLE_SUBTITLE, SET_TITLE_TEXT,
            TAB_LIST_HEADER}
SlotIds == {SET_SLOT, WINDOW_ITEMS, TRADE_LIST, ENTITY_METADATA}

Body(id) ==
  CASE id = LOGIN              -> join_game
    [] id = CHUNK_DATA         -> chunk_data
    [] id = UNLOAD_CHUNK       -> unload_chunk
    [] id = SYNC_POSITION      -> sync_position
    [] id = PLAYER_INFO_UPDATE -> player_info_add
    [] id = PLAYER_INFO_REMOVE -> player_info_remove
    [] id = SYSTEM_CHAT        -> system_chat
    [] id \in ChatIds          -> chat_packet(id)
    [] id \in SlotIds          -> write_slot(id)
    [] OTHER                   -> <<"body">>

\* The advancement tree is built for the client's version at once, and only for
\* the versions it can be built for.
advancements(p) ==
  <<"json">> \o (IF p # 764 THEN <<"criteria">> ELSE <<>>)
    \o <<"requirements">> \o (IF p >= 763 THEN <<"telemetry">> ELSE <<>>)

supported(p) == p \in 759 .. 764

Built(id, p) == IF id = UPDATE_ADVANCEMENTS THEN advancements(p) ELSE Body(id)
Sendable(id, p) == id = UPDATE_ADVANCEMENTS => supported(p)

Drops(body, fields) == SelectSeq(body, LAMBDA f : f \notin fields)

After(body, field, new) ==
  InsertAt(body, 1 + CHOOSE i \in DOMAIN body : body[i] = field, new)

\* A named root compound without its name.
named_root_nbt_to_anonymous(body, named, bare) ==
  [i \in DOMAIN body |-> IF body[i] = named THEN bare ELSE body[i]]

rewrite_login_763_to_764(body) ==
  IF body # join_game THEN body
  ELSE <<"entity", "hardcore", "worlds", "max players", "view", "simulation",
         "reduced debug", "respawn screen", "limited crafting", "type", "name",
         "seed", "mode", "previous mode", "debug", "flat", "death", "cooldown">>

rewrite_login_763_to_762(body) ==
  IF body # join_game THEN body ELSE Drops(body, {"cooldown"})

\* The dimension goes out as a compound in place of its registry key.
rewrite_login_763_to_758(body) ==
  IF body # join_game THEN body
  ELSE After(Drops(body, {"type", "death", "cooldown"}), "named codec", "dimension")

\* Only the form that adds players is converted: action 0 of the older packet.
convert_player_info_add_763_to_old(body, with_crypto) ==
  <<"add">> \o Drops(body, {"mask", "listed"}) \o <<"display name">>
    \o (IF with_crypto THEN <<"crypto">> ELSE <<>>)

convert_player_remove_763_to_old(body) == <<"remove">> \o body

rewrite_clientbound_body_764(id, body) ==
  CASE id = LOGIN        -> rewrite_login_763_to_764(body)
    [] id = UNLOAD_CHUNK -> Reverse(body)
    [] id = CHUNK_DATA   ->
         named_root_nbt_to_anonymous(body, "named heightmaps", "heightmaps")
    [] OTHER             -> body

\* JSON text becomes a nameless compound in 1.20.3.
chat_json_to_anonymous_nbt(body) ==
  [i \in DOMAIN body |-> IF body[i] = "json" THEN "compound" ELSE body[i]]

rewrite_clientbound_body_765(id, body) ==
  IF id = SYSTEM_CHAT THEN chat_json_to_anonymous_nbt(body)
  ELSE rewrite_clientbound_body_764(id, body)

\* update_light, which it rewrites too, is never sent.
rewrite_clientbound_body_119x(id, body) ==
  CASE id = LOGIN        -> rewrite_login_763_to_762(body)
    [] id = CHUNK_DATA   -> After(body, "entities", "trust edges")
    [] OTHER             -> body

rewrite_clientbound_body_761(id, body) ==
  IF id = SYNC_POSITION THEN Append(body, "dismount")
  ELSE rewrite_clientbound_body_119x(id, body)

rewrite_clientbound_body_1192(id, body) ==
  CASE id = SYNC_POSITION      -> Append(body, "dismount")
    [] id = PLAYER_INFO_UPDATE -> convert_player_info_add_763_to_old(body, TRUE)
    [] id = PLAYER_INFO_REMOVE -> convert_player_remove_763_to_old(body)
    [] OTHER                   -> rewrite_clientbound_body_119x(id, body)

rewrite_clientbound_body_758(id, body) ==
  CASE id = LOGIN              -> rewrite_login_763_to_758(body)
    [] id = PLAYER_INFO_UPDATE -> convert_player_info_add_763_to_old(body, FALSE)
    [] id = PLAYER_INFO_REMOVE -> convert_player_remove_763_to_old(body)
    [] id = SYNC_POSITION      -> Append(body, "dismount")
    [] id = SYSTEM_CHAT        -> <<"json", "position", "sender">>
    [] OTHER                   -> rewrite_clientbound_body_119x(id, body)

rewrite_clientbound_body(id, p, body) ==
  CASE p = 764          -> rewrite_clientbound_body_764(id, body)
    [] p = 765          -> rewrite_clientbound_body_765(id, body)
    [] p = 762          -> rewrite_clientbound_body_119x(id, body)
    [] p = 761          -> rewrite_clientbound_body_761(id, body)
    [] p \in {760, 759} -> rewrite_clientbound_body_1192(id, body)
    [] p \in {758, 757} -> rewrite_clientbound_body_758(id, body)
    [] OTHER            -> body

translate_clientbound(packet, p) ==
  IF p = PROTOCOL_VERSION THEN packet
  ELSE [packet EXCEPT !.id   = remap_play_clientbound(packet.id, p),
                      !.body = rewrite_clientbound_body(packet.id, p, packet.body)]

\* Mutant: what older versions send is taken as it is.
translate_newer(packet, p) ==
  IF p <= PROTOCOL_VERSION THEN packet
  ELSE [packet EXCEPT !.id = remap_play_serverbound(packet.id, p)]

\* Only the id is translated on the way in.
translate_serverbound(packet, p) ==
  IF p = PROTOCOL_VERSION THEN packet
  ELSE [packet EXCEPT !.id = remap_play_serverbound(packet.id, p)]

-----------------------------------------------------------------------------
(***************************************************************************)
(* What a client of protocol p reads: its own tables, not the server's, as *)
(* far as the repository says what they are: what version.rs rewrites, the *)
(* names of tags that went in 1.20.2, the text that became a compound in   *)
(* 1.20.3, the advancements.  Of a packet it says nothing about (OTHER,    *)
(* with a body of one field) nothing is claimed but that it comes as it    *)
(* was built.                                                              *)
(***************************************************************************)

\* The fields the client expects in the packet the server calls id.
ClientLayout(id, p) ==
  LET old == p <= 762 IN
  CASE id = LOGIN /\ p >= 764 ->
         <<"entity", "hardcore", "worlds", "max players", "view", "simulation",
           "reduced debug", "respawn screen", "limited crafting", "type", "name",
           "seed", "mode", "previous mode", "debug", "flat", "death", "cooldown">>
    [] id = LOGIN /\ p \in 759 .. 762 -> SubSeq(join_game, 1, 17)
    [] id = LOGIN /\ p <= 758 ->
         SubSeq(join_game, 1, 6) \o <<"dimension">> \o SubSeq(join_game, 8, 16)
    [] id = CHUNK_DATA /\ p >= 764 ->
         <<"x", "z", "heightmaps", "data", "entities", "light">>
    [] id = CHUNK_DATA /\ old ->
         <<"x", "z", "named heightmaps", "data", "entities", "trust edges", "light">>
    [] id = UNLOAD_CHUNK /\ p >= 764 -> <<"z", "x">>
    [] id = SYNC_POSITION /\ p <= 761 ->
         <<"place", "look", "flags", "teleport", "dismount">>
    [] id = PLAYER_INFO_UPDATE /\ p <= 760 ->
         <<"add", "count", "uuid", "name", "properties", "mode", "latency",
           "display name">> \o (IF p >= 759 THEN <<"crypto">> ELSE <<>>)
    [] id = PLAYER_INFO_REMOVE /\ p <= 760 -> <<"remove", "count", "uuid">>
    [] id = SYSTEM_CHAT /\ p <= 758 -> <<"json", "position", "sender">>
    [] id = UPDATE_ADVANCEMENTS ->
         <<IF p = 765 THEN "compound" ELSE "json">>
           \o (IF p <= 763 THEN <<"criteria">> ELSE <<>>)
           \o <<"requirements">> \o (IF old THEN <<>> ELSE <<"telemetry">>)
    [] OTHER ->
         [i \in DOMAIN Body(id) |->
            CASE Body(id)[i] = "json" /\ p = 765       -> "compound"
              [] Body(id)[i] = "named tag" /\ p >= 764 -> "tag"
              [] OTHER                                 -> Body(id)[i]]

\* The packets version.rs leaves in the layout of 763 though the version has another:
\* text other than chat lines, and items that carry a tag.
Unadapted(id, p) == \/ p = 765 /\ id \in ChatIds
                    \/ p >= 764 /\ id \in SlotIds

\* The packets a version does not have: no pair of its table lists the id, and the
\* table gives that id to another packet, for which the client takes it.
ForeignIds == [p \in SUPPORTED_PROTOCOLS |->
  {id \in play_cb :
     /\ ~Lists(ClientboundTable(p), id)
     /\ Folded(id, p) = -1
     /\ \E other \in 0 .. \h6e : /\ Lists(ClientboundTable(p), other)
                                 /\ apply_map(other, ClientboundTable(p)) = id}]
Foreign(id, p) == id \in ForeignIds[p]

\* What the client takes a wire packet for: the packets of its version by id, and
\* by its first field where one packet of the version does the work of two.
ReadAs(wire, p) ==
  {id \in play_cb : /\ remap_play_clientbound(id, p) = wire.id
                    /\ ~Foreign(id, p)
                    /\ wire.body = ClientLayout(id, p)}

\* The client reads the packet for what it is, or at least knows what it should be.
Arrives(id, wire, p) ==
  \/ ReadAs(wire, p) = {id}
  \/ Unadapted(id, p) /\ wire.id = remap_play_clientbound(id, p)
=============================================================================
