---------------------------- MODULE FrameAssembler ----------------------------
(***************************************************************************)
(* class FrameAssembler of src/protocol/frame_assembler.cpp as operators   *)
(* on its state, a record                                                  *)
(*     [frames |-> partial frames by key, completed |-> ages by key].      *)
(* A frame is cut into blocks, a block into data and parity shards; any    *)
(* `data` distinct shards of a block give the block back (Reed-Solomon,    *)
(* src/fec/reed_solomon.cpp).  Shards arrive lost, repeated, late and out  *)
(* of order.                                                               *)
(*                                                                         *)
(* Time is an age in ticks: the two std::maps keep the time a frame was    *)
(* first seen or completed, the model how many ticks ago that was.  The    *)
(* contents of a frame are abstracted to whether every byte is intact.     *)
(***************************************************************************)
EXTENDS Integers, FiniteSets

CONSTANTS
  FrameTimeout,      \* ticks after which a partial frame expires (450 ms)
  CompletedTtl,      \* ticks a completed key is remembered (2 s)
  MaxPartialFrames   \* partial frames kept after a completion (64)

ASSUME AssemblerAssumption ==
  /\ FrameTimeout \in Nat \ {0}
  /\ CompletedTtl \in Nat
  /\ FrameTimeout < CompletedTtl
  /\ MaxPartialFrames \in Nat

\* A packet is a parsed video shard:
\*   key     [session, epoch, frame_id], the FrameKey of the maps;
\*   meta    the fields same_frame_metadata compares besides the key, of
\*           which the control reads the number of blocks and `keyframe`;
\*   layout  [data, parity], the fields same_block_metadata compares;
\*   block, shard   which shard of which block it is (from 0);
\*   intact  whether its payload is what the sender made of the frame.

KeyBefore(j, k) ==
  \/ j.session < k.session
  \/ j.session = k.session /\ j.epoch < k.epoch
  \/ j.session = k.session /\ j.epoch = k.epoch /\ j.frame_id < k.frame_id

NoFrame  == [delivered |-> FALSE]
NoLayout == [data |-> 0, parity |-> 0]

RecoveredFrame(packet, intact) ==
  [delivered |-> TRUE, key |-> packet.key, keyframe |-> packet.meta.keyframe,
   intact |-> intact]

EmptyAssembler == [frames |-> << >>, completed |-> << >>]

-----------------------------------------------------------------------------
(* push: lines 37-142. *)

\* Mutant: one shard index too many.
ValidOffByOne(packet) ==
  /\ packet.layout.data > 0
  /\ packet.layout.parity > 0
  /\ packet.shard <= packet.layout.data + packet.layout.parity
  /\ packet.block < packet.meta.blocks

Valid(packet) ==
  /\ packet.layout.data > 0
  /\ packet.layout.parity > 0
  /\ packet.shard < packet.layout.data + packet.layout.parity
  /\ packet.block < packet.meta.blocks

\* shards.empty() is `layout = NoLayout`: true of a block no shard has reached
\* and again of a block once it is recovered.
NewBlock == [layout |-> NoLayout, shards |-> {}, damaged |-> FALSE,
             recovered |-> FALSE]

NewFrame(packet) ==
  [meta |-> packet.meta, age |-> 0,
   blocks |-> [b \in 0..(packet.meta.blocks - 1) |-> NewBlock]]

Put(map, key, value) ==
  [k \in DOMAIN map \cup {key} |-> IF k = key THEN value ELSE map[k]]

Without(map, keys) == [k \in DOMAIN map \ keys |-> map[k]]

\* Mutant: the highest keys go.
EvictNewest(frames) ==
  Without(frames, {k \in DOMAIN frames :
    Cardinality({j \in DOMAIN frames : KeyBefore(j, k)}) >= MaxPartialFrames})

\* while (frames_.size() > 64) erase(begin()): the lowest keys go.
Evict(frames) ==
  Without(frames, {k \in DOMAIN frames :
    Cardinality({j \in DOMAIN frames : KeyBefore(k, j)}) >= MaxPartialFrames})

\* Mutant: every shard renews the frame's time.
StoredRenewed(asm, packet, frame) ==
  [asm |-> [asm EXCEPT !.frames =
              Put(asm.frames, packet.key, [frame EXCEPT !.age = 0])],
   frame |-> NoFrame]

Stored(asm, packet, frame) ==
  [asm |-> [asm EXCEPT !.frames = Put(asm.frames, packet.key, frame)],
   frame |-> NoFrame]

Erased(asm, packet) ==
  [asm |-> [asm EXCEPT !.frames = Without(asm.frames, {packet.key})],
   frame |-> NoFrame]

\* Mutant: a frame that fails its CRC stays in the map.
AssembledKeepsDamaged(asm, packet, frame) ==
  IF \E b \in DOMAIN frame.blocks : frame.blocks[b].damaged
  THEN Stored(asm, packet, frame)
  ELSE [asm |-> [frames |-> Evict(Without(asm.frames, {packet.key})),
                 completed |-> Put(asm.completed, packet.key, 0)],
        frame |-> RecoveredFrame(packet, TRUE)]

\* All blocks are there: the CRC decides (lines 106-141).
Assembled(asm, packet, frame) ==
  LET intact == \A b \in DOMAIN frame.blocks : ~frame.blocks[b].damaged
  IN  IF ~intact THEN Erased(asm, packet)
      ELSE
       [asm |-> [frames |-> Evict(Without(asm.frames, {packet.key})),
                 completed |-> Put(asm.completed, packet.key, 0)],
        frame |-> RecoveredFrame(packet, intact)]

\* The shard goes into its slot unless the slot is taken; enough shards
\* recover the block (lines 81-104).
Received(asm, packet, frame, block) ==
  LET new    == packet.shard \notin block.shards
      slots  == block.shards \cup {packet.shard}
      broken == block.damaged \/ (new /\ ~packet.intact)
      kept   == [block EXCEPT !.shards = slots, !.damaged = broken]
      whole  == [block EXCEPT !.layout = NoLayout, !.shards = {},
                              !.damaged = broken, !.recovered = TRUE]
      complete == [frame EXCEPT !.blocks[packet.block] = whole]
  IN  IF Cardinality(slots) < block.layout.data
      THEN Stored(asm, packet, [frame EXCEPT !.blocks[packet.block] = kept])
      ELSE IF \E b \in DOMAIN complete.blocks : ~complete.blocks[b].recovered
      THEN Stored(asm, packet, complete)
      ELSE Assembled(asm, packet, complete)

PushInto(asm, packet, frame) ==
  LET old   == frame.blocks[packet.block]
      block == IF old.layout = NoLayout
               THEN [old EXCEPT !.layout = packet.layout] ELSE old
  IN  IF block.layout # packet.layout THEN Erased(asm, packet)
      ELSE IF block.recovered
      THEN Stored(asm, packet, [frame EXCEPT !.blocks[packet.block] = block])
      ELSE Received(asm, packet, frame, block)

\* What push leaves of the assembler and the frame it returns.
Push(asm, packet) ==
  IF ~Valid(packet) \/ packet.key \in DOMAIN asm.completed
  THEN [asm |-> asm, frame |-> NoFrame]
  ELSE IF packet.key \notin DOMAIN asm.frames
  THEN PushInto(asm, packet, NewFrame(packet))
  ELSE IF asm.frames[packet.key].meta # packet.meta
  THEN Erased(asm, packet)
  ELSE PushInto(asm, packet, asm.frames[packet.key])

-----------------------------------------------------------------------------
(* expire: lines 144-164.  The receiver uses the number of expired frames. *)

Expired(asm) == {k \in DOMAIN asm.frames : asm.frames[k].age >= FrameTimeout}

\* Mutant: completed frames are forgotten as early as partial ones.
ExpireCompletedEarly(asm) ==
  [frames    |-> Without(asm.frames, Expired(asm)),
   completed |-> Without(asm.completed,
                         {k \in DOMAIN asm.completed :
                            asm.completed[k] >= FrameTimeout})]

Expire(asm) ==
  [frames    |-> Without(asm.frames, Expired(asm)),
   completed |-> Without(asm.completed,
                         {k \in DOMAIN asm.completed :
                            asm.completed[k] > CompletedTtl})]

(* The clock: ages stop where they no longer matter. *)
Older(asm) ==
  [frames |-> [k \in DOMAIN asm.frames |->
                 IF asm.frames[k].age < FrameTimeout
                 THEN [asm.frames[k] EXCEPT !.age = @ + 1] ELSE asm.frames[k]],
   completed |-> [k \in DOMAIN asm.completed |->
                 IF asm.completed[k] <= CompletedTtl
                 THEN asm.completed[k] + 1 ELSE asm.completed[k]]]
=============================================================================
