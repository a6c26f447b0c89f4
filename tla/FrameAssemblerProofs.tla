------------------------- MODULE FrameAssemblerProofs -------------------------
(***************************************************************************)
(* The safety properties of the frame assembler for every set of shards,   *)
(* however late, repeated, damaged or contradictory, and every limit.      *)
(*                                                                         *)
(* The argument is about the two maps: Sound says what they may hold.      *)
(* Every return of push leaves them sound, expiry and the clock do too,    *)
(* and the age of a completed key is the time since its delivery.          *)
(***************************************************************************)
EXTENDS FrameAssemblerSpec, FiniteSetTheorems, TLAPS

BlockStates == [layout : [data : Nat, parity : Nat], shards : SUBSET Nat,
                damaged : BOOLEAN, recovered : BOOLEAN]

\* The shards of a block are of its layout, and no more than recover it.
Slots(block) ==
  /\ IsFiniteSet(block.shards)
  /\ block.shards \subseteq 0..(block.layout.data + block.layout.parity - 1)
  /\ Cardinality(block.shards) <= block.layout.data

PartialFrames(meta) ==
  [meta : {meta}, age : 0..FrameTimeout, blocks : [0..(meta.blocks - 1) -> BlockStates]]

Partial(frame, meta) ==
  /\ meta.blocks \in Nat
  /\ frame \in PartialFrames(meta)
  /\ \A b \in 0..(meta.blocks - 1) : Slots(frame.blocks[b])

Incomplete(frame) == \E b \in DOMAIN frame.blocks : ~frame.blocks[b].recovered

Sound(asm) ==
  /\ asm = [frames |-> asm.frames, completed |-> asm.completed]
  /\ IsFiniteSet(DOMAIN asm.frames)
  /\ DOMAIN asm.frames \subseteq Keys
  /\ DOMAIN asm.completed \subseteq Keys
  /\ DOMAIN asm.frames \cap DOMAIN asm.completed = {}
  /\ \A k \in DOMAIN asm.frames :
       Partial(asm.frames[k], asm.frames[k].meta) /\ Incomplete(asm.frames[k])
  /\ \A k \in DOMAIN asm.completed : asm.completed[k] \in 0..(CompletedTtl + 1)

\* A key that was delivered within CompletedTtl is remembered.
Remembered ==
  /\ since_delivery \in [Keys -> Nat]
  /\ \A k \in Keys :
       since_delivery[k] <= CompletedTtl =>
         k \in DOMAIN assembler.completed /\ assembler.completed[k] = since_delivery[k]

AInv == Sound(assembler) /\ Remembered

-----------------------------------------------------------------------------
(* The maps. *)

LEMMA WithoutEffect ==
  ASSUME NEW map, NEW keys
  PROVE  /\ DOMAIN Without(map, keys) = DOMAIN map \ keys
         /\ \A k \in DOMAIN map \ keys : Without(map, keys)[k] = map[k]
BY DEF Without

LEMMA EmptySound == Sound(EmptyAssembler)
<1>1. DOMAIN << >> = {}
  OBVIOUS
<1> QED
  BY <1>1, FS_EmptySet DEF Sound, EmptyAssembler

\* Partial frames are given up.
LEMMA GiveUp ==
  ASSUME NEW asm, Sound(asm), NEW keys, NEW completed,
         DOMAIN completed \subseteq Keys,
         DOMAIN completed \cap (DOMAIN asm.frames \ keys) = {},
         \A k \in DOMAIN completed : completed[k] \in 0..(CompletedTtl + 1)
  PROVE  Sound([frames |-> Without(asm.frames, keys), completed |-> completed])
<1> DEFINE frames == Without(asm.frames, keys)
<1>1. /\ DOMAIN frames = DOMAIN asm.frames \ keys
      /\ \A k \in DOMAIN asm.frames \ keys : frames[k] = asm.frames[k]
  BY WithoutEffect
<1>2. IsFiniteSet(DOMAIN frames)
  <2>1. DOMAIN frames \in SUBSET (DOMAIN asm.frames)
    BY <1>1
  <2> QED
    BY <2>1, FS_Subset DEF Sound
<1> HIDE DEF frames
<1> QED
  BY <1>1, <1>2 DEF Sound, frames

LEMMA ErasedSound ==
  ASSUME NEW asm, Sound(asm), NEW packet
  PROVE  /\ Sound(Erased(asm, packet).asm)
         /\ Erased(asm, packet).frame = NoFrame
         /\ Erased(asm, packet).asm.completed = asm.completed
<1>1. Erased(asm, packet).asm =
        [frames |-> Without(asm.frames, {packet.key}), completed |-> asm.completed]
  BY DEF Erased, Sound
<1>2. /\ DOMAIN asm.completed \subseteq Keys
      /\ DOMAIN asm.completed \cap (DOMAIN asm.frames \ {packet.key}) = {}
      /\ \A k \in DOMAIN asm.completed : asm.completed[k] \in 0..(CompletedTtl + 1)
  BY DEF Sound
<1>3. Sound([frames |-> Without(asm.frames, {packet.key}), completed |-> asm.completed])
  BY <1>2, GiveUp, Zenon
<1> QED
  BY <1>1, <1>3 DEF Erased

LEMMA StoredSound ==
  ASSUME NEW asm, Sound(asm), NEW packet, packet.key \in Keys,
         packet.key \notin DOMAIN asm.completed,
         NEW frame, Partial(frame, packet.meta), Incomplete(frame)
  PROVE  /\ Sound(Stored(asm, packet, frame).asm)
         /\ Stored(asm, packet, frame).frame = NoFrame
         /\ Stored(asm, packet, frame).asm.completed = asm.completed
<1> DEFINE frames == Put(asm.frames, packet.key, frame)
<1>1. Stored(asm, packet, frame).asm = [frames |-> frames, completed |-> asm.completed]
  BY DEF Stored, Sound
<1>2. /\ DOMAIN frames = DOMAIN asm.frames \cup {packet.key}
      /\ frames[packet.key] = frame
      /\ \A k \in DOMAIN asm.frames : k # packet.key => frames[k] = asm.frames[k]
  BY DEF Put
<1>3. IsFiniteSet(DOMAIN frames)
  BY <1>2, FS_AddElement DEF Sound
<1> HIDE DEF frames
<1>4. frame.meta = packet.meta
  BY DEF Partial, PartialFrames
<1>5. ASSUME NEW k \in DOMAIN frames
      PROVE  Partial(frames[k], frames[k].meta) /\ Incomplete(frames[k])
  BY <1>2, <1>4 DEF Sound
<1>6. Sound([frames |-> frames, completed |-> asm.completed])
  BY <1>2, <1>3, <1>5 DEF Sound
<1> QED
  BY <1>1, <1>6 DEF Stored

-----------------------------------------------------------------------------
(* The blocks of a frame. *)

LEMMA NewFrameIsPartial ==
  ASSUME NEW packet, packet.meta.blocks \in Nat, packet.block \in Nat,
         packet.block < packet.meta.blocks
  PROVE  Partial(NewFrame(packet), packet.meta) /\ Incomplete(NewFrame(packet))
<1> DEFINE frame == NewFrame(packet)
<1>1. NewBlock \in BlockStates /\ Slots(NewBlock) /\ ~NewBlock.recovered
  <2>1. {} \in SUBSET Nat /\ FALSE \in BOOLEAN /\ 0 \in Nat
    OBVIOUS
  <2>2. NewBlock \in BlockStates
    BY <2>1, Zenon DEF NewBlock, NoLayout, BlockStates
  <2>3. Slots(NewBlock)
    BY FS_EmptySet DEF NewBlock, NoLayout, Slots
  <2> QED
    BY <2>2, <2>3 DEF NewBlock
<1>2. /\ frame.meta = packet.meta /\ frame.age = 0
      /\ frame.blocks = [b \in 0..(packet.meta.blocks - 1) |-> NewBlock]
  BY DEF NewFrame
<1>3. frame \in PartialFrames(packet.meta)
  BY <1>1, AssemblerAssumption DEF NewFrame, PartialFrames
<1>4. packet.block \in DOMAIN frame.blocks
  BY <1>2
<1> QED
  BY <1>1, <1>2, <1>3, <1>4 DEF Partial, Incomplete

\* One block of a frame changes.
LEMMA BlockUpdate ==
  ASSUME NEW meta, NEW frame, Partial(frame, meta),
         NEW b \in 0..(meta.blocks - 1), NEW block \in BlockStates, Slots(block)
  PROVE  LET changed == [frame EXCEPT !.blocks[b] = block]
         IN  /\ Partial(changed, meta)
             /\ DOMAIN changed.blocks = DOMAIN frame.blocks
             /\ changed.blocks[b] = block
             /\ \A a \in DOMAIN frame.blocks : a # b => changed.blocks[a] = frame.blocks[a]
<1> DEFINE changed == [frame EXCEPT !.blocks[b] = block]
           blocks == [frame.blocks EXCEPT ![b] = block]
<1>1. frame \in PartialFrames(meta)
  BY DEF Partial
<1>2. /\ changed.meta = meta /\ changed.age = frame.age /\ changed.blocks = blocks
      /\ changed = [meta |-> meta, age |-> frame.age, blocks |-> blocks]
  BY <1>1 DEF PartialFrames
<1>3. /\ blocks \in [0..(meta.blocks - 1) -> BlockStates]
      /\ DOMAIN blocks = DOMAIN frame.blocks
      /\ blocks[b] = block
      /\ \A a \in DOMAIN frame.blocks : a # b => blocks[a] = frame.blocks[a]
  BY <1>1 DEF PartialFrames
<1> HIDE DEF blocks
<1>4. changed \in PartialFrames(meta)
  BY <1>1, <1>2, <1>3 DEF PartialFrames
<1> HIDE DEF changed
<1>5. \A a \in 0..(meta.blocks - 1) : Slots(changed.blocks[a])
  BY <1>1, <1>2, <1>3 DEF Partial, PartialFrames
<1>6. Partial(changed, meta)
  BY <1>4, <1>5 DEF Partial
<1>7. /\ DOMAIN changed.blocks = DOMAIN frame.blocks
      /\ changed.blocks[b] = block
      /\ \A a \in DOMAIN frame.blocks : a # b => changed.blocks[a] = frame.blocks[a]
  BY <1>2, <1>3
<1> QED
  BY <1>6, <1>7 DEF changed

-----------------------------------------------------------------------------
(* push. *)

\* What push does: it returns nothing and remembers nothing new, or it returns
\* the frame whole, forgets its parts and remembers its key.
Pushes(asm, packet, result) ==
  /\ Sound(result.asm)
  /\ \/ /\ result.frame = NoFrame
        /\ result.asm.completed = asm.completed
     \/ /\ result.frame = RecoveredFrame(packet, TRUE)
        /\ packet.key \notin DOMAIN asm.completed
        /\ result.asm.completed = Put(asm.completed, packet.key, 0)
        /\ result.asm.frames = Evict(Without(asm.frames, {packet.key}))

LEMMA StoredPushes ==
  ASSUME NEW asm, Sound(asm), NEW packet, packet.key \in Keys,
         packet.key \notin DOMAIN asm.completed,
         NEW frame, Partial(frame, packet.meta), Incomplete(frame)
  PROVE  Pushes(asm, packet, Stored(asm, packet, frame))
BY StoredSound DEF Pushes

LEMMA ErasedPushes ==
  ASSUME NEW asm, Sound(asm), NEW packet
  PROVE  Pushes(asm, packet, Erased(asm, packet))
BY ErasedSound DEF Pushes

LEMMA AssembledPushes ==
  ASSUME NEW asm, Sound(asm), NEW packet, packet.key \in Keys,
         packet.key \notin DOMAIN asm.completed, NEW frame
  PROVE  Pushes(asm, packet, Assembled(asm, packet, frame))
<1> DEFINE intact == \A b \in DOMAIN frame.blocks : ~frame.blocks[b].damaged
           completed == Put(asm.completed, packet.key, 0)
           rest == Without(asm.frames, {packet.key})
           lost == {k \in DOMAIN rest :
                      Cardinality({j \in DOMAIN rest : KeyBefore(k, j)}) >= MaxPartialFrames}
<1>1. CASE ~intact
  BY <1>1, ErasedPushes DEF Assembled
<1>2. CASE intact
  <2>1. Assembled(asm, packet, frame) =
          [asm |-> [frames |-> Evict(rest), completed |-> completed],
           frame |-> RecoveredFrame(packet, TRUE)]
    BY <1>2, Zenon DEF Assembled
  <2>2. /\ DOMAIN asm.completed \subseteq Keys
        /\ DOMAIN asm.completed \cap (DOMAIN asm.frames \ {packet.key}) = {}
        /\ \A k \in DOMAIN asm.completed : asm.completed[k] \in 0..(CompletedTtl + 1)
    BY DEF Sound
  <2>3. /\ DOMAIN completed = DOMAIN asm.completed \cup {packet.key}
        /\ \A k \in DOMAIN completed : completed[k] \in 0..(CompletedTtl + 1)
    BY <2>2, AssemblerAssumption DEF Put
  <2>4. DOMAIN rest = DOMAIN asm.frames \ {packet.key}
    BY DEF Without
  <2> DEFINE whole == [frames |-> rest, completed |-> completed]
  <2>5. Sound(whole)
    <3>1. /\ DOMAIN completed \subseteq Keys
          /\ DOMAIN completed \cap (DOMAIN asm.frames \ {packet.key}) = {}
      BY <2>2, <2>3
    <3> HIDE DEF completed
    <3> QED
      BY <2>3, <3>1, GiveUp, Zenon
  <2>6. Evict(rest) = Without(rest, lost)
    BY DEF Evict
  <2>7. Sound([frames |-> Without(whole.frames, lost), completed |-> completed])
    <3>1. /\ DOMAIN completed \subseteq Keys
          /\ DOMAIN completed \cap (DOMAIN whole.frames \ lost) = {}
      BY <2>2, <2>3, <2>4
    <3> HIDE DEF completed, lost, whole
    <3> QED
      BY <2>3, <2>5, <3>1, GiveUp, Zenon
  <2> HIDE DEF completed, rest, lost
  <2>8. Sound([frames |-> Evict(rest), completed |-> completed])
    BY <2>6, <2>7
  <2>9. Pushes(asm, packet, [asm |-> [frames |-> Evict(rest), completed |-> completed],
                             frame |-> RecoveredFrame(packet, TRUE)])
    BY <2>8 DEF Pushes, completed, rest
  <2> QED
    BY <2>1, <2>9
<1> QED
  BY <1>1, <1>2

LEMMA ReceivedPushes ==
  ASSUME NEW asm, Sound(asm), NEW packet, packet.key \in Keys,
         packet.key \notin DOMAIN asm.completed,
         packet.intact \in BOOLEAN, packet.shard \in Nat,
         packet.shard < packet.layout.data + packet.layout.parity,
         NEW frame, Partial(frame, packet.meta),
         packet.block \in 0..(packet.meta.blocks - 1),
         NEW block \in BlockStates, Slots(block), ~block.recovered,
         block.layout = packet.layout
  PROVE  Pushes(asm, packet, Received(asm, packet, frame, block))
<1> DEFINE slots  == block.shards \cup {packet.shard}
           broken == block.damaged \/ (packet.shard \notin block.shards /\ ~packet.intact)
           kept   == [block EXCEPT !.shards = slots, !.damaged = broken]
           whole  == [block EXCEPT !.layout = NoLayout, !.shards = {},
                                   !.damaged = broken, !.recovered = TRUE]
           stays  == [frame EXCEPT !.blocks[packet.block] = kept]
           complete == [frame EXCEPT !.blocks[packet.block] = whole]
<1>1. Received(asm, packet, frame, block) =
        IF Cardinality(slots) < block.layout.data THEN Stored(asm, packet, stays)
        ELSE IF Incomplete(complete) THEN Stored(asm, packet, complete)
        ELSE Assembled(asm, packet, complete)
  BY Zenon DEF Received, Incomplete
<1>2. broken \in BOOLEAN /\ slots \in SUBSET Nat
  BY DEF BlockStates
<1>3. DOMAIN frame.blocks = 0..(packet.meta.blocks - 1)
  BY DEF Partial, PartialFrames
<1> HIDE DEF broken
<1>4. CASE Cardinality(slots) < block.layout.data
  <2>1. /\ IsFiniteSet(slots)
        /\ slots \subseteq 0..(block.layout.data + block.layout.parity - 1)
    <3>1. IsFiniteSet(slots)
      BY FS_AddElement DEF Slots
    <3>2. packet.shard \in 0..(block.layout.data + block.layout.parity - 1)
      BY DEF BlockStates
    <3> QED
      BY <3>1, <3>2 DEF Slots
  <2>2. kept \in BlockStates
    BY <1>2, Zenon DEF BlockStates
  <2>3. kept.shards = slots /\ kept.layout = block.layout /\ ~kept.recovered
    BY DEF BlockStates
  <2>4. Slots(kept)
    <3>1. Cardinality(slots) <= block.layout.data
      BY <1>4, <2>1, FS_CardinalityType DEF BlockStates
    <3> HIDE DEF kept, slots
    <3> QED
      BY <2>1, <2>3, <3>1 DEF Slots
  <2> HIDE DEF kept
  <2>5. /\ Partial(stays, packet.meta) /\ DOMAIN stays.blocks = DOMAIN frame.blocks
        /\ stays.blocks[packet.block] = kept
    BY <2>2, <2>4, BlockUpdate
  <2>6. Incomplete(stays)
    BY <1>3, <2>3, <2>5 DEF Incomplete
  <2> HIDE DEF stays
  <2> QED
    BY <1>1, <1>4, <2>5, <2>6, StoredPushes
<1>5. CASE ~(Cardinality(slots) < block.layout.data)
  <2>1. whole \in BlockStates
    <3>1. NoLayout \in [data : Nat, parity : Nat] /\ {} \in SUBSET Nat /\ TRUE \in BOOLEAN
      BY DEF NoLayout
    <3> QED
      BY <1>2, <3>1, Zenon DEF BlockStates
  <2>2. Slots(whole)
    <3>1. whole.shards = {} /\ whole.layout.data = 0
      BY DEF BlockStates, NoLayout
    <3> HIDE DEF whole
    <3> QED
      BY <3>1, FS_EmptySet DEF Slots
  <2> HIDE DEF whole
  <2>3. Partial(complete, packet.meta)
    BY <2>1, <2>2, BlockUpdate
  <2> HIDE DEF complete
  <2>4. CASE Incomplete(complete)
    BY <1>1, <1>5, <2>3, <2>4, StoredPushes
  <2>5. CASE ~Incomplete(complete)
    BY <1>1, <1>5, <2>5, AssembledPushes
  <2> QED
    BY <2>4, <2>5
<1> QED
  BY <1>4, <1>5

LEMMA PushIntoPushes ==
  ASSUME NEW asm, Sound(asm), NEW packet \in Packets, Valid(packet),
         packet.key \notin DOMAIN asm.completed,
         NEW frame, Partial(frame, packet.meta), Incomplete(frame)
  PROVE  Pushes(asm, packet, PushInto(asm, packet, frame))
<1> DEFINE old   == frame.blocks[packet.block]
           block == IF old.layout = NoLayout
                    THEN [old EXCEPT !.layout = packet.layout] ELSE old
           next  == [frame EXCEPT !.blocks[packet.block] = block]
<1>1. PushInto(asm, packet, frame) =
        IF block.layout # packet.layout THEN Erased(asm, packet)
        ELSE IF block.recovered THEN Stored(asm, packet, next)
        ELSE Received(asm, packet, frame, block)
  BY Zenon DEF PushInto
<1>2. /\ packet.key \in Keys /\ packet.meta.blocks \in Nat
      /\ packet.layout \in [data : Nat, parity : Nat]
      /\ packet.shard \in Nat /\ packet.block \in Nat /\ packet.intact \in BOOLEAN
      /\ packet.block \in 0..(packet.meta.blocks - 1)
      /\ packet.shard < packet.layout.data + packet.layout.parity
  BY PacketAssumption DEF Keys, Valid
<1>3. old \in BlockStates /\ Slots(old)
      /\ DOMAIN frame.blocks = 0..(packet.meta.blocks - 1)
  BY <1>2 DEF Partial, PartialFrames
<1> HIDE DEF old
<1>4. block \in BlockStates /\ Slots(block) /\ block.recovered = old.recovered
  <2>1. CASE old.layout = NoLayout
    <3>1. block = [old EXCEPT !.layout = packet.layout]
      BY <2>1
    <3>2. /\ block \in BlockStates /\ block.shards = old.shards
          /\ block.layout = packet.layout /\ block.recovered = old.recovered
      BY <1>2, <1>3, <3>1 DEF BlockStates
    <3>3. Cardinality(old.shards) = 0 /\ old.shards = {}
      <4>1. Cardinality(old.shards) \in Nat /\ Cardinality(old.shards) <= 0
        BY <1>3, <2>1, FS_CardinalityType DEF Slots, NoLayout
      <4> QED
        BY <1>3, <4>1, FS_EmptySet DEF Slots
    <3> HIDE DEF block
    <3> QED
      BY <1>2, <3>2, <3>3, FS_EmptySet DEF Slots
  <2>2. CASE old.layout # NoLayout
    BY <1>3, <2>2
  <2> QED
    BY <2>1, <2>2
<1> HIDE DEF block
<1>5. CASE block.layout # packet.layout
  BY <1>1, <1>5, ErasedPushes
<1>6. CASE block.layout = packet.layout /\ block.recovered
  <2>1. /\ Partial(next, packet.meta) /\ DOMAIN next.blocks = DOMAIN frame.blocks
        /\ next.blocks[packet.block] = block
        /\ \A a \in DOMAIN frame.blocks :
             a # packet.block => next.blocks[a] = frame.blocks[a]
    BY <1>2, <1>4, BlockUpdate
  <2> HIDE DEF next
  <2>2. Incomplete(next)
    BY <1>2, <1>3, <1>4, <1>6, <2>1 DEF Incomplete, old
  <2> QED
    BY <1>1, <1>2, <1>6, <2>1, <2>2, StoredPushes
<1>7. CASE block.layout = packet.layout /\ ~block.recovered
  BY <1>1, <1>2, <1>4, <1>7, ReceivedPushes
<1> QED
  BY <1>5, <1>6, <1>7

LEMMA PushPushes ==
  ASSUME NEW asm, Sound(asm), NEW packet \in Packets
  PROVE  Pushes(asm, packet, Push(asm, packet))
<1>1. CASE ~Valid(packet) \/ packet.key \in DOMAIN asm.completed
  BY <1>1 DEF Push, Pushes
<1>2. CASE /\ Valid(packet) /\ packet.key \notin DOMAIN asm.completed
           /\ packet.key \notin DOMAIN asm.frames
  <2>1. Partial(NewFrame(packet), packet.meta) /\ Incomplete(NewFrame(packet))
    BY <1>2, NewFrameIsPartial, PacketAssumption DEF Valid
  <2>2. Push(asm, packet) = PushInto(asm, packet, NewFrame(packet))
    BY <1>2 DEF Push
  <2> QED
    BY <1>2, <2>1, <2>2, PushIntoPushes
<1>3. CASE /\ Valid(packet) /\ packet.key \notin DOMAIN asm.completed
           /\ packet.key \in DOMAIN asm.frames
  <2> DEFINE frame == asm.frames[packet.key]
  <2>1. Partial(frame, frame.meta) /\ Incomplete(frame)
    BY <1>3 DEF Sound
  <2>2. Push(asm, packet) =
          IF frame.meta # packet.meta THEN Erased(asm, packet)
          ELSE PushInto(asm, packet, frame)
    BY <1>3 DEF Push
  <2> HIDE DEF frame
  <2> QED
    BY <1>3, <2>1, <2>2, ErasedPushes, PushIntoPushes
<1> QED
  BY <1>1, <1>2, <1>3

-----------------------------------------------------------------------------
(* The eviction. *)

LEMMA KeysAreOrdered ==
  ASSUME NEW k \in Keys, NEW j \in Keys, NEW i \in Keys
  PROVE  /\ ~KeyBefore(k, k)
         /\ KeyBefore(k, j) /\ KeyBefore(j, i) => KeyBefore(k, i)
         /\ k = j \/ KeyBefore(k, j) \/ KeyBefore(j, k)
<1>1. /\ k \in [session : Nat, epoch : Nat, frame_id : Nat]
      /\ j \in [session : Nat, epoch : Nat, frame_id : Nat]
      /\ i \in [session : Nat, epoch : Nat, frame_id : Nat]
  BY PacketAssumption DEF Keys
<1> QED
  BY <1>1 DEF KeyBefore

After(keys, k) == {j \in keys : KeyBefore(k, j)}

\* A lower key has more keys after it.
LEMMA LowerHasMoreAfter ==
  ASSUME NEW keys, keys \subseteq Keys, IsFiniteSet(keys),
         NEW k \in keys, NEW j \in keys, KeyBefore(k, j)
  PROVE  /\ Cardinality(After(keys, k)) \in Nat /\ Cardinality(After(keys, j)) \in Nat
         /\ Cardinality(After(keys, j)) < Cardinality(After(keys, k))
<1>1. IsFiniteSet(After(keys, k)) /\ IsFiniteSet(After(keys, j))
  <2>1. After(keys, k) \in SUBSET keys /\ After(keys, j) \in SUBSET keys
    BY DEF After
  <2> QED
    BY <2>1, FS_Subset
<1>2. After(keys, j) \in SUBSET After(keys, k)
  BY KeysAreOrdered DEF After
<1>3. j \in After(keys, k) /\ j \notin After(keys, j)
  BY KeysAreOrdered DEF After
<1>4. Cardinality(After(keys, k)) \in Nat /\ Cardinality(After(keys, j)) \in Nat
  BY <1>1, FS_CardinalityType
<1>5. /\ Cardinality(After(keys, j)) <= Cardinality(After(keys, k))
      /\ Cardinality(After(keys, k)) = Cardinality(After(keys, j)) =>
           After(keys, k) = After(keys, j)
  BY <1>1, <1>2, FS_Subset
<1> QED
  BY <1>3, <1>4, <1>5

\* The highest keys are kept, at most MaxPartialFrames of them.
LEMMA EvictEffect ==
  ASSUME NEW frames, DOMAIN frames \subseteq Keys, IsFiniteSet(DOMAIN frames)
  PROVE  /\ Cardinality(DOMAIN Evict(frames)) <= MaxPartialFrames
         /\ DOMAIN Evict(frames) \subseteq DOMAIN frames
         /\ \A lost \in DOMAIN frames \ DOMAIN Evict(frames), kept \in DOMAIN Evict(frames) :
              KeyBefore(lost, kept)
<1> DEFINE keys == DOMAIN frames
           survivors == {k \in keys : Cardinality(After(keys, k)) < MaxPartialFrames}
           rank == [k \in survivors |-> Cardinality(After(keys, k))]
<1>1. \A k \in keys : Cardinality(After(keys, k)) \in Nat
  <2> TAKE k \in keys
  <2>1. After(keys, k) \in SUBSET keys
    BY DEF After
  <2> QED
    BY <2>1, FS_Subset, FS_CardinalityType
<1>2. DOMAIN Evict(frames) = survivors
  <2>1. DOMAIN Evict(frames) =
          keys \ {k \in keys : Cardinality(After(keys, k)) >= MaxPartialFrames}
    BY DEF Evict, Without, After
  <2> QED
    BY <1>1, <2>1, AssemblerAssumption
<1>3. Cardinality(survivors) <= MaxPartialFrames
  <2>1. rank \in [survivors -> 0..(MaxPartialFrames - 1)]
    BY <1>1, AssemblerAssumption
  <2>2. ASSUME NEW k \in survivors, NEW j \in survivors, rank[k] = rank[j]
        PROVE  k = j
    <3>1. Cardinality(After(keys, k)) = Cardinality(After(keys, j))
      BY <2>2
    <3>2. ~KeyBefore(k, j) /\ ~KeyBefore(j, k)
      BY <1>1, <3>1, LowerHasMoreAfter
    <3> QED
      BY <3>2, KeysAreOrdered
  <2>3. DOMAIN rank = survivors
    OBVIOUS
  <2> HIDE DEF rank, survivors
  <2>4. rank \in Injection(survivors, 0..(MaxPartialFrames - 1))
    BY <2>1, <2>2, <2>3 DEF Injection, IsInjective
  <2>5. /\ IsFiniteSet(0..(MaxPartialFrames - 1))
        /\ Cardinality(0..(MaxPartialFrames - 1)) = MaxPartialFrames
    BY FS_Interval, AssemblerAssumption
  <2> QED
    BY <2>4, <2>5, FS_Injection
<1>4. ASSUME NEW lost \in keys \ survivors, NEW kept \in survivors
      PROVE  KeyBefore(lost, kept)
  <2>1. /\ Cardinality(After(keys, kept)) < Cardinality(After(keys, lost))
        /\ kept \in keys /\ lost # kept
    BY <1>1, <1>4, AssemblerAssumption
  <2>2. ~KeyBefore(kept, lost)
    <3> SUFFICES ASSUME KeyBefore(kept, lost) PROVE FALSE
      OBVIOUS
    <3>1. Cardinality(After(keys, lost)) < Cardinality(After(keys, kept))
      BY <2>1, LowerHasMoreAfter
    <3> QED
      BY <1>1, <2>1, <3>1
  <2> QED
    BY <2>1, <2>2, KeysAreOrdered
<1> QED
  BY <1>2, <1>3, <1>4

-----------------------------------------------------------------------------
(* The steps. *)

LEMMA InitAInv == Init => AInv
<1> SUFFICES ASSUME Init PROVE AInv
  OBVIOUS
<1>1. Sound(assembler)
  BY EmptySound DEF Init
<1>2. Remembered
  BY AssemblerAssumption DEF Init, Remembered, Never
<1> QED
  BY <1>1, <1>2 DEF AInv

\* A delivery, or none.
LEMMA PushEffect ==
  ASSUME AInv, NEW packet \in Packets, PushPacket(packet)
  PROVE  /\ Sound(assembler')
         /\ \/ /\ delivered' = NoFrame
               /\ assembler'.completed = assembler.completed
               /\ UNCHANGED since_delivery
            \/ /\ delivered' = RecoveredFrame(packet, TRUE)
               /\ packet.key \in Keys /\ packet.key \notin DOMAIN assembler.completed
               /\ assembler'.completed = Put(assembler.completed, packet.key, 0)
               /\ assembler'.frames = Evict(Without(assembler.frames, {packet.key}))
               /\ since_delivery' = [since_delivery EXCEPT ![packet.key] = 0]
<1> DEFINE result == Push(assembler, packet)
<1>1. /\ assembler' = result.asm /\ delivered' = result.frame
      /\ since_delivery' = IF result.frame = NoFrame THEN since_delivery
                           ELSE [since_delivery EXCEPT ![result.frame.key] = 0]
  BY DEF PushPacket
<1>2. Pushes(assembler, packet, result)
  BY PushPushes DEF AInv
<1> HIDE DEF result
<1>3. CASE result.frame = NoFrame /\ result.asm.completed = assembler.completed
  BY <1>1, <1>2, <1>3 DEF Pushes
<1>4. CASE /\ result.frame = RecoveredFrame(packet, TRUE)
           /\ packet.key \notin DOMAIN assembler.completed
           /\ result.asm.completed = Put(assembler.completed, packet.key, 0)
           /\ result.asm.frames = Evict(Without(assembler.frames, {packet.key}))
  <2>1. RecoveredFrame(packet, TRUE).delivered /\ RecoveredFrame(packet, TRUE).key = packet.key
    BY DEF RecoveredFrame
  <2>2. ~NoFrame.delivered
    BY DEF NoFrame
  <2>3. packet.key \in Keys
    BY DEF Keys
  <2> QED
    BY <1>1, <1>2, <1>4, <2>1, <2>2, <2>3 DEF Pushes
<1> QED
  BY <1>2, <1>3, <1>4 DEF Pushes

LEMMA PushAInv ==
  ASSUME AInv, NEW packet \in Packets, PushPacket(packet)
  PROVE  AInv'
<1>1. CASE assembler'.completed = assembler.completed /\ UNCHANGED since_delivery
  BY <1>1, PushEffect DEF AInv, Remembered
<1>2. CASE /\ packet.key \in Keys
           /\ assembler'.completed = Put(assembler.completed, packet.key, 0)
           /\ since_delivery' = [since_delivery EXCEPT ![packet.key] = 0]
  BY <1>2, PushEffect DEF AInv, Remembered, Put
<1> QED
  BY <1>1, <1>2, PushEffect

LEMMA ExpireAInv ==
  ASSUME AInv, ExpireOld
  PROVE  AInv'
<1> DEFINE old == {k \in DOMAIN assembler.completed : assembler.completed[k] > CompletedTtl}
           completed == Without(assembler.completed, old)
<1>1. /\ assembler' = [frames |-> Without(assembler.frames, Expired(assembler)),
                       completed |-> completed]
      /\ UNCHANGED since_delivery
  BY DEF ExpireOld, Expire
<1>2. /\ DOMAIN completed = DOMAIN assembler.completed \ old
      /\ \A k \in DOMAIN assembler.completed \ old : completed[k] = assembler.completed[k]
  BY DEF Without
<1>3. Sound(assembler) /\ Remembered
  BY DEF AInv
<1>4. /\ DOMAIN completed \subseteq Keys
      /\ DOMAIN completed \cap (DOMAIN assembler.frames \ Expired(assembler)) = {}
      /\ \A k \in DOMAIN completed : completed[k] \in 0..(CompletedTtl + 1)
  BY <1>2, <1>3 DEF Sound
<1>5. Sound(assembler')
  <2> HIDE DEF completed
  <2> QED
    BY <1>1, <1>3, <1>4, GiveUp, Zenon
<1>6. Remembered'
  <2> SUFFICES ASSUME NEW k \in Keys, since_delivery[k] <= CompletedTtl
               PROVE  /\ k \in DOMAIN completed
                      /\ completed[k] = since_delivery[k]
    BY <1>1, <1>3 DEF Remembered
  <2>1. /\ k \in DOMAIN assembler.completed
        /\ assembler.completed[k] = since_delivery[k] /\ since_delivery[k] \in Nat
    BY <1>3 DEF Remembered
  <2>2. k \notin old
    BY <2>1, AssemblerAssumption
  <2> HIDE DEF old, completed
  <2> QED
    BY <1>2, <2>1, <2>2
<1> QED
  BY <1>5, <1>6 DEF AInv

LEMMA ResetAInv ==
  ASSUME Reset
  PROVE  AInv'
<1>1. Sound(assembler')
  BY EmptySound DEF Reset
<1>2. Remembered'
  BY AssemblerAssumption DEF Reset, Remembered, Never
<1> QED
  BY <1>1, <1>2 DEF AInv

LEMMA TickAInv ==
  ASSUME AInv, Tick
  PROVE  AInv'
<1> DEFINE Aged(frame) == IF frame.age < FrameTimeout
                          THEN [frame EXCEPT !.age = @ + 1] ELSE frame
           frames == [k \in DOMAIN assembler.frames |-> Aged(assembler.frames[k])]
           completed == [k \in DOMAIN assembler.completed |->
                           IF assembler.completed[k] <= CompletedTtl
                           THEN assembler.completed[k] + 1 ELSE assembler.completed[k]]
<1>1. assembler' = [frames |-> frames, completed |-> completed]
  BY DEF Tick, Older
<1>2. Sound(assembler) /\ Remembered
  BY DEF AInv
<1>3. ASSUME NEW k \in DOMAIN frames
      PROVE  Partial(frames[k], frames[k].meta) /\ Incomplete(frames[k])
  <2> DEFINE frame == assembler.frames[k]
  <2>1. Partial(frame, frame.meta) /\ Incomplete(frame)
    BY <1>2 DEF Sound
  <2>2. frames[k] = Aged(frame)
    OBVIOUS
  <2> HIDE DEF frame
  <2>3. /\ Aged(frame) \in PartialFrames(frame.meta)
        /\ Aged(frame).meta = frame.meta /\ Aged(frame).blocks = frame.blocks
    BY <2>1, AssemblerAssumption DEF Partial, PartialFrames
  <2> HIDE DEF Aged
  <2> QED
    BY <2>1, <2>2, <2>3 DEF Partial, Incomplete
<1>4. /\ DOMAIN frames = DOMAIN assembler.frames
      /\ DOMAIN completed = DOMAIN assembler.completed
      /\ \A k \in DOMAIN completed : completed[k] \in 0..(CompletedTtl + 1)
  BY <1>2, AssemblerAssumption DEF Sound
<1>5. Sound(assembler')
  <2> HIDE DEF frames, completed
  <2> QED
    BY <1>1, <1>2, <1>3, <1>4 DEF Sound
<1>6. Remembered'
  <2>1. since_delivery' \in [Keys -> Nat]
    BY <1>2, AssemblerAssumption DEF Tick, Remembered, Never
  <2>2. ASSUME NEW k \in Keys, since_delivery'[k] <= CompletedTtl
        PROVE  k \in DOMAIN completed /\ completed[k] = since_delivery'[k]
    <3>1. since_delivery[k] \in Nat
      BY <1>2 DEF Remembered
    <3>2. since_delivery'[k] = since_delivery[k] + 1 /\ since_delivery[k] <= CompletedTtl
      BY <2>2, <3>1, AssemblerAssumption DEF Tick, Never
    <3>3. /\ k \in DOMAIN assembler.completed
          /\ assembler.completed[k] = since_delivery[k]
      BY <1>2, <3>2 DEF Remembered
    <3> QED
      BY <3>2, <3>3
  <2> QED
    BY <1>1, <2>1, <2>2 DEF Remembered
<1> QED
  BY <1>5, <1>6 DEF AInv

LEMMA NextAInv == AInv /\ [Next]_vars => AInv'
<1> SUFFICES ASSUME AInv, [Next]_vars PROVE AInv'
  OBVIOUS
<1>1. CASE UNCHANGED vars
  BY <1>1 DEF vars, AInv, Remembered
<1> QED
  BY <1>1, PushAInv, ExpireAInv, ResetAInv, TickAInv DEF Next

LEMMA AInvHolds == Spec => []AInv
BY InitAInv, NextAInv, PTL DEF Spec

-----------------------------------------------------------------------------
(* Ages, slots and blocks stay in range (frame_assembler.cpp:81-104).      *)
THEOREM AssemblerTypes == Spec => []TypeOK
<1>1. AInv => TypeOK
  <2> SUFFICES ASSUME AInv PROVE TypeOK
    OBVIOUS
  <2>1. Sound(assembler)
    BY DEF AInv
  <2>2. ASSUME NEW k \in DOMAIN assembler.frames
        PROVE  /\ assembler.frames[k].age \in 0..FrameTimeout
               /\ \A b \in DOMAIN assembler.frames[k].blocks :
                    Slots(assembler.frames[k].blocks[b])
    BY <2>1 DEF Sound, Partial, PartialFrames
  <2> QED
    BY <2>1, <2>2 DEF Sound, Slots, TypeOK
<1> QED
  BY <1>1, AInvHolds, PTL

(* The history of slots against the blocks: what a block that is not       *)
(* recovered holds is what arrived of it, in one layout, and too little.   *)

SlotsOf(slots, b) == {slot \in slots : slot.block = b}

Accounts(block, slots) ==
  ~block.recovered =>
    /\ block.shards = {slot.shard : slot \in slots}
    /\ \A slot \in slots : slot.layout = block.layout
    /\ slots # {} => /\ block.layout # NoLayout
                     /\ Cardinality(block.shards) < block.layout.data

\* Once more for every block of a frame.
AllAccounted(frame, slots) ==
  \A b \in DOMAIN frame.blocks : Accounts(frame.blocks[b], SlotsOf(slots, b))

ArrivedInv ==
  /\ arrived = [k \in Keys |-> arrived[k]]
  /\ \A k \in Keys :
       IF k \in DOMAIN assembler.frames
       THEN AllAccounted(assembler.frames[k], arrived[k])
       ELSE arrived[k] = {}

\* A frame takes a shard: the other blocks stay, and a block that is still
\* not recovered has the shard, in its layout, and too few.
Takes(packet, before, after) ==
  /\ DOMAIN after.blocks = DOMAIN before.blocks
  /\ \A b \in DOMAIN before.blocks :
       b # packet.block => after.blocks[b] = before.blocks[b]
  /\ ~after.blocks[packet.block].recovered =>
       /\ ~before.blocks[packet.block].recovered
       /\ before.blocks[packet.block].layout \in {NoLayout, packet.layout}
       /\ after.blocks[packet.block].layout = packet.layout
       /\ after.blocks[packet.block].shards =
            before.blocks[packet.block].shards \cup {packet.shard}
       /\ Cardinality(after.blocks[packet.block].shards) < packet.layout.data

FrameBefore(asm, packet) ==
  IF packet.key \in DOMAIN asm.frames THEN asm.frames[packet.key]
  ELSE NewFrame(packet)

\* The frames a push leaves: the others as they were, and the shard's own, if
\* it is left, with the shard.
Leaves(asm, packet, result) ==
  \A k \in DOMAIN result.asm.frames :
    \/ /\ k # packet.key
       /\ k \in DOMAIN asm.frames
       /\ result.asm.frames[k] = asm.frames[k]
    \/ /\ k = packet.key
       /\ Takes(packet, FrameBefore(asm, packet), result.asm.frames[k])

LEMMA ErasedLeaves ==
  ASSUME NEW asm, Sound(asm), NEW packet
  PROVE  Leaves(asm, packet, Erased(asm, packet))
<1>1. Erased(asm, packet).asm.frames = Without(asm.frames, {packet.key})
  BY DEF Erased, Sound
<1> QED
  BY <1>1 DEF Leaves, Without

LEMMA StoredLeaves ==
  ASSUME NEW asm, Sound(asm), NEW packet, NEW frame,
         Takes(packet, FrameBefore(asm, packet), frame)
  PROVE  Leaves(asm, packet, Stored(asm, packet, frame))
<1>1. Stored(asm, packet, frame).asm.frames = Put(asm.frames, packet.key, frame)
  BY DEF Stored, Sound
<1> QED
  BY <1>1 DEF Leaves, Put

LEMMA AssembledLeaves ==
  ASSUME NEW asm, Sound(asm), NEW packet, NEW frame
  PROVE  Leaves(asm, packet, Assembled(asm, packet, frame))
<1> DEFINE intact == \A b \in DOMAIN frame.blocks : ~frame.blocks[b].damaged
           rest == Without(asm.frames, {packet.key})
<1>1. CASE ~intact
  BY <1>1, ErasedLeaves DEF Assembled
<1>2. CASE intact
  <2>1. Assembled(asm, packet, frame).asm.frames = Evict(rest)
    BY <1>2 DEF Assembled
  <2>2. /\ DOMAIN Evict(rest) \subseteq DOMAIN rest
        /\ \A k \in DOMAIN Evict(rest) : Evict(rest)[k] = rest[k]
    BY DEF Evict, Without
  <2>3. /\ DOMAIN rest = DOMAIN asm.frames \ {packet.key}
        /\ \A k \in DOMAIN rest : rest[k] = asm.frames[k]
    BY DEF Without
  <2> HIDE DEF rest
  <2> QED
    BY <2>1, <2>2, <2>3 DEF Leaves
<1> QED
  BY <1>1, <1>2

\* One block of a frame is put in its place.
LEMMA BlockPut ==
  ASSUME NEW meta, NEW frame \in PartialFrames(meta),
         NEW b \in 0..(meta.blocks - 1), NEW block
  PROVE  LET changed == [frame EXCEPT !.blocks[b] = block]
         IN  /\ DOMAIN changed.blocks = DOMAIN frame.blocks
             /\ changed.blocks[b] = block
             /\ \A a \in DOMAIN frame.blocks : a # b => changed.blocks[a] = frame.blocks[a]
BY DEF PartialFrames

LEMMA PushIntoLeaves ==
  ASSUME NEW asm, Sound(asm), NEW packet \in Packets, Valid(packet),
         Partial(FrameBefore(asm, packet), packet.meta)
  PROVE  Leaves(asm, packet, PushInto(asm, packet, FrameBefore(asm, packet)))
<1> DEFINE frame == FrameBefore(asm, packet)
           old   == frame.blocks[packet.block]
           block == IF old.layout = NoLayout
                    THEN [old EXCEPT !.layout = packet.layout] ELSE old
           next  == [frame EXCEPT !.blocks[packet.block] = block]
           slots == block.shards \cup {packet.shard}
           broken == block.damaged \/ (packet.shard \notin block.shards /\ ~packet.intact)
           kept  == [block EXCEPT !.shards = slots, !.damaged = broken]
           whole == [block EXCEPT !.layout = NoLayout, !.shards = {},
                                  !.damaged = broken, !.recovered = TRUE]
           stays == [frame EXCEPT !.blocks[packet.block] = kept]
           complete == [frame EXCEPT !.blocks[packet.block] = whole]
<1>1. PushInto(asm, packet, frame) =
        IF block.layout # packet.layout THEN Erased(asm, packet)
        ELSE IF block.recovered THEN Stored(asm, packet, next)
        ELSE IF Cardinality(slots) < block.layout.data THEN Stored(asm, packet, stays)
        ELSE IF Incomplete(complete) THEN Stored(asm, packet, complete)
        ELSE Assembled(asm, packet, complete)
  BY Zenon DEF PushInto, Received, Incomplete
<1>2. /\ packet.block \in 0..(packet.meta.blocks - 1)
      /\ packet.layout \in [data : Nat, parity : Nat]
  BY PacketAssumption DEF Valid
<1>3. /\ frame \in PartialFrames(packet.meta) /\ old \in BlockStates
      /\ packet.block \in DOMAIN frame.blocks
  BY <1>2 DEF Partial, PartialFrames
<1> HIDE DEF frame
<1>4. /\ block.recovered = old.recovered /\ block.shards = old.shards
      /\ block.layout = packet.layout => old.layout \in {NoLayout, packet.layout}
      /\ block \in BlockStates
  BY <1>2, <1>3 DEF BlockStates
<1> HIDE DEF old, block
<1>5. CASE block.layout # packet.layout
  BY <1>1, <1>5, ErasedLeaves DEF frame
<1>6. CASE block.layout = packet.layout /\ block.recovered
  <2>1. /\ DOMAIN next.blocks = DOMAIN frame.blocks
        /\ next.blocks[packet.block] = block
        /\ \A b \in DOMAIN frame.blocks :
             b # packet.block => next.blocks[b] = frame.blocks[b]
    BY <1>2, <1>3, BlockPut
  <2> HIDE DEF next
  <2>2. Takes(packet, frame, next)
    BY <1>6, <2>1 DEF Takes
  <2> QED
    BY <1>1, <1>6, <2>2, StoredLeaves DEF frame
<1>7. CASE /\ block.layout = packet.layout /\ ~block.recovered
           /\ Cardinality(slots) < block.layout.data
  <2>1. /\ DOMAIN stays.blocks = DOMAIN frame.blocks
        /\ stays.blocks[packet.block] = kept
        /\ \A b \in DOMAIN frame.blocks :
             b # packet.block => stays.blocks[b] = frame.blocks[b]
    BY <1>2, <1>3, BlockPut
  <2>2. kept.shards = slots /\ kept.layout = block.layout
    BY <1>4 DEF BlockStates
  <2> HIDE DEF stays, kept
  <2>3. Takes(packet, frame, stays)
    BY <1>4, <1>7, <2>1, <2>2 DEF Takes, old
  <2> QED
    BY <1>1, <1>7, <2>3, StoredLeaves DEF frame
<1>8. CASE /\ block.layout = packet.layout /\ ~block.recovered
           /\ ~(Cardinality(slots) < block.layout.data)
  <2>1. /\ DOMAIN complete.blocks = DOMAIN frame.blocks
        /\ complete.blocks[packet.block] = whole
        /\ \A b \in DOMAIN frame.blocks :
             b # packet.block => complete.blocks[b] = frame.blocks[b]
    BY <1>2, <1>3, BlockPut
  <2>2. whole.recovered
    BY <1>4 DEF BlockStates
  <2> HIDE DEF complete, whole
  <2>3. Takes(packet, frame, complete)
    BY <2>1, <2>2 DEF Takes
  <2> QED
    BY <1>1, <1>8, <2>3, StoredLeaves, AssembledLeaves DEF frame
<1> QED
  BY <1>5, <1>6, <1>7, <1>8 DEF frame

LEMMA PushLeaves ==
  ASSUME NEW asm, Sound(asm), NEW packet \in Packets
  PROVE  IF Valid(packet) THEN Leaves(asm, packet, Push(asm, packet))
         ELSE Push(asm, packet).asm = asm
<1>1. CASE ~Valid(packet)
  BY <1>1 DEF Push
<1>2. CASE Valid(packet) /\ packet.key \in DOMAIN asm.completed
  BY <1>2 DEF Push, Leaves, Sound
<1>3. CASE Valid(packet) /\ packet.key \notin DOMAIN asm.completed
  <2> DEFINE frame == FrameBefore(asm, packet)
  <2>1. /\ packet.key \in DOMAIN asm.frames => frame = asm.frames[packet.key]
        /\ packet.key \notin DOMAIN asm.frames => frame = NewFrame(packet)
    BY DEF FrameBefore
  <2>2. packet.key \notin DOMAIN asm.frames => Partial(frame, packet.meta)
    BY <1>3, <2>1, NewFrameIsPartial, PacketAssumption DEF Valid
  <2>3. packet.key \in DOMAIN asm.frames => Partial(frame, frame.meta)
    BY <2>1 DEF Sound
  <2>4. \/ Push(asm, packet) = Erased(asm, packet)
        \/ /\ Push(asm, packet) = PushInto(asm, packet, frame)
           /\ Partial(frame, packet.meta)
    <3> HIDE DEF frame
    <3> QED BY <1>3, <2>1, <2>2, <2>3, Zenon DEF Push
  <2> QED
    BY <1>3, <2>4, ErasedLeaves, PushIntoLeaves
<1> QED
  BY <1>1, <1>2, <1>3

\* The slots of a frame that took the shard.
LEMMA TakesAccounted ==
  ASSUME NEW packet, packet.layout # NoLayout, NEW before, NEW after,
         Takes(packet, before, after), NEW slots, AllAccounted(before, slots)
  PROVE  AllAccounted(after, slots \cup {Slot(packet)})
<1> DEFINE more == slots \cup {Slot(packet)}
<1>1. SUFFICES ASSUME NEW b \in DOMAIN before.blocks
               PROVE  Accounts(after.blocks[b], SlotsOf(more, b))
  BY DEF AllAccounted, Takes
<1>2. /\ Slot(packet).block = packet.block /\ Slot(packet).shard = packet.shard
      /\ Slot(packet).layout = packet.layout
  BY DEF Slot
<1>3. Accounts(before.blocks[b], SlotsOf(slots, b))
  BY DEF AllAccounted
<1>4. CASE b # packet.block
  <2>1. SlotsOf(more, b) = SlotsOf(slots, b)
    BY <1>2, <1>4 DEF SlotsOf
  <2> QED
    BY <1>3, <1>4, <2>1 DEF Takes
<1>5. CASE b = packet.block
  <2> DEFINE old == before.blocks[b]
             new == after.blocks[b]
             mine == SlotsOf(slots, b)
  <2>1. SlotsOf(more, b) = mine \cup {Slot(packet)}
    BY <1>2, <1>5 DEF SlotsOf
  <2> SUFFICES ASSUME ~new.recovered PROVE Accounts(new, mine \cup {Slot(packet)})
    BY <2>1 DEF Accounts
  <2>2. /\ ~old.recovered /\ old.layout \in {NoLayout, packet.layout}
        /\ new.layout = packet.layout
        /\ new.shards = old.shards \cup {packet.shard}
        /\ Cardinality(new.shards) < packet.layout.data
    BY <1>5 DEF Takes
  <2>3. /\ old.shards = {slot.shard : slot \in mine}
        /\ \A slot \in mine : slot.layout = old.layout
        /\ mine # {} => old.layout # NoLayout
    BY <1>3, <2>2 DEF Accounts
  <2> HIDE DEF old, new, mine
  <2>4. \A slot \in mine : slot.layout = packet.layout
    BY <2>2, <2>3
  <2>5. new.shards = {slot.shard : slot \in mine \cup {Slot(packet)}}
    BY <1>2, <2>2, <2>3
  <2> QED
    BY <1>2, <2>2, <2>4, <2>5 DEF Accounts
<1> QED
  BY <1>4, <1>5

\* A new frame has no slots to account for.
LEMMA NewAccounted ==
  ASSUME NEW packet PROVE AllAccounted(NewFrame(packet), {})
<1>1. NewBlock.shards = {}
  BY DEF NewBlock
<1>2. Accounts(NewBlock, {})
  BY <1>1 DEF Accounts
<1>3. \A b : SlotsOf({}, b) = {}
  BY DEF SlotsOf
<1>4. NewFrame(packet).blocks = [b \in 0..(packet.meta.blocks - 1) |-> NewBlock]
  BY DEF NewFrame
<1> QED
  BY <1>2, <1>3, <1>4 DEF AllAccounted

LEMMA PushArrived ==
  ASSUME AInv, ArrivedInv, NEW packet \in Packets, PushPacket(packet)
  PROVE  ArrivedInv'
<1> DEFINE result == Push(assembler, packet)
           mine(k) == IF k = packet.key /\ Valid(packet) THEN {Slot(packet)} ELSE {}
<1>1. /\ assembler' = result.asm
      /\ arrived' = [k \in Keys |-> IF k \in DOMAIN assembler'.frames
                                    THEN arrived[k] \cup mine(k) ELSE {}]
  BY DEF PushPacket, Remember
<1>2. Sound(assembler) /\ Sound(result.asm)
  BY PushPushes DEF AInv, Pushes
<1>3. IF Valid(packet) THEN Leaves(assembler, packet, result)
      ELSE result.asm = assembler
  BY <1>2, PushLeaves
<1> HIDE DEF result
<1>4. ASSUME NEW k \in Keys, k \in DOMAIN assembler'.frames
      PROVE  AllAccounted(assembler'.frames[k], arrived[k] \cup mine(k))
  <2>1. CASE /\ k \in DOMAIN assembler.frames
             /\ assembler'.frames[k] = assembler.frames[k]
             /\ mine(k) = {}
    BY <2>1 DEF ArrivedInv
  <2>2. CASE /\ Valid(packet) /\ k = packet.key
             /\ Takes(packet, FrameBefore(assembler, packet), assembler'.frames[k])
    <3>1. AllAccounted(FrameBefore(assembler, packet), arrived[k])
      BY <2>2, NewAccounted DEF FrameBefore, ArrivedInv
    <3>2. packet.layout # NoLayout
      BY <2>2 DEF Valid, NoLayout
    <3> QED
      BY <2>2, <3>1, <3>2, TakesAccounted
  <2> QED
    BY <1>1, <1>3, <1>4, <2>1, <2>2 DEF Leaves
<1> HIDE DEF mine
<1> QED
  BY <1>1, <1>4 DEF ArrivedInv

\* Frames are only given up.
LEMMA GiveUpArrived ==
  ASSUME ArrivedInv,
         \A k \in DOMAIN assembler'.frames :
           k \in DOMAIN assembler.frames /\ assembler'.frames[k] = assembler.frames[k],
         arrived' = [k \in Keys |-> Remember(k, {})]
  PROVE  ArrivedInv'
<1>1. \A k \in Keys : arrived'[k] = IF k \in DOMAIN assembler'.frames THEN arrived[k] ELSE {}
  BY DEF Remember
<1> QED
  BY <1>1 DEF ArrivedInv

LEMMA TickArrived ==
  ASSUME AInv, ArrivedInv, Tick
  PROVE  ArrivedInv'
<1>1. /\ DOMAIN assembler'.frames = DOMAIN assembler.frames
      /\ \A k \in DOMAIN assembler.frames :
           assembler'.frames[k] = IF assembler.frames[k].age < FrameTimeout
                                  THEN [assembler.frames[k] EXCEPT !.age = @ + 1]
                                  ELSE assembler.frames[k]
  BY DEF Tick, Older
<1>2. ASSUME NEW k \in DOMAIN assembler.frames
      PROVE  assembler'.frames[k].blocks = assembler.frames[k].blocks
  <2>1. assembler.frames[k] \in PartialFrames(assembler.frames[k].meta)
    BY DEF AInv, Sound, Partial
  <2> QED
    BY <1>1, <2>1 DEF PartialFrames
<1>3. arrived' = arrived
  BY DEF Tick
<1> QED
  BY <1>1, <1>2, <1>3 DEF ArrivedInv, AllAccounted

LEMMA NextArrived == AInv /\ ArrivedInv /\ [Next]_vars => ArrivedInv'
<1> SUFFICES ASSUME AInv, ArrivedInv, [Next]_vars PROVE ArrivedInv'
  OBVIOUS
<1>1. CASE ExpireOld
  <2>1. assembler'.frames = Without(assembler.frames, Expired(assembler))
    BY <1>1 DEF ExpireOld, Expire
  <2>2. \A k \in DOMAIN assembler'.frames :
          k \in DOMAIN assembler.frames /\ assembler'.frames[k] = assembler.frames[k]
    BY <2>1 DEF Without
  <2> QED
    BY <1>1, <2>2, GiveUpArrived DEF ExpireOld
<1>2. CASE Reset
  <2>1. DOMAIN assembler'.frames = {}
    BY <1>2 DEF Reset, EmptyAssembler
  <2> QED
    BY <1>2, <2>1 DEF Reset, ArrivedInv
<1>3. CASE UNCHANGED vars
  BY <1>3 DEF vars, ArrivedInv
<1> QED
  BY <1>1, <1>2, <1>3, PushArrived, TickArrived DEF Next

(* A partial frame is not remembered as complete, and of one of its blocks *)
(* too few shards have arrived: push (frame_assembler.cpp:47-141) holds    *)
(* back no frame that it could deliver.                                    *)
THEOREM PartialsAlwaysIncomplete == Spec => []PartialIsIncomplete
<1>1. Init => AInv /\ ArrivedInv
  <2>1. DOMAIN EmptyAssembler.frames = {}
    BY DEF EmptyAssembler
  <2> QED
    BY <2>1, InitAInv DEF Init, ArrivedInv
<1>2. AInv /\ ArrivedInv /\ [Next]_vars => (AInv /\ ArrivedInv)'
  BY NextAInv, NextArrived
<1>3. AInv /\ ArrivedInv => PartialIsIncomplete
  <2> SUFFICES ASSUME AInv, ArrivedInv, NEW k \in DOMAIN assembler.frames
               PROVE  /\ k \notin DOMAIN assembler.completed
                      /\ \E block \in DOMAIN assembler.frames[k].blocks : Misses(k, block)
    BY DEF PartialIsIncomplete
  <2>1. k \in Keys /\ k \notin DOMAIN assembler.completed
    BY DEF AInv, Sound
  <2>2. PICK b \in DOMAIN assembler.frames[k].blocks :
          ~assembler.frames[k].blocks[b].recovered
    BY DEF AInv, Sound, Incomplete
  <2>3. Accounts(assembler.frames[k].blocks[b], SlotsOf(arrived[k], b))
    BY <2>1 DEF ArrivedInv, AllAccounted
  <2>4. Misses(k, b)
    BY <2>2, <2>3 DEF Accounts, SlotsOf, Misses
  <2> QED
    BY <2>1, <2>4
<1> QED
  BY <1>1, <1>2, <1>3, PTL DEF Spec

(* A frame is delivered intact, and its key not again while it is          *)
(* remembered (README.md:286).                                             *)
THEOREM AlwaysDeliveredOnce == Spec => DeliveredOnce
<1> DEFINE Once == delivered' # NoFrame =>
                     /\ delivered'.intact
                     /\ since_delivery[delivered'.key] > CompletedTtl
<1>1. AInv /\ Next => Once
  <2> SUFFICES ASSUME AInv, Next, delivered' # NoFrame PROVE Once
    OBVIOUS
  <2>1. PICK packet \in Packets : PushPacket(packet)
    BY DEF Next, ExpireOld, Reset, Tick
  <2>2. /\ delivered' = RecoveredFrame(packet, TRUE)
        /\ packet.key \in Keys /\ packet.key \notin DOMAIN assembler.completed
    BY <2>1, PushEffect
  <2>3. delivered'.intact /\ delivered'.key = packet.key
    BY <2>2 DEF RecoveredFrame
  <2>4. since_delivery[packet.key] > CompletedTtl
    BY <2>2, AssemblerAssumption DEF AInv, Remembered
  <2> QED
    BY <2>3, <2>4
<1>2. AInv /\ [Next]_vars => [Once]_vars
  BY <1>1
<1> QED
  BY <1>2, AInvHolds, PTL DEF Spec, DeliveredOnce

(* A delivery leaves at most MaxPartialFrames partial frames, the newest.  *)
THEOREM EvictionAlwaysKeepsNewest == Spec => EvictionKeepsNewest
<1> DEFINE Newest ==
      delivered' # NoFrame
        => /\ Cardinality(DOMAIN assembler'.frames) <= MaxPartialFrames
           /\ \A lost \in (DOMAIN assembler.frames
                             \ DOMAIN assembler'.frames) \ {delivered'.key} :
                \A kept \in DOMAIN assembler'.frames : KeyBefore(lost, kept)
<1>1. AInv /\ Next => Newest
  <2> SUFFICES ASSUME AInv, Next, delivered' # NoFrame PROVE Newest
    OBVIOUS
  <2>1. PICK packet \in Packets : PushPacket(packet)
    BY DEF Next, ExpireOld, Reset, Tick
  <2> DEFINE rest == Without(assembler.frames, {packet.key})
  <2>2. delivered' = RecoveredFrame(packet, TRUE) /\ assembler'.frames = Evict(rest)
    BY <2>1, PushEffect
  <2>3. delivered'.key = packet.key
    BY <2>2 DEF RecoveredFrame
  <2>4. DOMAIN rest = DOMAIN assembler.frames \ {packet.key}
    BY DEF Without
  <2>5. DOMAIN rest \subseteq Keys /\ IsFiniteSet(DOMAIN rest)
    <3>1. IsFiniteSet(DOMAIN assembler.frames) /\ DOMAIN assembler.frames \subseteq Keys
      BY DEF AInv, Sound
    <3> QED
      BY <2>4, <3>1, FS_RemoveElement
  <2> HIDE DEF rest
  <2> QED
    BY <2>2, <2>3, <2>4, <2>5, EvictEffect
<1>2. AInv /\ [Next]_vars => [Newest]_vars
  BY <1>1
<1> QED
  BY <1>2, AInvHolds, PTL DEF Spec, EvictionKeepsNewest
=============================================================================
