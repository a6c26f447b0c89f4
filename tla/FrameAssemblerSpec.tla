-------------------------- MODULE FrameAssemblerSpec --------------------------
(***************************************************************************)
(* The frame assembler on its own: shards of several frames are pushed in  *)
(* any order and any number of times, among them late, damaged and         *)
(* contradictory ones, while time passes and the receive loop expires what *)
(* is old.                                                                 *)
(***************************************************************************)
EXTENDS FrameAssembler

CONSTANT Packets   \* the shards that may arrive

\* The fields of a parsed header are unsigned numbers.
ASSUME PacketAssumption ==
  \A packet \in Packets :
    /\ packet.key \in [session : Nat, epoch : Nat, frame_id : Nat]
    /\ packet.meta.blocks \in Nat
    /\ packet.layout \in [data : Nat, parity : Nat]
    /\ {packet.block, packet.shard} \subseteq Nat
    /\ packet.intact \in BOOLEAN

VARIABLES
  assembler,
  delivered,       \* what the last push returned
  since_delivery,  \* ticks since a key was last delivered; Never at first
  arrived          \* history: the slots of a partial frame that have arrived

vars == <<assembler, delivered, since_delivery, arrived>>

Keys  == {packet.key : packet \in Packets}
Never == CompletedTtl + 1

Init ==
  /\ assembler = EmptyAssembler
  /\ delivered = NoFrame
  /\ since_delivery = [k \in Keys |-> Never]
  /\ arrived = [k \in Keys |-> {}]

\* What arrived counts from a frame's first shard until it leaves the map.
Slot(packet) ==
  [block |-> packet.block, shard |-> packet.shard, layout |-> packet.layout]
Remember(k, slots) ==
  IF k \in DOMAIN assembler'.frames THEN arrived[k] \cup slots ELSE {}

PushPacket(packet) ==
  LET result == Push(assembler, packet)
  IN  /\ assembler' = result.asm
      /\ delivered' = result.frame
      /\ since_delivery' =
           IF result.frame = NoFrame THEN since_delivery
           ELSE [since_delivery EXCEPT ![result.frame.key] = 0]
      /\ arrived' = [k \in Keys |->
           Remember(k, IF k = packet.key /\ Valid(packet)
                       THEN {Slot(packet)} ELSE {})]

ExpireOld ==
  /\ assembler' = Expire(assembler)
  /\ delivered' = NoFrame
  /\ arrived' = [k \in Keys |-> Remember(k, {})]
  /\ UNCHANGED since_delivery

\* reset: a new media session forgets everything.
Reset ==
  /\ assembler' = EmptyAssembler
  /\ delivered' = NoFrame
  /\ since_delivery' = [k \in Keys |-> Never]
  /\ arrived' = [k \in Keys |-> {}]

Tick ==
  /\ assembler' = Older(assembler)
  /\ since_delivery' = [k \in Keys |->
       IF since_delivery[k] < Never THEN since_delivery[k] + 1 ELSE Never]
  /\ delivered' = NoFrame
  /\ UNCHANGED arrived

Next == (\E packet \in Packets : PushPacket(packet)) \/ ExpireOld \/ Reset \/ Tick

\* Fairness: the receive loop expires after every packet and every 2 ms
\* without one, and time passes.  Nothing is assumed of the packets.
Spec == Init /\ [][Next]_vars /\ WF_vars(ExpireOld) /\ WF_vars(Tick)

-----------------------------------------------------------------------------
(* Type correctness: ages, slots and blocks are in range. *)
TypeOK ==
  /\ DOMAIN assembler.frames \subseteq Keys
  /\ DOMAIN assembler.completed \subseteq Keys
  /\ \A k \in DOMAIN assembler.frames :
       /\ assembler.frames[k].age \in 0..FrameTimeout
       /\ \A b \in DOMAIN assembler.frames[k].blocks :
            LET block == assembler.frames[k].blocks[b]
            IN  /\ block.shards \subseteq 0..(block.layout.data + block.layout.parity - 1)
                /\ Cardinality(block.shards) <= block.layout.data
  /\ \A k \in DOMAIN assembler.completed :
       assembler.completed[k] \in 0..(CompletedTtl + 1)

\* The shards of a block of k that have arrived are too few to recover it: any
\* `data` different ones would do.
Misses(k, block) ==
  LET slots == {slot \in arrived[k] : slot.block = block}
  IN  \A slot \in slots :
        Cardinality({other.shard : other \in slots}) < slot.layout.data

(* A frame waits for no shard it could do without: what is held as partial *)
(* is not remembered as complete already, and of one of its blocks too few *)
(* different shards have arrived, however late, repeated, damaged and      *)
(* contradictory ones came between.  A frame that is held longer than that *)
(* expires 450 ms later, is counted as lost and freezes the picture.       *)
PartialIsIncomplete ==
  \A k \in DOMAIN assembler.frames :
    /\ k \notin DOMAIN assembler.completed
    /\ \E block \in DOMAIN assembler.frames[k].blocks : Misses(k, block)

(* README.md:286-287 "It never forwards incomplete or CRC-invalid frames": *)
(* every delivery has every byte as the sender made it, and a key is       *)
(* delivered at most once while completed_ remembers it (2 s), whatever    *)
(* late and repeated shards arrive.                                        *)
DeliveredOnce ==
  [][ delivered' # NoFrame
      => /\ delivered'.intact
         /\ since_delivery[delivered'.key] > CompletedTtl ]_vars

(* A delivery leaves at most MaxPartialFrames partial frames behind, and   *)
(* the ones it gives up are older in key order than those it keeps.        *)
EvictionKeepsNewest ==
  [][ delivered' # NoFrame
      => /\ Cardinality(DOMAIN assembler'.frames) <= MaxPartialFrames
         /\ \A lost \in (DOMAIN assembler.frames
                           \ DOMAIN assembler'.frames) \ {delivered'.key} :
              \A kept \in DOMAIN assembler'.frames : KeyBefore(lost, kept) ]_vars

(* A frame that never completes is given up: its age is that of its first  *)
(* shard, so a stream of late or repeated shards cannot hold it.           *)
PartialsEnd ==
  \A k \in Keys :
    k \in DOMAIN assembler.frames ~> k \notin DOMAIN assembler.frames
=============================================================================
