------------------------------- MODULE FecLayout -------------------------------
(***************************************************************************)
(* How a frame is cut into Reed-Solomon blocks and shards: encode_blocks,  *)
(* encode_block and maximum_data_shards of src/fec/reed_solomon.cpp, and   *)
(* what decode asks of a block.  Only the sizes are modelled; the coding   *)
(* itself is ISA-L's.  A parity ratio is given in hundredths.              *)
(***************************************************************************)
EXTENDS Integers

CONSTANTS
  TargetShardBytes,   \* kTargetShardBytes, 1000
  MaxShards,          \* kMaxShards, 255
  MaxBlocks           \* 64, in encode_frame_packets

ASSUME FecAssumption ==
  /\ TargetShardBytes \in Nat \ {0}
  /\ MaxShards \in Nat \ {0}
  /\ MaxBlocks \in Nat

CeilDiv(a, b) == (a + b - 1) \div b

AtLeast(least, a) == IF a < least THEN least ELSE a
AtMost(most, a) == IF a > most THEN most ELSE a

ParityShards(data, ratio) == AtLeast(1, CeilDiv(data * ratio, 100))

\* Mutant: the parity shards are not counted.
DataShardsAlone(ratio) == MaxShards - 1

\* The most data shards of a block, 0 if the ratio leaves room for none.
MaximumDataShards(ratio) ==
  CHOOSE d \in 0..(MaxShards - 1) :
    /\ d > 0 => d + ParityShards(d, ratio) <= MaxShards
    /\ \A e \in (d + 1)..(MaxShards - 1) : e + ParityShards(e, ratio) > MaxShards

DataShards(size, minimum) == AtLeast(minimum, CeilDiv(size, TargetShardBytes))

EncodeBlock(size, ratio, minimum) ==
  LET data == DataShards(size, minimum)
  IN  [original_size |-> size, data |-> data, parity |-> ParityShards(data, ratio),
       shard_size |-> CeilDiv(size, data)]

MaximumBlockBytes(ratio) == MaximumDataShards(ratio) * TargetShardBytes

\* Neither encode_blocks nor encode_block throws.
Encodes(size, ratio, minimum) ==
  /\ size > 0 /\ ratio >= 0 /\ minimum > 0
  /\ minimum <= MaximumDataShards(ratio)

BlockSize(size, ratio, i) ==
  AtMost(MaximumBlockBytes(ratio), size - (i - 1) * MaximumBlockBytes(ratio))

EncodeBlocks(size, ratio, minimum) ==
  [i \in 1..CeilDiv(size, MaximumBlockBytes(ratio)) |->
     EncodeBlock(BlockSize(size, ratio, i), ratio, minimum)]

\* What decode asks of a block, and the payload a datagram has room for.
Decodable(block) ==
  /\ block.data > 0 /\ block.parity > 0
  /\ block.data + block.parity <= MaxShards
  /\ block.shard_size > 0 /\ block.shard_size <= TargetShardBytes
  /\ block.original_size <= block.data * block.shard_size
=============================================================================
