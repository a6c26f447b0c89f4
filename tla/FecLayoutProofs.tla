---------------------------- MODULE FecLayoutProofs ----------------------------
(***************************************************************************)
(* The split of a frame into blocks, for every frame size, parity ratio    *)
(* and minimum of data shards that encode_blocks accepts.                  *)
(***************************************************************************)
EXTENDS FecLayout, TLAPS

-----------------------------------------------------------------------------
(* Rounding up. *)

\* CeilDiv is the least number of parts of size b that hold a.
LEMMA CeilDivHolds ==
  ASSUME NEW a \in Nat, NEW b \in Nat \ {0}
  PROVE  /\ CeilDiv(a, b) \in Nat
         /\ a <= b * CeilDiv(a, b)
         /\ b * CeilDiv(a, b) < a + b
BY DEF CeilDiv

\* No fewer parts do.
LEMMA CeilDivLeast ==
  ASSUME NEW a \in Nat, NEW b \in Nat \ {0}, NEW c \in Nat, a <= b * c
  PROVE  CeilDiv(a, b) <= c
BY DEF CeilDiv

\* The parity shards are at least one, and grow with the data shards.
LEMMA ParityGrows ==
  ASSUME NEW ratio \in Nat, NEW d \in Nat, NEW e \in Nat, d <= e
  PROVE  /\ ParityShards(d, ratio) \in Nat \ {0}
         /\ ParityShards(d, ratio) <= ParityShards(e, ratio)
<1>1. d * ratio \in Nat /\ e * ratio \in Nat /\ d * ratio <= e * ratio
  OBVIOUS
<1>2. /\ CeilDiv(d * ratio, 100) \in Nat
      /\ CeilDiv(e * ratio, 100) \in Nat
      /\ e * ratio <= 100 * CeilDiv(e * ratio, 100)
  <2>1. \A a \in Nat : CeilDiv(a, 100) \in Nat /\ a <= 100 * CeilDiv(a, 100)
    BY CeilDivHolds
  <2> QED
    BY <1>1, <2>1
<1>3. CeilDiv(d * ratio, 100) <= CeilDiv(e * ratio, 100)
  BY <1>1, <1>2, CeilDivLeast
<1> QED
  BY <1>2, <1>3 DEF ParityShards, AtLeast

\* Data shards and their parity shards fit in n exactly when there is room for
\* one parity shard and the ratio does not ask for more.
LEMMA FitsWhen ==
  ASSUME NEW ratio \in Nat, NEW d \in Nat, NEW n \in Nat
  PROVE  d + ParityShards(d, ratio) <= n <=> d + 1 <= n /\ d * (100 + ratio) <= 100 * n
<1> DEFINE parity == CeilDiv(d * ratio, 100)
<1>1. d * ratio \in Nat
  OBVIOUS
<1>2. parity \in Nat /\ d * ratio <= 100 * parity
  BY <1>1, CeilDivHolds
<1>3. ASSUME d + 1 <= n, d * ratio <= 100 * (n - d)
      PROVE  parity <= n - d
  BY <1>1, <1>3, CeilDivLeast
<1>4. d * (100 + ratio) = 100 * d + d * ratio
  OBVIOUS
<1>5. d * (100 + ratio) <= 100 * n <=> d * ratio <= 100 * (n - d)
  BY <1>1, <1>4
<1>6. ParityShards(d, ratio) = IF parity < 1 THEN 1 ELSE parity
  BY DEF ParityShards, AtLeast
<1> HIDE DEF parity
<1>7. CASE d + 1 <= n /\ d * ratio <= 100 * (n - d)
  BY <1>2, <1>3, <1>5, <1>6, <1>7
<1>8. CASE ~(d + 1 <= n /\ d * ratio <= 100 * (n - d))
  BY <1>1, <1>2, <1>5, <1>6, <1>8
<1> QED
  BY <1>7, <1>8

-----------------------------------------------------------------------------
(* The loop of maximum_data_shards finds what it looks for. *)

\* The parity ratio leaves room for MaximumDataShards data shards.
LEMMA MaximumFits ==
  ASSUME NEW ratio \in Nat
  PROVE  /\ MaximumDataShards(ratio) \in 0..(MaxShards - 1)
         /\ MaximumDataShards(ratio) > 0 =>
              MaximumDataShards(ratio) + ParityShards(MaximumDataShards(ratio), ratio)
                <= MaxShards
<1> DEFINE quotient == (100 * MaxShards) \div (100 + ratio)
           w == AtMost(MaxShards - 1, quotient)
<1>1. /\ quotient \in Nat
      /\ quotient * (100 + ratio) <= 100 * MaxShards
      /\ 100 * MaxShards < (quotient + 1) * (100 + ratio)
  BY FecAssumption
<1>2. w \in 0..(MaxShards - 1) /\ w <= quotient /\ (w = quotient \/ w = MaxShards - 1)
  BY <1>1, FecAssumption DEF AtMost
<1> HIDE DEF w, quotient
<1>3. w * (100 + ratio) <= 100 * MaxShards
  <2>1. w * (100 + ratio) <= quotient * (100 + ratio)
    BY <1>1, <1>2
  <2> QED
    BY <2>1, <1>1, <1>2, FecAssumption
<1>4. w + ParityShards(w, ratio) <= MaxShards
  BY <1>2, <1>3, FitsWhen, FecAssumption
<1>5. ASSUME NEW e \in (w + 1)..(MaxShards - 1)
      PROVE  e + ParityShards(e, ratio) > MaxShards
  <2>1. e \in Nat /\ w = quotient /\ quotient + 1 <= e
    BY <1>1, <1>2, FecAssumption
  <2>2. (quotient + 1) * (100 + ratio) <= e * (100 + ratio)
    BY <1>1, <2>1
  <2>3. ~(e * (100 + ratio) <= 100 * MaxShards)
    BY <1>1, <2>1, <2>2, FecAssumption
  <2>4. ParityShards(e, ratio) \in Nat
    BY <2>1, ParityGrows
  <2> QED
    BY <2>1, <2>3, <2>4, FitsWhen, FecAssumption
<1>6. \E d \in 0..(MaxShards - 1) :
        /\ d > 0 => d + ParityShards(d, ratio) <= MaxShards
        /\ \A e \in (d + 1)..(MaxShards - 1) : e + ParityShards(e, ratio) > MaxShards
  BY <1>2, <1>4, <1>5
<1> QED
  BY <1>6 DEF MaximumDataShards

-----------------------------------------------------------------------------
(* Blocks. *)

\* A block of at most MaximumBlockBytes can be decoded.
LEMMA BlockIsDecodable ==
  ASSUME NEW size \in Nat \ {0}, NEW ratio \in Nat, NEW minimum \in Nat \ {0},
         minimum <= MaximumDataShards(ratio),
         size <= MaximumBlockBytes(ratio)
  PROVE  Decodable(EncodeBlock(size, ratio, minimum))
<1> DEFINE most == MaximumDataShards(ratio)
           filled == CeilDiv(size, TargetShardBytes)
           data == DataShards(size, minimum)
           shard_size == CeilDiv(size, data)
           parity == ParityShards(data, ratio)
<1>1. most \in Nat /\ most > 0 /\ most + ParityShards(most, ratio) <= MaxShards
  BY MaximumFits, FecAssumption
<1>2. filled \in Nat /\ size <= TargetShardBytes * filled
  BY CeilDivHolds, FecAssumption
<1>3. filled <= most
  <2>1. size <= TargetShardBytes * most
    BY <1>1, FecAssumption DEF MaximumBlockBytes
  <2> QED
    BY <2>1, <1>1, CeilDivLeast, FecAssumption
<1>4. data \in Nat \ {0} /\ data <= most /\ filled <= data
  BY <1>1, <1>2, <1>3 DEF DataShards, AtLeast
<1>5. size <= TargetShardBytes * data
  <2>1. TargetShardBytes * filled <= TargetShardBytes * data
    BY <1>2, <1>4, FecAssumption
  <2> QED
    BY <2>1, <1>2, <1>4, FecAssumption
<1>6. shard_size \in Nat /\ size <= data * shard_size
  BY <1>4, CeilDivHolds
<1>7. shard_size <= TargetShardBytes
  <2>1. size <= data * TargetShardBytes
    BY <1>4, <1>5, FecAssumption
  <2> QED
    BY <2>1, <1>4, CeilDivLeast, FecAssumption
<1>8. shard_size > 0
  BY <1>4, <1>6
<1>9. parity \in Nat \ {0} /\ data + parity <= MaxShards
  <2>1. /\ parity \in Nat \ {0}
        /\ parity <= ParityShards(most, ratio)
    BY <1>1, <1>4, ParityGrows
  <2>2. ParityShards(most, ratio) \in Nat
    BY <1>1, ParityGrows
  <2> QED
    BY <2>1, <2>2, <1>1, <1>4, FecAssumption
<1>10. EncodeBlock(size, ratio, minimum) =
         [original_size |-> size, data |-> data, parity |-> parity,
          shard_size |-> shard_size]
  BY DEF EncodeBlock
<1> HIDE DEF data, shard_size, parity
<1> QED
  BY <1>4, <1>6, <1>7, <1>8, <1>9, <1>10 DEF Decodable

\* No block of a frame is empty or too large.
LEMMA BlockSizeFits ==
  ASSUME NEW size \in Nat \ {0}, NEW bytes \in Nat \ {0},
         NEW i \in 1..CeilDiv(size, bytes)
  PROVE  /\ AtMost(bytes, size - (i - 1) * bytes) \in Nat \ {0}
         /\ AtMost(bytes, size - (i - 1) * bytes) <= bytes
<1>1. CeilDiv(size, bytes) \in Nat /\ bytes * CeilDiv(size, bytes) < size + bytes
  BY CeilDivHolds
<1>2. i \in Nat /\ i >= 1 /\ i <= CeilDiv(size, bytes)
  BY <1>1
<1>3. bytes * i <= bytes * CeilDiv(size, bytes)
  BY <1>1, <1>2
<1>4. (i - 1) * bytes = bytes * i - bytes /\ bytes * i \in Nat
  BY <1>2
<1>5. (i - 1) * bytes < size
  BY <1>1, <1>3, <1>4
<1> QED
  BY <1>2, <1>4, <1>5 DEF AtMost

\* Every block that encode_blocks makes of a frame can be decoded, and no shard
\* is larger than the payload of a datagram, whatever the size of the frame, the
\* parity ratio and the minimum of data shards: reed_solomon.cpp:109-135 never
\* gives what reed_solomon.cpp:147-152 refuses.
THEOREM EveryBlockIsDecodable ==
  ASSUME NEW size \in Nat, NEW ratio \in Nat, NEW minimum \in Nat,
         Encodes(size, ratio, minimum)
  PROVE  \A i \in 1..CeilDiv(size, MaximumBlockBytes(ratio)) :
           Decodable(EncodeBlocks(size, ratio, minimum)[i])
<1> SUFFICES ASSUME NEW i \in 1..CeilDiv(size, MaximumBlockBytes(ratio))
             PROVE  Decodable(EncodeBlocks(size, ratio, minimum)[i])
  OBVIOUS
<1>1. /\ size \in Nat \ {0} /\ minimum \in Nat \ {0}
      /\ minimum <= MaximumDataShards(ratio)
  BY DEF Encodes
<1>2. MaximumDataShards(ratio) \in Nat \ {0}
  BY <1>1, MaximumFits, FecAssumption
<1>3. MaximumBlockBytes(ratio) \in Nat \ {0}
  BY <1>2, FecAssumption DEF MaximumBlockBytes
<1>4. /\ BlockSize(size, ratio, i) \in Nat \ {0}
      /\ BlockSize(size, ratio, i) <= MaximumBlockBytes(ratio)
  BY <1>1, <1>3, BlockSizeFits DEF BlockSize
<1>5. EncodeBlocks(size, ratio, minimum)[i] =
        EncodeBlock(BlockSize(size, ratio, i), ratio, minimum)
  BY DEF EncodeBlocks
<1> QED
  BY <1>1, <1>4, <1>5, BlockIsDecodable

\* The blocks are the frame, none left out and none twice: each block before the
\* last is full, and they add up to the frame with the last.
THEOREM BlocksAreTheFrame ==
  ASSUME NEW size \in Nat, NEW ratio \in Nat, NEW minimum \in Nat,
         Encodes(size, ratio, minimum)
  PROVE  LET last == CeilDiv(size, MaximumBlockBytes(ratio))
         IN  /\ last \in Nat \ {0}
             /\ \A i \in 1..(last - 1) :
                  BlockSize(size, ratio, i) = MaximumBlockBytes(ratio)
             /\ (last - 1) * MaximumBlockBytes(ratio) + BlockSize(size, ratio, last) = size
<1> DEFINE bytes == MaximumBlockBytes(ratio)
           last == CeilDiv(size, bytes)
<1>1. size \in Nat \ {0} /\ bytes \in Nat \ {0}
  BY MaximumFits, FecAssumption DEF Encodes, MaximumBlockBytes
<1>2. last \in Nat /\ size <= bytes * last /\ bytes * last < size + bytes
  BY <1>1, CeilDivHolds
<1> HIDE DEF last
<1>3. last \in Nat \ {0}
  BY <1>1, <1>2
<1>4. ASSUME NEW i \in 1..(last - 1)
      PROVE  BlockSize(size, ratio, i) = bytes
  <2>1. i \in Nat /\ i + 1 <= last
    BY <1>3
  <2>2. bytes * (i + 1) <= bytes * last /\ bytes * (i + 1) = i * bytes + bytes
    BY <1>1, <1>3, <2>1
  <2>3. (i - 1) * bytes = i * bytes - bytes
    BY <1>1, <2>1
  <2>4. bytes <= size - (i - 1) * bytes
    BY <1>1, <1>2, <2>1, <2>2, <2>3
  <2>5. BlockSize(size, ratio, i) = AtMost(bytes, size - (i - 1) * bytes)
    BY DEF BlockSize
  <2> QED
    BY <1>1, <2>1, <2>3, <2>4, <2>5 DEF AtMost
<1>5. (last - 1) * bytes + BlockSize(size, ratio, last) = size
  <2>1. (last - 1) * bytes = bytes * last - bytes /\ bytes * last \in Nat
    BY <1>1, <1>3
  <2>2. BlockSize(size, ratio, last) = AtMost(bytes, size - (last - 1) * bytes)
    BY DEF BlockSize
  <2> QED
    BY <1>1, <1>2, <1>3, <2>1, <2>2 DEF AtMost
<1> QED
  BY <1>3, <1>4, <1>5 DEF last
=============================================================================
