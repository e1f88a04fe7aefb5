------------------------------ MODULE Checksum ------------------------------
(***************************************************************************)
(* ChecksumEngine of src/core/checksum.cpp, over bytes of ByteBase values  *)
(* and words of two bytes: whole checksums of headers and segments, and    *)
(* the incremental updates for packets that are rewritten on their way.    *)
(* Words are read as they lie in memory, lower byte first; the sum of the  *)
(* code has 64 bits and cannot overflow for any length a packet has.       *)
(***************************************************************************)
EXTENDS Integers, Sequences, Functions

CONSTANTS
  ByteBase,                 \* 256
  DataLength, SegmentLength \* the longest data and segments looked at

ASSUME ChecksumAssumption ==
  /\ ByteBase \in Nat /\ ByteBase >= 2
  /\ DataLength \in Nat /\ SegmentLength \in Nat

Byte == 0 .. ByteBase - 1
WordBase == ByteBase * ByteBase
Word == 0 .. WordBase - 1

\* A trailing odd byte counts as a word of its own.
Words(data) ==
  [i \in 1 .. (Len(data) + 1) \div 2 |->
     data[2 * i - 1] + IF 2 * i <= Len(data) THEN ByteBase * data[2 * i] ELSE 0]

SumOf(words) == SumFunction(words)

\* while (sum >> 16): the carries are added in again.
Folded[sum \in Nat] ==
  IF sum < WordBase THEN sum ELSE Folded[(sum % WordBase) + (sum \div WordBase)]

\* ~sum, cut to a word.
Complement(word) == WordBase - 1 - word

\* Mutant of ComputeChecksum: the carries of the first fold are lost.
ComputeChecksumFoldedOnce(data) ==
  LET sum == SumOf(Words(data))
  IN Complement(((sum % WordBase) + (sum \div WordBase)) % WordBase)

ComputeChecksum(data) == Complement(Folded[SumOf(Words(data))])

\* Mutant of PseudoHeader: the zero byte is left out, and with it the alignment.
PseudoHeaderShort(src, dst, proto, length) ==
  src \o dst \o <<proto, (length \div ByteBase) % ByteBase, length % ByteBase>>

\* Addresses in network order, protocol, and the length cut to a word.
PseudoHeader(src, dst, proto, length) ==
  src \o dst \o <<0, proto, (length \div ByteBase) % ByteBase, length % ByteBase>>

\* compute_tcp_checksum and compute_udp_checksum, which differ in proto.
TransportChecksum(src, dst, proto, data) ==
  Complement(Folded[SumOf(Words(PseudoHeader(src, dst, proto, Len(data))))
                      + SumOf(Words(data))])

\* Mutant of UpdateChecksum16: HC' = HC + m + ~m', the formula of RFC 1141.
UpdateChecksum1141(old_csum, old_val, new_val) ==
  Folded[old_csum + old_val + Complement(new_val)]

UpdateChecksum16(old_csum, old_val, new_val) ==
  Complement(Folded[Complement(old_csum) + Complement(old_val) + new_val])

\* Mutant of UpdateChecksum32: the lower words update the old checksum.
UpdateChecksum32Restarted(old_csum, old_val, new_val) ==
  UpdateChecksum16(old_csum, old_val % WordBase, new_val % WordBase)

UpdateChecksum32(old_csum, old_val, new_val) ==
  UpdateChecksum16(
    UpdateChecksum16(old_csum, old_val \div WordBase, new_val \div WordBase),
    old_val % WordBase, new_val % WordBase)

-----------------------------------------------------------------------------
DataUpTo(n) == UNION {[1 .. k -> Byte] : k \in 0 .. n}

\* Data with word i replaced.
Rewritten(data, i, word) ==
  [data EXCEPT ![2 * i - 1] = word % ByteBase, ![2 * i] = word \div ByteBase]

\* One's complement arithmetic has two zeros.  Only data that are all zero have
\* the checksum -0, and there an update may leave +0 in its place.
Checksums(data) ==
  {ComputeChecksum(data)} \cup (IF \A i \in DOMAIN data : data[i] = 0 THEN {0} ELSE {})

\* Updating agrees with computing anew: a word of the data rewritten in any way,
\* any number of times, each time with an update of the checksum, leaves a
\* checksum of the data as they are now.
UpdateAgrees(n) ==
  \A data \in DataUpTo(n) : \A i \in 1 .. Len(data) \div 2, word \in Word :
    \A csum \in Checksums(data) :
      UpdateChecksum16(csum, Words(data)[i], word) \in Checksums(Rewritten(data, i, word))

\* The same for two words at once, an address say.
Update32Agrees(n) ==
  \A data \in DataUpTo(n) : \A i \in 1 .. Len(data) \div 2 - 1, high, low \in Word :
    \A csum \in Checksums(data) :
      UpdateChecksum32(csum, Words(data)[i] * WordBase + Words(data)[i + 1],
                       high * WordBase + low)
        \in Checksums(Rewritten(Rewritten(data, i, high), i + 1, low))

\* A receiver that sums up a header with its checksum in it gets zero.
Verifies(n) ==
  \A data \in DataUpTo(n) : \A i \in 1 .. Len(data) \div 2 :
    ComputeChecksum(Rewritten(data, i, ComputeChecksum(Rewritten(data, i, 0)))) = 0

\* The checksum of a segment is that of the bytes of pseudo header and segment
\* together, odd lengths included, so a receiver may sum them in one piece.
TransportIsOneSum(n) ==
  \A data \in DataUpTo(n), src, dst \in [1 .. 4 -> {0, ByteBase - 1}], proto \in Byte :
    TransportChecksum(src, dst, proto, data) =
      ComputeChecksum(PseudoHeader(src, dst, proto, Len(data)) \o data)
=============================================================================
