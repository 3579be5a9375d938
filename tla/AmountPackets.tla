--------------------------- MODULE AmountPackets ---------------------------
(***************************************************************************)
(* The codec of agent messages (agent-messaging/src, and the rows of       *)
(* tools/agent-mail): a text is cut into packets, a packet is packed into  *)
(* a word, and the word, permuted under a key and a nonce, is the hidden   *)
(* amount of a transfer.                                                   *)
(*                                                                         *)
(* Letters are their positions in the alphabet; any other letter is Radix. *)
(* The widths of the fields are parameters.                                *)
(***************************************************************************)
EXTENDS Integers, SequencesExt

CONSTANTS
    Radix,              \* letters of the alphabet: 40
    PayloadChars,       \* PACKET_PAYLOAD_CHARS: 9
    PayloadBits, LenBits, SequenceBits, VersionBits,   \* 48, 4, 7, 2
    Checksum(_),        \* checksum: of a word without it
    ChecksumBits,       \* 2
    HalfBits,           \* 32
    Rounds,             \* ROUNDS: 8
    RoundFunction(_, _, _),   \* round_function under the key: nonce, round, half
    Refused             \* Err(AgentMessageError)

LenShift      == PayloadBits
FinalShift    == LenShift + LenBits
SequenceShift == FinalShift + 1
VersionShift  == SequenceShift + SequenceBits
ChecksumShift == VersionShift + VersionBits

Power(b, n) ==
    LET p[k \in 0..n] == IF k = 0 THEN 1 ELSE b * p[k - 1]
    IN  p[n]

PackChunk(chunk) ==
    LET out[k \in 0..Len(chunk)] == IF k = 0 THEN 0 ELSE out[k - 1] * Radix + chunk[k]
    IN  out[Len(chunk)]

UnpackChunk(value, len) ==
    [i \in 1..len |-> (value \div Power(Radix, len - i)) % Radix]

\* Packet::word.
Word(packet) ==
    LET bare == PackChunk(packet.chunk)
                + Len(packet.chunk) * Power(2, LenShift)
                + (IF packet.final_packet THEN Power(2, FinalShift) ELSE 0)
                + packet.sequence * Power(2, SequenceShift)
    IN  bare + Checksum(bare) * Power(2, ChecksumShift)

Field(word, shift, bits) == (word \div Power(2, shift)) % Power(2, bits)

\* Packet::from_word.
FromWord(word) ==
    LET len     == Field(word, LenShift, LenBits)
        payload == Field(word, 0, PayloadBits)
        bare    == word % Power(2, ChecksumShift)
    IN  IF \/ Checksum(bare) /= Field(word, ChecksumShift, ChecksumBits)
           \/ Field(word, VersionShift, VersionBits) /= 0
           \/ len > PayloadChars
           \/ payload >= Power(Radix, len)
        THEN Refused
        ELSE [sequence     |-> Field(word, SequenceShift, SequenceBits),
              final_packet |-> Field(word, FinalShift, 1) = 1,
              chunk        |-> UnpackChunk(payload, len)]

\* What a packet carries.
Packets == [sequence : Nat, final_packet : BOOLEAN, chunk : Seq(0..Radix - 1)]

ASSUME WidthAssumption ==
    /\ Radix \in Nat \ {0} /\ PayloadChars \in Nat \ {0}
    /\ {PayloadBits, LenBits, SequenceBits, VersionBits, ChecksumBits, HalfBits, Rounds}
          \subseteq Nat
    /\ ChecksumShift + ChecksumBits = 2 * HalfBits
    /\ Power(Radix, PayloadChars) <= Power(2, PayloadBits)
    /\ PayloadChars < Power(2, LenBits)

ASSUME ChecksumAssumption ==
    \A bare \in 0..Power(2, ChecksumShift) - 1 :
        Checksum(bare) \in 0..Power(2, ChecksumBits) - 1

ASSUME RefusedAssumption == Refused \notin Packets /\ Refused \notin Seq(Packets)

\* Mutant: one packet more than its field has numbers.
LastSequenceWide == Power(2, SequenceBits)
LastSequence == Power(2, SequenceBits) - 1

EncodeTextPackets(text) ==
    LET count == IF text = <<>> THEN 1
                 ELSE (Len(text) + PayloadChars - 1) \div PayloadChars
    IN  IF count - 1 > LastSequence \/ \E i \in DOMAIN text : text[i] = Radix
        THEN Refused
        ELSE [i \in 1..count |->
                 [sequence     |-> i - 1,
                  final_packet |-> i * PayloadChars >= Len(text),
                  chunk        |-> SubSeq(text, (i - 1) * PayloadChars + 1,
                                          IF i < count THEN i * PayloadChars ELSE Len(text))]]

\* The number of a packet has one bit less than the u8 it is compared with.
DecodePackets(packets) ==
    IF /\ packets /= <<>>
       /\ \A i \in DOMAIN packets :
             /\ packets[i].sequence = i - 1
             /\ packets[i].final_packet <=> i = Len(packets)
    THEN FlattenSeq([i \in DOMAIN packets |-> packets[i].chunk])
    ELSE Refused

\* The exclusive or of two halves, bit by bit.
OddAt(x, k) == (x \div Power(2, k)) % 2 = 1

Xor(a, b) ==
    LET low[k \in 0..HalfBits] ==
            IF k = 0 THEN 0
            ELSE low[k - 1] + (IF OddAt(a, k - 1) <=> OddAt(b, k - 1) THEN 0 ELSE Power(2, k - 1))
    IN  low[HalfBits]

\* The two halves of a word, and the word of two halves.
Halves(value) == <<value \div Power(2, HalfBits), value % Power(2, HalfBits)>>
Joined(h) == h[1] * Power(2, HalfBits) + h[2]

\* One round of permute64, and of unpermute64.
Mixed(h, nonce, round) == <<h[2], Xor(h[1], RoundFunction(nonce, round, h[2]))>>
Unmixed(h, nonce, round) == <<Xor(h[2], RoundFunction(nonce, round, h[1])), h[1]>>

Permute(value, nonce) ==
    LET h[r \in 0..Rounds] ==
            IF r = 0 THEN Halves(value) ELSE Mixed(h[r - 1], nonce, r - 1)
    IN  Joined(h[Rounds])

Unpermute(value, nonce) ==
    LET h[r \in 0..Rounds] ==
            IF r = 0 THEN Halves(value) ELSE Unmixed(h[r - 1], nonce, Rounds - r)
    IN  Joined(h[Rounds])

\* packet_to_amount: no transfer is of nothing.
ToAmount(packet, nonce) ==
    LET amount == Permute(Word(packet), nonce)
    IN  IF amount = 0 THEN Refused ELSE amount

ToPacket(amount, nonce) ==
    IF amount = 0 THEN Refused ELSE FromWord(Unpermute(amount, nonce))

OrRefused(s) == IF Refused \in ToSet(s) THEN Refused ELSE s

\* Each packet under a nonce of its own.
EncodeAmountRows(text, nonce) ==
    LET packets == EncodeTextPackets(text)
    IN  IF packets = Refused THEN Refused
        ELSE OrRefused([i \in DOMAIN packets |-> ToAmount(packets[i], nonce + i - 1)])

DecodeAmountRows(amounts, nonce) ==
    LET packets == OrRefused([i \in DOMAIN amounts |-> ToPacket(amounts[i], nonce + i - 1)])
    IN  IF packets = Refused THEN Refused ELSE DecodePackets(packets)
=============================================================================
