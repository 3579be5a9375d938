---------------------------- MODULE MessageText ----------------------------
(***************************************************************************)
(* A text grows by one letter at a time.  At every length it is cut into   *)
(* packets, and each packet is made an amount (agent-mail's encode), and   *)
(* back.                                                                   *)
(***************************************************************************)
EXTENDS AmountPackets

CONSTANTS
    MaxText,       \* bound: letters of a text
    Nonces         \* bound: nonces of a message

VARIABLE text      \* the text of a message

TextInit == text = <<>>

AddLetter ==
    /\ Len(text) < MaxText
    /\ \E letter \in 0..Radix : text' = Append(text, letter)

TextSpec == TextInit /\ [][AddLetter]_text

-----------------------------------------------------------------------------
(* Properties *)

\* A text is refused for a letter or its length only; a packet survives its word
\* and its amount, and a text its rows; and of all streams of a text's packets,
\* with packets lost, repeated or out of order, only the whole one in its order
\* is taken (decode_packets, tests amount_roundtrips, framed_text_roundtrips).
OnlyWholeTextsDecode ==
    LET packets == EncodeTextPackets(text)
    IN  IF packets = Refused
        THEN Len(text) > PayloadChars * Power(2, SequenceBits) \/ Radix \in ToSet(text)
        ELSE /\ \A i \in DOMAIN packets :
                   /\ FromWord(Word(packets[i])) = packets[i]
                   /\ \A nonce \in Nonces :
                         LET amount == ToAmount(packets[i], nonce)
                         IN  amount /= Refused => ToPacket(amount, nonce) = packets[i]
             /\ \A nonce \in Nonces :
                   LET amounts == EncodeAmountRows(text, nonce)
                   IN  amounts /= Refused => DecodeAmountRows(amounts, nonce) = text
             /\ \A n \in 0..Len(packets) + 1 :
                   \A s \in [1..n -> DOMAIN packets] :
                       DecodePackets([i \in 1..n |-> packets[s[i]]])
                           = IF n = Len(packets) /\ \A i \in 1..n : s[i] = i
                             THEN text ELSE Refused
=============================================================================
