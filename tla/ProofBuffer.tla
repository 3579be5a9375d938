---------------------------- MODULE ProofBuffer ----------------------------
(***************************************************************************)
(* The staging account for proofs too deep for one transaction: a header   *)
(* (total_len, bytes_written) and a payload that writes fill in any order. *)
(* lazy-claim and megadrop keep one per (claimant, payer) with the same    *)
(* layout and the same code.                                               *)
(*                                                                         *)
(* Data abstraction: a 32-byte sibling hash is one element of Siblings,    *)
(* and offsets and lengths count siblings.                                 *)
(***************************************************************************)
EXTENDS Integers, Sequences

CONSTANTS
    Siblings,        \* sibling hashes that anyone may stage
    Blank,           \* the zero bytes of a fresh buffer
    BufferLens,      \* the total_len values buffers are allocated with
    NoBuffer         \* a buffer PDA that does not exist

ASSUME LengthAssumption == BufferLens \subseteq Nat
ASSUME BlankAssumption == Blank \notin Siblings

\* ProofBufferHeader plus payload.
Buffers ==
    UNION {[total_len : {n}, bytes_written : 0..n,
            data : [1..n -> Siblings \cup {Blank}]] : n \in BufferLens}

NewBuffer(n) ==
    [total_len |-> n, bytes_written |-> 0, data |-> [i \in 1..n |-> Blank]]

\* Mutant: bytes_written follows the last write instead of the furthest.
RewindingWrite(b, off, bytes) ==
    LET end == off + Len(bytes)
    IN  [total_len     |-> b.total_len,
         bytes_written |-> end,
         data          |-> [i \in 1..b.total_len |->
                              IF off < i /\ i <= end THEN bytes[i - off] ELSE b.data[i]]]

\* data[off..end] := bytes; the high-water mark becomes max(prev, end).
WriteInto(b, off, bytes) ==
    LET end == off + Len(bytes)
    IN  [total_len     |-> b.total_len,
         bytes_written |-> IF end > b.bytes_written THEN end ELSE b.bytes_written,
         data          |-> [i \in 1..b.total_len |->
                              IF off < i /\ i <= end THEN bytes[i - off] ELSE b.data[i]]]

StagedProof(b, proofLen) == [i \in 1..proofLen |-> b.data[i]]

\* The header checks of claim_from_buffer before it reads the payload.
BufferReady(b, proofLen) == proofLen <= b.total_len /\ proofLen <= b.bytes_written

ASSUME NoBufferAssumption == NoBuffer \notin Buffers
=============================================================================
