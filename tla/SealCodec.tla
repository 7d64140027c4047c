------------------------------ MODULE SealCodec ------------------------------
(***************************************************************************)
(* What is written and what is read: the seal in its binary and textual    *)
(* form (crates/rgb-pq-seal/src/seal.rs, types.rs), the commitment payload *)
(* in its OP_RETURN script (crates/rgb-pq-commit/src/commitment.rs) and    *)
(* the txid as text.                                                       *)
(*                                                                         *)
(* A message is a sequence of cells.  A byte is a cell; so is a number, a  *)
(* hash, a magic or a tag of any width, and a length counts cells.  Hashes *)
(* are symbolic.  Reading yields the set of values read: {} is an error.    *)
(***************************************************************************)
EXTENDS Naturals, Sequences, SequencesExt

CONSTANTS
    TxidLength,  \* cells of a txid (32 bytes)
    Dilithium5   \* whether the crate is built with the dilithium5 feature

ASSUME CodecAssumption == TxidLength \in Nat \ {0} /\ Dilithium5 \in BOOLEAN

(* types.rs *)
V0 == 0
Chain == [regtest |-> 1, testnet |-> 2]
DomainStr == [regtest |-> "bitcoin-quantum-regtest", testnet |-> "bitcoin-quantum-testnet"]
Algo == [Dilithium2 |-> 1, Dilithium5 |-> 2]

\* from_byte, of a table of bytes.
FromByte(table, byte) == {k \in DOMAIN table : table[k] = byte}
AlgoUngated(byte) == FromByte(Algo, byte)
AlgoFromByte(byte) == FromByte(Algo, byte) \ (IF Dilithium5 THEN {} ELSE {"Dilithium5"})

\* CommitmentLocator and ConfirmationPolicy: a tag, and a number behind one
\* of the tags.
LocatorTag == [OpretVout |-> 1, OpretFirst |-> 2, P2mrRetLeaf |-> 3]
PolicyTag == [OneConf |-> 1, Depth |-> 2]
Numbered == {"OpretVout", "Depth"}
Tagged(kind, number) == [kind |-> kind, number |-> IF kind \in Numbered THEN number ELSE 0]

EncodeTagged(table, x) ==
    IF x.kind \in Numbered THEN <<table[x.kind], x.number>> ELSE <<table[x.kind]>>

\* decode, of a slice, with the cells used.
DecodeTagged(table, bytes) ==
    IF bytes = <<>> THEN {}
    ELSE {[value |-> Tagged(k, IF k \in Numbered THEN bytes[2] ELSE 0),
           used |-> IF k \in Numbered THEN 2 ELSE 1] :
             k \in {k \in FromByte(table, Head(bytes)) : k \in Numbered => Len(bytes) >= 2}}

\* BtqTxid as text is in reversed byte order.
TxidToText(txid) == Reverse(txid)
TxidUnreversed(text) == IF Len(text) = TxidLength THEN {text} ELSE {}
TxidFromText(text) == IF Len(text) = TxidLength THEN {Reverse(text)} ELSE {}

-----------------------------------------------------------------------------
(* BtqP2mrSeal *)

BinMagic == 80     \* RGBPQSEAL
DomainTag == 81    \* rgbpq:v0
DomainVersion == 0

Prefixed(bytes) == <<Len(bytes)>> \o bytes

BodyBytes(seal) ==
    <<Chain[seal.chain]>> \o seal.txid
    \o <<seal.vout, seal.p2mr_root, seal.script_leaf_hash, Algo[seal.owner_algo]>>
    \o Prefixed(EncodeTagged(LocatorTag, seal.locator))
    \o Prefixed(EncodeTagged(PolicyTag, seal.policy))

ToBinary(seal) == <<BinMagic, V0, DomainTag, DomainVersion>> \o BodyBytes(seal)

\* The position of the locator's length.
LocatorAt == TxidLength + 6

\* A length-prefixed field at pos: the bytes must be there, and be used up.
FieldUnmeasured(table, b, pos) ==
    IF Len(b) < pos \/ Len(b) < pos + b[pos] THEN {}
    ELSE DecodeTagged(table, SubSeq(b, pos + 1, pos + b[pos]))
Field(table, b, pos) ==
    IF Len(b) < pos \/ Len(b) < pos + b[pos] THEN {}
    ELSE {field \in DecodeTagged(table, SubSeq(b, pos + 1, pos + b[pos])) :
             field.used = b[pos]}

\* What follows the policy is not looked at.
DecodeBody(b) ==
    IF Len(b) < LocatorAt - 1 THEN {}
    ELSE UNION {
        {[chain |-> chain,
          txid |-> SubSeq(b, 2, TxidLength + 1),
          vout |-> b[TxidLength + 2],
          p2mr_root |-> b[TxidLength + 3],
          script_leaf_hash |-> b[TxidLength + 4],
          owner_algo |-> algo,
          locator |-> locator.value,
          policy |-> policy.value] :
            chain \in FromByte(Chain, b[1]),
            algo \in AlgoFromByte(b[LocatorAt - 1]),
            policy \in Field(PolicyTag, b, LocatorAt + 1 + locator.used)} :
        locator \in Field(LocatorTag, b, LocatorAt)}

FromBinary(b) ==
    IF Len(b) >= 4 /\ SubSeq(b, 1, 4) = <<BinMagic, V0, DomainTag, DomainVersion>>
    THEN DecodeBody(SubSeq(b, 5, Len(b)))
    ELSE {}

\* from_text, of the data behind the checksum.
FromText(data) == IF data = <<>> THEN {} ELSE DecodeBody(data)

\* The digest of a seal.
DigestOfOutpoint(seal) == <<"sha256", DomainStr[seal.chain], V0, seal.txid, seal.vout>>
CanonicalDigest(seal) == <<"sha256", DomainStr[seal.chain], V0, BodyBytes(seal)>>

-----------------------------------------------------------------------------
(* RgbPqCommitment *)

CommitmentMagic == 82        \* RGBPQCM
CommitmentProtocolTag == 83  \* rgbpq:commitment:v0

NewCommitment(seal, mpc) ==
    [chain |-> seal.chain, seal_txid |-> seal.txid, seal_vout |-> seal.vout, mpc |-> mpc]

\* The binding digest; it does not cover the mpc.
DigestWithoutVout(c) == <<"sha256", DomainStr[c.chain], c.seal_txid>>
SealDigest(c) == <<"sha256", DomainStr[c.chain], c.seal_txid, c.seal_vout>>

EncodeCommitment(c) ==
    <<CommitmentMagic, CommitmentProtocolTag, Chain[c.chain]>> \o c.seal_txid
    \o <<c.seal_vout, c.mpc, SealDigest(c)>>

DecodeCommitment(b) ==
    IF Len(b) # TxidLength + 6 \/ b[1] # CommitmentMagic \/ b[2] # CommitmentProtocolTag
    THEN {}
    ELSE {c \in {[chain |-> chain,
                  seal_txid |-> SubSeq(b, 4, TxidLength + 3),
                  seal_vout |-> b[TxidLength + 4],
                  mpc |-> b[TxidLength + 5]] : chain \in FromByte(Chain, b[3])} :
             b[TxidLength + 6] = SealDigest(c)}

VerifyAgainstSeal(c, seal) ==
    c.chain = seal.chain /\ c.seal_txid = seal.txid /\ c.seal_vout = seal.vout

\* build_op_return_script and strip_op_return: the payload is longer than
\* the 75 bytes of a direct push.
OpReturn == 106
PushData1 == 76
OpReturnScript(payload) == <<OpReturn, PushData1, Len(payload)>> \o payload
Strip(spk) ==
    IF Len(spk) < 2 \/ spk[1] # OpReturn THEN <<>>
    ELSE IF spk[2] < PushData1 /\ Len(spk) = 2 + spk[2] THEN SubSeq(spk, 3, Len(spk))
    ELSE IF spk[2] = PushData1 /\ Len(spk) >= 3 /\ Len(spk) = 3 + spk[3]
         THEN SubSeq(spk, 4, Len(spk))
    ELSE <<>>

DecodeFor(spk, seal) == {c \in DecodeCommitment(Strip(spk)) : VerifyAgainstSeal(c, seal)}

=============================================================================
