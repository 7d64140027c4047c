----------------------------- MODULE SealExchange -----------------------------
(***************************************************************************)
(* A party builds a P2MR tree, makes a seal of its root and hands it to    *)
(* another one; the closer's commitment payload and a txid take the same   *)
(* way.  What arrives may be cut, prolonged or altered, as the malformed   *)
(* inputs of the tests in crates/rgb-pq-seal/src/seal.rs and property.rs   *)
(* and crates/rgb-pq-commit/src/commitment.rs are.                         *)
(*                                                                         *)
(* The modules P2mrTree and SealCodec compute; this one relates what one   *)
(* side computes to what the other does.                                   *)
(***************************************************************************)
EXTENDS P2mrTree, SealCodec

CONSTANTS
    PqScripts,    \* ownership scripts
    Scripts,      \* commitment scripts
    Mpcs, Txids, Numbers, LeafHash,
    Junk,         \* what is left of a damaged hash
    Others,       \* outpoints a payload is made anew for
    MaxLeaves,    \* bound: commitments of a tree
    MaxByte,      \* bound: values an altered byte takes
    MaxFaults     \* bound: damages to one message

Chains == DOMAIN Chain

\* What a message can be held against: a chain and an outpoint.
Held == [chain : Chains, txid : [1..TxidLength -> 0..MaxByte], vout : 0..MaxByte]

\* A hash of what is not modelled is a name; a symbolic hash is longer.
Opaque == [1..1 -> STRING]

TrailedLeafScript(chain, mpc) == <<"ret", chain, mpc, "trailing">>

CommitmentScripts ==
    {CommitmentLeafScript(c, m) : c \in Chains, m \in Mpcs}
    \cup {TrailedLeafScript(c, m) : c \in Chains, m \in Mpcs}
    \cup {MultiProtocolLeaf(c, m, n) : c \in Chains, m \in Mpcs, n \in 0..255}

ASSUME ExchangeAssumption ==
    /\ \A s \in PqScripts : s[1] = "pq"
    /\ Scripts \subseteq CommitmentScripts
    /\ Mpcs \cup {LeafHash, Junk} \subseteq Opaque
    /\ MaxLeaves \in Nat \ {0} /\ MaxByte \in Nat /\ MaxFaults \in Nat
    /\ Txids \subseteq [1..TxidLength -> Nat] /\ Numbers \subseteq Nat
    /\ Others \subseteq Held

VARIABLES
    tree,     \* the tree built
    seal,     \* the seal made of it, in a set
    stage,    \* "built", "made", "sent", "read"
    message,  \* its form, its cells, and whether a text's checksum holds
    faults,   \* damages done to the message
    got       \* what the reader made of it

exchangeVars == <<tree, seal, stage, message, faults, got>>

ScriptLists == UNION {[1..n -> Scripts] : n \in 1..MaxLeaves}

Seals(roots) ==
    [chain : Chains, txid : Txids, vout : Numbers, p2mr_root : roots,
     script_leaf_hash : {LeafHash}, owner_algo : DOMAIN Algo,
     locator : {Tagged(k, n) : k \in DOMAIN LocatorTag, n \in Numbers},
     policy : {Tagged(k, n) : k \in DOMAIN PolicyTag, n \in Numbers}]

Forms == {"binary", "text", "payload", "txid"}

SealRead == stage = "read" /\ message.form \in {"binary", "text"}

ExchangeTypeOK ==
    /\ tree.pq_leaf.script \in PqScripts
    /\ \A i \in DOMAIN tree.commitment_leaves : tree.commitment_leaves[i].script \in Scripts
    /\ seal \subseteq Seals({tree.root}) /\ Cardinality(seal) <= 1
    /\ stage \in {"built", "made", "sent", "read"}
    /\ message.form \in Forms /\ message.intact \in BOOLEAN
    /\ faults \in 0..MaxFaults
    /\ Cardinality(got) <= 1
    /\ SealRead => \A s \in got : s.owner_algo = "Dilithium5" => Dilithium5

-----------------------------------------------------------------------------
Init ==
    /\ \E pq \in PqScripts, scripts \in ScriptLists : tree = BuildMultiTree(pq, scripts)
    /\ seal = {}
    /\ stage = "built"
    /\ message = [form |-> "binary", cells |-> <<>>, intact |-> TRUE]
    /\ faults = 0
    /\ got = {}

\* BtqP2mrSeal::new
MakeSeal ==
    /\ stage = "built" /\ stage' = "made"
    /\ \E s \in Seals({tree.root}) : seal' = {s}
    /\ UNCHANGED <<tree, message, faults, got>>

Written(form, s) ==
    CASE form = "binary" -> {ToBinary(s)}
      [] form = "text" -> {BodyBytes(s)}
      [] form = "txid" -> {TxidToText(s.txid)}
      [] form = "payload" -> {OpReturnScript(EncodeCommitment(NewCommitment(s, m))) : m \in Mpcs}

Send(form) ==
    /\ stage = "made" /\ stage' = "sent"
    /\ \E s \in seal : \E cells \in Written(form, s) :
          message' = [form |-> form, cells |-> cells, intact |-> TRUE]
    /\ UNCHANGED <<tree, seal, faults, got>>

(* Damage.  A text's characters are covered by its checksum.  Where a hash  *)
(* stands, a damaged hash comes to stand; elsewhere a byte.                 *)

HashPositions(form) ==
    IF form = "binary" THEN {TxidLength + 7, TxidLength + 8}
    ELSE IF form = "payload" THEN {TxidLength + 8, TxidLength + 9}
    ELSE {}

DamagedCells(i) == IF i \in HashPositions(message.form) THEN {Junk} ELSE 0..MaxByte

Damage(cells) ==
    /\ stage = "sent" /\ faults < MaxFaults
    /\ faults' = faults + 1
    /\ message' = [message EXCEPT !.cells = cells, !.intact = FALSE]
    /\ UNCHANGED <<tree, seal, stage, got>>

Truncate == \E n \in 0..Len(message.cells) - 1 : Damage(SubSeq(message.cells, 1, n))
Prolong ==
    \E cell \in DamagedCells(Len(message.cells) + 1) : Damage(Append(message.cells, cell))
Alter ==
    \E i \in DOMAIN message.cells : \E cell \in DamagedCells(i) :
        Damage([message.cells EXCEPT ![i] = cell])

\* A payload may also arrive as that of another outpoint: nothing but the
\* outpoint goes into its digest, so anyone can write it.
Rebind ==
    /\ message.form = "payload"
    /\ \E held \in Others, m \in Mpcs :
          Damage(OpReturnScript(EncodeCommitment(NewCommitment(held, m))))

\* A text is read if its checksum holds.
Read ==
    /\ stage = "sent" /\ stage' = "read"
    /\ got' = CASE message.form = "binary" -> FromBinary(message.cells)
                [] message.form = "text" -> IF message.intact THEN FromText(message.cells) ELSE {}
                [] message.form = "txid" -> TxidFromText(message.cells)
                [] message.form = "payload" -> DecodeCommitment(Strip(message.cells))
    /\ UNCHANGED <<tree, seal, message, faults>>

Next ==
    \/ MakeSeal \/ (\E form \in Forms : Send(form))
    \/ Truncate \/ Prolong \/ Alter \/ Rebind
    \/ Read

Spec == Init /\ [][Next]_exchangeVars

-----------------------------------------------------------------------------
(* Messages. *)

\* What is sent undamaged is read as what it was: the seal in both of its
\* forms, the payload as this seal's, the txid.  Only a Dilithium5 seal is
\* written and not read, if the feature is off.
RoundTrip ==
    stage = "read" /\ faults = 0 => \A s \in seal :
        CASE message.form = "txid" -> got = {s.txid}
          [] message.form = "payload" ->
                \E m \in Mpcs : got = {NewCommitment(s, m)} /\ got = DecodeFor(message.cells, s)
          [] OTHER -> got = IF s.owner_algo = "Dilithium5" /\ ~Dilithium5 THEN {} ELSE {s}

\* Whatever is accepted is the encoding of what it was read as, but for
\* cells behind it: a message cut or altered is never half a seal, and no
\* length or tag disagrees with what was taken.
AcceptedIsEncoding ==
    SealRead => \A s \in got :
        IsPrefix(IF message.form = "binary" THEN ToBinary(s) ELSE BodyBytes(s), message.cells)

\* A damaged seal that is accepted as another one has another digest.
DigestTellsSealsApart ==
    SealRead => \A s \in seal, t \in got \ seal : CanonicalDigest(s) # CanonicalDigest(t)

\* The binding digest: a payload that still ends in the digest of the seal it
\* was made for, whatever else was altered, is accepted for the chain and the
\* outpoint of that seal only.  Whoever replaces the outpoint must replace the
\* digest with it, and then has written the payload of another seal (Rebind).
PayloadBindsOutpoint ==
    stage = "read" /\ message.form = "payload" =>
        \A s \in seal, m \in Mpcs, held \in Held :
            /\ DecodeFor(message.cells, held) # {}
            /\ Last(message.cells) = SealDigest(NewCommitment(s, m))
            => held.chain = s.chain /\ held.txid = s.txid /\ held.vout = s.vout

\* What the test decode_rejects_tampered_digest says of itself, "tamper
\* somewhere in mpc": that a payload with an altered mpc is rejected.  The
\* digest does not cover the mpc, and the byte the test alters is one of the
\* digest's.
AlteredMpcRejected ==
    stage = "read" /\ message.form = "payload" =>
        \A s \in seal : \A c \in DecodeFor(message.cells, s) : c.mpc \in Mpcs

-----------------------------------------------------------------------------
(* Trees. *)

PqScript == tree.pq_leaf.script
Committed == [i \in DOMAIN tree.commitment_leaves |-> tree.commitment_leaves[i].script]
Leaves == <<tree.pq_leaf>> \o tree.commitment_leaves

\* verify_p2mr_ret accepts a seal that was read for the one commitment of its
\* tree, on its chain, and for nothing else.
RetBindsOneCommitment ==
    SealRead => \A s \in got, m \in Mpcs, pq \in PqScripts :
        VerifyRet(s.p2mr_root, s.chain, m, pq) <=>
            /\ s.p2mr_root = tree.root
            /\ pq = PqScript /\ Committed = << <<"ret", s.chain, m>> >>
            /\ {PqScript, Committed[1]} \cap Oversized = {}

\* verify_multi_protocol_commitment accepts the list of commitments the tree
\* was built of, in its order; the ownership leaf and the first commitment
\* may change places.
MultiBindsTheList ==
    stage = "built" => \A pq \in PqScripts \cup Scripts, scripts \in ScriptLists :
        VerifyMulti(tree.root, pq, scripts) =>
            /\ Tail(scripts) = Tail(Committed)
            /\ {pq, scripts[1]} = {PqScript, Committed[1]}

\* The siblings a proof may name: leaves, and pairs of the ownership leaf.
Siblings ==
    LET leaves == {Leaf(LeafVersion, s) : s \in PqScripts \cup Scripts}
    IN  leaves \cup {Branch(Leaf(LeafVersion, PqScript), leaf) : leaf \in leaves}

\* A proof accepted for the root of a tree is of a leaf of that tree.
ProvenIsLeaf ==
    stage = "built" =>
        \A s \in PqScripts \cup Scripts : \A n \in 0..MaxLeaves : \A branch \in [1..n -> Siblings] :
            VerifyAgainst([leaf |-> Placed(0, LeafVersion, s), branch |-> branch], tree.root) =>
                s \in {PqScript} \cup {Committed[i] : i \in DOMAIN Committed}

\* multi.rs updates the "leaf depths for the combined tree", and p2mrret.rs
\* documents a leaf's depth as its "depth in the script tree (0 = root level)":
\* as many siblings as that lead from the leaf to the root.
DepthsReachTheRoot ==
    stage = "built" =>
        \A leaf \in {tree.pq_leaf} \cup {tree.commitment_leaves[i] : i \in DOMAIN Committed} :
            \E branch \in [1..leaf.depth -> Siblings] :
                VerifyAgainst([leaf |-> leaf, branch |-> branch], tree.root)

\* What find_commitment_in_tree reports of a two-leaf tree is what
\* verify_p2mr_ret accepts, unless bytes trail the payload or a script is
\* too large to be verified.
FoundIsVerified ==
    /\ stage = "built" /\ Len(Committed) = 1
    /\ Committed[1][1] = "ret" => Len(Committed[1]) = 3
    /\ {PqScript, Committed[1]} \cap Oversized = {}
    =>
        \A chain \in Chains :
            LET found == FindCommitment(chain, Leaves)
            IN  found.mpcs = {m \in Mpcs : VerifyRet(tree.root, chain, m, PqScript)}

=============================================================================
