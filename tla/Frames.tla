------------------------------- MODULE Frames -------------------------------
(***************************************************************************)
(* The frame transaction (core/src/domain.rs), what its wire encoding      *)
(* (core/src/encoding.rs) makes of it, and the checks the compiler runs on *)
(* it before it asks anybody (validate_structure, resolve_payer and        *)
(* check_declared_intent of compiler/src/lib.rs).                          *)
(*                                                                         *)
(* A text field keeps what the code tells apart: an address is a pair of   *)
(* whose address it is and how it is spelled, "0x" or "bare" hex.  The     *)
(* code compares texts, the wire carries the bytes: the first component.   *)
(* A byte string is its length.                                            *)
(***************************************************************************)
EXTENDS Integers, Sequences, FiniteSets, FiniteSetsExt, Functions

CONSTANTS
    None,               \* the absent value
    MaxU64,             \* u64::MAX, scaled down
    MaxFrames,          \* FRAME_TX_MAX_FRAMES
    MaxNonceKeys,       \* FRAME_TX_MAX_NONCE_KEYS
    MaxReferences,      \* FRAME_TX_MAX_RECENT_ROOT_REFERENCES
    MaxVerifyGas,       \* MAX_VERIFY_GAS
    IntrinsicCost,      \* FRAME_TX_INTRINSIC_COST
    PerFrameCost,       \* FRAME_TX_PER_FRAME_COST
    SchemeCost,         \* FRAME_SIG_COST_* of each known signature scheme
    ReferenceAddressGas,\* FRAME_TX_RECENT_ROOT_REFERENCE_ADDRESS_GAS
    ReferenceGas,       \* FRAME_TX_RECENT_ROOT_REFERENCE_GAS, with its calldata
    BlobGas,            \* 131072
    SignatureLength     \* the bytes a filled signature adds: 65 and RLP headers

ASSUME GasAssumption ==
    /\ {MaxU64, MaxFrames, MaxNonceKeys, MaxReferences, MaxVerifyGas,
        IntrinsicCost, PerFrameCost, ReferenceAddressGas, ReferenceGas,
        BlobGas, SignatureLength} \subseteq Nat
    /\ \A s \in DOMAIN SchemeCost : SchemeCost[s] \in Nat

-----------------------------------------------------------------------------
(* Texts and their bytes                                                   *)

Texts == STRING \X STRING

Empty     == <<"none", "bare">>     \* "", and an absent target
Prefix0x  == <<"none", "0x">>       \* "0x"
ExpiryVerifier == <<"expiry", "0x">>
SponsorAddress == <<"sponsor", "0x">>

NotHex == -1    \* the length of a text that is not hex

\* expect_hex_bytes of 20 bytes.
IsAddress(text) == text[1] \notin {"none", "malformed"}

\* decode_hex_bytes.
Bytes(text) == text[1]

\* expect_u256 refuses "0x0", which has half a byte, with what does not parse.
ParsesAsU256(value) == value \notin {"0x0", "malformed"}

\* parse_u256_value, of the texts that parse.
U256Of(value) == IF value \in {"", "0", "0x"} THEN 0 ELSE 1

\* value_is_zero, on the text.
ValueIsZero(value) == value \in {"", "0", "0x0"}

-----------------------------------------------------------------------------
(* FrameTransaction                                                        *)

Lengths == Nat \cup {NotHex}

\* Frame.
FrameRecords ==
    [mode : {"default", "verify", "sender"}, flags : SUBSET {"payment", "execution", "atomic"},
     target : Texts, gas : 0..MaxU64, value : STRING, data : Lengths]

\* FrameSignature; `content' is whose signature it is.
SignatureRecords ==
    [scheme : STRING, signer : Texts, msg : STRING, length : Lengths, content : STRING]

\* What a caller can bring; `declared' is the payer intent.
Transactions ==
    [declared : {"self", "sponsor", "external", None}, keys : Seq(Nat),
     seq : (0..MaxU64) \cup {None}, sender : Texts, fee : Nat \cup {None},
     tip : Nat \cup {None}, blobFee : Nat \cup {None}, blobs : Nat, references : Nat,
     frames : Seq(FrameRecords), sigs : Seq(SignatureRecords)]

EffectiveNonceKeys(tx) == IF tx.keys = << >> THEN <<0>> ELSE tx.keys

IsExpiryFrame(f) == f.mode = "verify" /\ f.target = ExpiryVerifier

\* flags & 0x01 of a VERIFY frame: the frame that ends the prefix.
ApprovesPayment(f) == f.mode = "verify" /\ "payment" \in f.flags

\* flags & 0x03.
Scope(f) == f.flags \cap {"payment", "execution"}

\* The first of some indices, or 0.
First(I) == IF I = {} THEN 0 ELSE Min(I)

\* pay_frame: the index of the frame of a separate payer, or 0.
PayFrame(tx) ==
    LET approving == First({i \in DOMAIN tx.frames :
                              ~IsExpiryFrame(tx.frames[i]) /\ ApprovesPayment(tx.frames[i])})
    IN  IF approving # 0 /\ Scope(tx.frames[approving]) = {"payment"}
        THEN approving ELSE 0

SatAdd(a, b) == IF a + b > MaxU64 THEN MaxU64 ELSE a + b

SatSum(seq) == FoldFunction(SatAdd, 0, seq)

\* What each signature costs to verify; an unknown scheme costs nothing.
SchemeCosts(tx) ==
    [i \in DOMAIN tx.sigs |->
       IF tx.sigs[i].scheme \in DOMAIN SchemeCost THEN SchemeCost[tx.sigs[i].scheme] ELSE 0]

SignatureVerificationCost(tx) == SatSum(SchemeCosts(tx))

\* calldata_cost of encode_frames and of encode_signatures, one byte standing
\* for the header and the fields of fixed length.
FramesCalldata(tx) == 1 + SumFunction([i \in DOMAIN tx.frames |-> 1 + tx.frames[i].data])

SignaturesCalldata(tx) == 1 + SumFunction([i \in DOMAIN tx.sigs |-> 1 + tx.sigs[i].length])

FrameGas(tx) == [i \in DOMAIN tx.frames |-> tx.frames[i].gas]

ReferencesGas(tx) ==
    IF tx.references = 0 THEN 0 ELSE ReferenceAddressGas + tx.references * ReferenceGas

\* What is charged for a transaction whatever the gas of its frames.
OverheadGas(tx) ==
    SatAdd(SatAdd(SatAdd(IntrinsicCost, Len(tx.frames) * PerFrameCost),
                  SatAdd(FramesCalldata(tx), SignaturesCalldata(tx))),
           SignatureVerificationCost(tx))

\* Mutant: the frame gas is summed with wrap-around.
TotalGasLimitWraps(tx) ==
    (SatAdd(OverheadGas(tx), ReferencesGas(tx)) + SumFunction(FrameGas(tx))) % (MaxU64 + 1)

TotalGasLimit(tx) ==
    SatAdd(SatAdd(OverheadGas(tx), SatSum(FrameGas(tx))), ReferencesGas(tx))

OrZero(fee) == IF fee = None THEN 0 ELSE fee

\* max_cost.  The products of the code saturate at U256::MAX, which is more than
\* any ceiling but that one.
MaxCost(tx) ==
    OrZero(tx.fee) * TotalGasLimit(tx) + tx.blobs * BlobGas * OrZero(tx.blobFee)

-----------------------------------------------------------------------------
(* Eip8141Encoder                                                          *)

ValidateWireFormat(tx) ==
    /\ IsAddress(tx.sender)
    /\ \A f \in Range(tx.frames) :
          /\ f.target \in {Empty, Prefix0x} \/ IsAddress(f.target)
          /\ f.data # NotHex
          /\ ParsesAsU256(f.value)
    /\ \A s \in Range(tx.sigs) :
          /\ IF s.scheme = "arbitrary" THEN s.signer \in {Empty, Prefix0x}
                                       ELSE IsAddress(s.signer)
          /\ s.msg # "malformed"
          /\ s.length # NotHex

\* EncodableSignature with elide_signature: only the text "" elides, not "0x".
Elided(s) == IF s.msg = "" THEN [s EXCEPT !.content = "none", !.length = 0] ELSE s

\* encode_payload: what is on the wire, with the signatures as given.
Wire(tx, sigs) ==
    [keys |-> EffectiveNonceKeys(tx), seq |-> OrZero(tx.seq), sender |-> Bytes(tx.sender),
     fee |-> OrZero(tx.fee), tip |-> OrZero(tx.tip), blobFee |-> OrZero(tx.blobFee),
     blobs |-> tx.blobs, references |-> tx.references,
     frames |-> [i \in DOMAIN tx.frames |->
                   LET f == tx.frames[i]
                   IN  [f EXCEPT !.target = Bytes(@), !.value = U256Of(@)]],
     sigs |-> [i \in DOMAIN sigs |->
                 LET s == sigs[i]
                 IN  [s EXCEPT !.signer = Bytes(@), !.msg = IF @ = "0x" THEN "" ELSE @]]]

\* compute_sig_hash, with a hash that never collides.
ComputeSigHash(tx) == Wire(tx, [i \in DOMAIN tx.sigs |-> Elided(tx.sigs[i])])

-----------------------------------------------------------------------------
(* The compiler's checks                                                   *)

\* Fees are there, the tip is no more than the fee.
FeesOk(tx) == tx.fee # None /\ tx.tip # None /\ tx.tip <= tx.fee

NonceOk(tx) ==
    LET keys == EffectiveNonceKeys(tx) IN
    /\ Len(keys) <= MaxNonceKeys
    /\ \A i \in 1..(Len(keys) - 1) : keys[i] < keys[i + 1]
    /\ Len(keys) > 1 => keys[1] # 0
    /\ tx.seq # MaxU64

\* The checks on every frame, wherever it is.
FrameOk(tx, i) ==
    LET f == tx.frames[i] IN
    /\ f.mode # "sender" => ValueIsZero(f.value)
    /\ "atomic" \in f.flags => i # Len(tx.frames)
    /\ IsExpiryFrame(f) => f.flags = {} /\ f.data = 8

\* The gas of the prefix before any of its frames.
PrefixBaseGas(tx) ==
    IntrinsicCost + Len(tx.frames) * PerFrameCost + SignaturesCalldata(tx)
        + FramesCalldata(tx) + SignatureVerificationCost(tx)

\* Mutant: a frame after the one that approves payment is in the prefix too.
ScanMut(tx) ==
    LET after[n \in 0..Len(tx.frames)] ==
          IF n = 0 THEN [prefix |-> << >>, gas |-> PrefixBaseGas(tx), approved |-> FALSE]
          ELSE LET acc == after[n - 1]
                   f   == tx.frames[n]
               IN  IF IsExpiryFrame(f) THEN acc
                   ELSE [prefix |-> Append(acc.prefix, f),
                         gas |-> (acc.gas + f.gas) % (MaxU64 + 1),
                         approved |-> acc.approved \/ ApprovesPayment(f)]
    IN  after[Len(tx.frames)]

\* The loop that collects the validation prefix, after n of the frames; a
\* release build wraps its +=.
Scan(tx) ==
    LET after[n \in 0..Len(tx.frames)] ==
          IF n = 0 THEN [prefix |-> << >>, gas |-> PrefixBaseGas(tx), approved |-> FALSE]
          ELSE LET acc == after[n - 1]
                   f   == tx.frames[n]
               IN  IF acc.approved \/ IsExpiryFrame(f) THEN acc
                   ELSE [prefix |-> Append(acc.prefix, f),
                         gas |-> (acc.gas + f.gas) % (MaxU64 + 1),
                         approved |-> ApprovesPayment(f)]
    IN  after[Len(tx.frames)]

\* is_sender_target compares texts; "0x" is neither empty nor the sender.
IsSenderTarget(tx, f) == f.target \in {Empty, tx.sender}

IsDeploy(f) == f.mode = "default"

IsVerifyOf(tx, f, scope) ==
    f.mode = "verify" /\ IsSenderTarget(tx, f) /\ Scope(f) = scope

IsSelfVerify(tx, f) == IsVerifyOf(tx, f, {"payment", "execution"})

IsOnlyVerify(tx, f) == IsVerifyOf(tx, f, {"execution"})

IsPay(f) == f.mode = "verify" /\ Scope(f) = {"payment"}

\* valid_prefix: the four shapes.
ValidPrefix(tx, p) ==
    CASE Len(p) = 1 -> IsSelfVerify(tx, p[1])
      [] Len(p) = 2 -> \/ IsDeploy(p[1]) /\ IsSelfVerify(tx, p[2])
                       \/ IsOnlyVerify(tx, p[1]) /\ IsPay(p[2])
      [] Len(p) = 3 -> IsDeploy(p[1]) /\ IsOnlyVerify(tx, p[2]) /\ IsPay(p[3])
      [] OTHER -> FALSE

\* validate_structure.
ValidateStructure(tx) ==
    /\ ValidateWireFormat(tx)
    /\ FeesOk(tx)
    /\ Len(tx.frames) \in 1..MaxFrames
    /\ NonceOk(tx)
    /\ tx.references <= MaxReferences
    /\ \A s \in Range(tx.sigs) : s.scheme \in DOMAIN SchemeCost
    /\ \A i \in DOMAIN tx.frames : FrameOk(tx, i)
    /\ \E scan \in {Scan(tx)} :
          /\ scan.approved
          /\ scan.gas <= MaxVerifyGas
          /\ \A f \in Range(scan.prefix) : "atomic" \notin f.flags
          /\ ValidPrefix(tx, scan.prefix)

\* resolve_payer: the shape alone, and the address this engine signs for.
ResolvePayer(tx, sponsoring) ==
    IF PayFrame(tx) = 0 THEN "self"
    ELSE IF sponsoring /\ tx.frames[PayFrame(tx)].target = SponsorAddress
    THEN "sponsor" ELSE "external"

\* Mutant: a missing declaration is taken for what the frames resolve to.
CheckDeclaredIntentMut(tx, resolved) == tx.declared \in {None, resolved}

\* check_declared_intent: the declaration is there and is what was resolved.
CheckDeclaredIntent(tx, resolved) == tx.declared = resolved

\* The entry that is filled: the first whose signer is the sponsor, as text.
Placeholder(tx) == First({i \in DOMAIN tx.sigs : tx.sigs[i].signer = SponsorAddress})

\* The transaction with the sponsor's signature in its placeholder.
Filled(tx) ==
    [tx EXCEPT !.sigs[Placeholder(tx)].content = "sponsor",
               !.sigs[Placeholder(tx)].length = SignatureLength]

-----------------------------------------------------------------------------
(* What the checks are compared with                                       *)

\* What EIP-8141 calls a frame, its target compared as text like in the code.  (On
\* the wire a target "0x" is an empty one, encoding.rs 175-178.)
Role(tx, f) ==
    IF IsExpiryFrame(f) THEN "expiry"
    ELSE CASE f.mode = "default" -> "deploy"
           [] f.mode = "verify" /\ {"payment", "execution"} \subseteq f.flags
                /\ f.target \in {Empty, tx.sender} -> "self_verify"
           [] f.mode = "verify" /\ "execution" \in f.flags /\ "payment" \notin f.flags
                /\ f.target \in {Empty, tx.sender} -> "only_verify"
           [] f.mode = "verify" /\ "payment" \in f.flags /\ "execution" \notin f.flags -> "pay"
           [] OTHER -> "other"

Shapes == {<<"self_verify">>, <<"deploy", "self_verify">>,
           <<"only_verify", "pay">>, <<"deploy", "only_verify", "pay">>}

\* The frames of the transaction that make up a shape from its start, expiry
\* frames aside: at most one set of indices.
ShapeOf(tx) ==
    {I \in SUBSET DOMAIN tx.frames :
        /\ \A i \in I : \A j \in 1..i : j \in I \/ Role(tx, tx.frames[j]) = "expiry"
        /\ \E shape \in Shapes :
              /\ Cardinality(I) = Len(shape)
              /\ \A i \in I : Role(tx, tx.frames[i]) = shape[Cardinality(I \cap 1..i)]}

\* Who pays, by the last frame of the shape.
PayerByRole(tx, sponsoring) ==
    LET last == tx.frames[Max(UNION ShapeOf(tx))] IN
    IF Role(tx, last) = "self_verify" THEN "self"
    ELSE IF sponsoring /\ last.target = SponsorAddress THEN "sponsor" ELSE "external"

\* The formula of max_cost with sums that do not saturate.  It is the engine's
\* estimate: the node's reservation also has the calldata of the nonce and the
\* floor of EIP-7623 (domain.rs 485-501).
ExactCost(tx) ==
    OrZero(tx.fee)
        * (IntrinsicCost + Len(tx.frames) * PerFrameCost + FramesCalldata(tx)
             + SignaturesCalldata(tx) + SumFunction(SchemeCosts(tx))
             + SumFunction(FrameGas(tx)) + ReferencesGas(tx))
        + tx.blobs * BlobGas * OrZero(tx.blobFee)

\* What validate_structure asks of a transaction but for its frames.
OtherwiseOk(tx) ==
    /\ ValidateWireFormat(tx)
    /\ FeesOk(tx)
    /\ Len(tx.frames) <= MaxFrames
    /\ NonceOk(tx)
    /\ tx.references <= MaxReferences
    /\ \A s \in Range(tx.sigs) : s.scheme \in DOMAIN SchemeCost
    /\ Scan(tx).approved => Scan(tx).gas <= MaxVerifyGas

\* validate_structure and pay_frame against the shapes.
ShapeAgrees(tx) ==
    /\ ValidateStructure(tx) <=>
         /\ \A i \in DOMAIN tx.frames : FrameOk(tx, i)
         /\ \E I \in ShapeOf(tx) : \A i \in I : "atomic" \notin tx.frames[i].flags
    /\ ValidateStructure(tx) => ResolvePayer(tx, TRUE) = PayerByRole(tx, TRUE)

=============================================================================
