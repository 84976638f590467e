----------------------------- MODULE MCCompile ------------------------------
(* Model-checking instance of Compile: the transactions that callers bring *)
(* and the configurations of the engine.                                   *)
EXTENDS Compile, SequencesExt

CONSTANTS r1, b1

MCSchemeCost == [arbitrary |-> 1, secp256k1 |-> 2, p256 |-> 3]

F(mode, flags, target, gas, data) ==
    [mode |-> mode, flags |-> flags, target |-> target, gas |-> gas,
     value |-> "0", data |-> data]

Sender     == <<"sender", "0x">>
Stranger   == <<"stranger", "0x">>
Paymaster  == <<"paymaster", "0x">>

SelfVerify == F("verify", {"payment", "execution"}, Empty, 1, 0)
OnlyVerify == F("verify", {"execution"}, Empty, 1, 0)
PayBy(t)   == F("verify", {"payment"}, t, 1, 0)
Deploy     == F("default", {}, Paymaster, 1, 0)
Act        == F("sender", {}, Paymaster, 1, 1)
Expiry     == F("verify", {}, ExpiryVerifier, 1, 8)

Sig(signer, msg, length, content) ==
    [scheme |-> "secp256k1", signer |-> signer, msg |-> msg, length |-> length,
     content |-> content]

Entry == Sig(SponsorAddress, "", 0, "none")

T(declared, frames, sigs) ==
    [declared |-> declared, keys |-> << >>, seq |-> 1, sender |-> Sender, fee |-> 2,
     tip |-> 1, blobFee |-> None, blobs |-> 0, references |-> 0,
     frames |-> frames, sigs |-> sigs]

SelfPaid   == T("self", <<SelfVerify, Act>>, <<Sig(Sender, "", 3, "caller")>>)
BySponsor  == T("sponsor", <<OnlyVerify, PayBy(SponsorAddress)>>, <<Entry>>)

\* The payer is another's address, or so it seems: the sponsor without its 0x.
ByOther    == T("external", <<Deploy, OnlyVerify, Expiry, PayBy(<<"sponsor", "bare">>)>>,
                <<Entry>>)

\* The cost of a plain sponsored transaction before it is signed.
Ceiling == MaxCost(BySponsor)

MCSubmissions == {
    BySponsor, ByOther,
    \* from a sender who is not on the list
    [BySponsor EXCEPT !.sender = Stranger],
    \* "0x" for the digest of the sponsor's entry, and no entry at all
    [BySponsor EXCEPT !.sigs = <<Sig(SponsorAddress, "0x", 0, "none")>>],
    [BySponsor EXCEPT !.sigs = << >>],
    \* two nonce keys and more gas, and so much gas that the sums overflow
    [BySponsor EXCEPT !.keys = <<1, 2>>, !.frames[2].gas = 2],
    [BySponsor EXCEPT !.frames[2].gas = MaxU64 - 9],
    \* nobody declared as the payer, and the wrong one
    [SelfPaid EXCEPT !.declared = None],
    [SelfPaid EXCEPT !.declared = "sponsor"],
    \* a frame after the prefix that pays, too
    T("sponsor", <<SelfVerify, PayBy(SponsorAddress)>>, <<Entry>>),
    T("self", <<SelfVerify, Act, PayBy(SponsorAddress)>>, <<Entry>>),
    \* no sequence, a value that is no number
    [SelfPaid EXCEPT !.seq = None],
    [SelfPaid EXCEPT !.frames[2].value = "malformed"] }

C(posture, signer, ceiling, allowlist, store, webhook) ==
    [posture |-> posture, signer |-> signer, ceiling |-> ceiling,
     allowlist |-> allowlist, store |-> store, webhook |-> webhook,
     limited |-> posture = "public"]

MCConfigs == {
    C("gated", "none", None, None, {}, TRUE),
    C("gated", "local", None, None, {}, FALSE),
    C("public", "local", Ceiling, {"sender"}, {}, FALSE),
    C("public", "local", Ceiling, None, {}, FALSE),
    C("public", "remote", None, None, {"budget"}, FALSE),
    C("public", "remote", Ceiling, None, {"quota", "budget"}, TRUE) }

\* Every sequence of up to four of these frames.
Palette == {
    SelfVerify, OnlyVerify, PayBy(SponsorAddress), Deploy, Act, Expiry,
    F("verify", {}, Sender, 1, 0),
    F("verify", {"payment", "execution"}, Paymaster, 1, 0),
    F("verify", {"payment", "atomic"}, Sender, 1, 0),
    F("verify", {"execution"}, Prefix0x, 1, 0) }

MCProbes == {T(None, frames, << >>) : frames \in BoundedSeq(Palette, 4)}

=============================================================================
