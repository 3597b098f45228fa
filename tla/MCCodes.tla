------------------------------ MODULE MCCodes ------------------------------
(***************************************************************************)
(* The pure algorithms and the two gateway clients for TLC.  The parts     *)
(* share no state, so a behaviour runs one of them: part says which.       *)
(***************************************************************************)
EXTENDS Shares, Sealing, Streams, GuardianCrypto, Gateways, Recovery
VARIABLE part

\* Keys of two hexadecimal digits, one with leading zeros, and one of one digit.
SmallSecrets == {[len |-> 2, value |-> 0], [len |-> 2, value |-> 3], [len |-> 1, value |-> 10]}
SmallConfigs == {<<1, 1>>, <<2, 1>>, <<2, 2>>, <<3, 2>>}
SmallPayloads == {<<>>, <<0>>, <<7, 255>>, <<1, 200, 3>>, <<9, 0, 128, 77>>}
SmallNodeLists == {<<"ipfs.io">>, <<"pinata", "ipfs.io">>, <<"pinata", "lighthouse", "ipfs.io">>}
PaperSchemes == {<<1, 2>>, <<2, 2>>, <<2, 3>>, <<3, 2>>}
SmallAuthenticators == [old |-> "never", key |-> "authentication", phone |-> "registration"]

codesVars == <<sharesVars, erasureVars, timelockVars, streamsVars, fheVars, blsVars,
               eciesVars, clientVars, scorerVars, phraseVars, passkeyVars, part>>

Parts == {"shares", "erasure", "timelock", "streams", "fhe", "bls", "ecies", "client", "scorer",
          "phrases", "passkeys"}

\* A part that a behaviour does not run stays in one of its states.
CodesInit ==
    /\ part \in Parts
    /\ IF part = "shares" THEN SharesInit
       ELSE /\ scheme = "pss" /\ threshold = 1 /\ dealtSecret = [len |-> 1, value |-> 10]
            /\ shares = splitSecret(10, 1, <<>>) /\ commitments = <<>>
            /\ zeroPolys = <<>> /\ epoch = 0
    /\ IF part = "erasure" THEN ErasureInit
       ELSE /\ config = <<1, 1>> /\ payload = <<>> /\ nodes = <<"ipfs.io">>
            /\ manifest = <<>> /\ retrieved = <<>> /\ outcome = "encoding"
    /\ IF part = "timelock" THEN TimelockInit
       ELSE /\ vdf = [x |-> 2, T |-> 3, N |-> 35]
            /\ digests = [r \in 1..ROUNDS |-> 0] /\ sealed = Unsealed
    /\ IF part = "streams" THEN StreamsInit ELSE StreamsInit /\ fileSize = 0
    /\ IF part = "fhe" THEN FheInit
       ELSE /\ fheKey = fheKeyGen([i \in Dims |-> 1], [r \in Rows |-> [i \in Dims |-> 1]])
            /\ fheMode = "none" /\ fheK = 0 /\ fheSecret = 0
            /\ fheShares = <<>> /\ fheWire = <<>> /\ fheSum = <<>>
    /\ BlsInit /\ (part # "bls" => dbState = "up" /\ collected = <<>>)
    /\ EciesInit /\ ClientInit /\ ScorerInit /\ RecoveryInit

CodesNext ==
    /\ UNCHANGED part
    /\ IF part = "shares" THEN SharesNext ELSE UNCHANGED sharesVars
    /\ IF part = "erasure" THEN ErasureNext ELSE UNCHANGED erasureVars
    /\ IF part = "timelock" THEN TimelockNext ELSE UNCHANGED timelockVars
    /\ IF part = "streams" THEN StreamsNext ELSE UNCHANGED streamsVars
    /\ IF part = "fhe" THEN FheNext ELSE UNCHANGED fheVars
    /\ IF part = "bls" THEN BlsNext ELSE UNCHANGED blsVars
    /\ IF part = "ecies" THEN EciesNext ELSE UNCHANGED eciesVars
    /\ IF part = "client" THEN ClientNext ELSE UNCHANGED clientVars
    /\ IF part = "scorer" THEN ScorerNext ELSE UNCHANGED scorerVars
    /\ IF part = "phrases" THEN PhraseNext ELSE UNCHANGED phraseVars
    /\ IF part = "passkeys" THEN PasskeyNext ELSE UNCHANGED passkeyVars

CodesSpec ==
    /\ CodesInit /\ [][CodesNext]_codesVars
    /\ (part = "client" => ClientFairness) /\ (part = "scorer" => ScorerFairness)

\* What goes in comes out: any threshold of shares gives back the secret and a refresh changes
\* nothing about it, any k shards the payload, a time lock opens with its own proof, a stream
\* decrypts to what was encrypted or to nothing, an aggregate of FHE shares decrypts to the secret,
\* a sealed message opens for its receiver only, and a key comes back from its phrase, its paper
\* shares and its passkey (utils/sss, erasure coding, timelock, streamingCrypto, fheEngine.ts,
\* crypto.ts, mnemonicKeyring.service.ts, webauthn.service.ts).
RoundTrips ==
    /\ AnyThresholdRecovers /\ ShardsRecover /\ SealedOpens
    /\ OnlyThePlaintext /\ AggregateDecrypts /\ OpensForReceiver
    /\ PhraseRecovers /\ PasskeyOpens

\* Gateways recover: every lookup settles although circuits open, gateways hang and callers abort,
\* and a gateway whose circuit is open is tried again (ipfsGateway.ts, ipfsGateway.service.ts).
GatewaysRecover == LookupsSettle /\ OpenIsTriedAgain
=============================================================================
