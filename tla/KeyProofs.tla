----------------------------- MODULE KeyProofs ------------------------------
(***************************************************************************)
(* TLAPS proofs about the keys a browser handles: the key ring and its OPAQUE*)
(* server, the keys of documents and their rotation, for any number of pins,*)
(* versions and documents.                                                 *)
(***************************************************************************)
EXTENDS ClientKeys, TLAPS
-----------------------------------------------------------------------------
(* The key ring: an envelope about to be written was made with the export key of the server's   *)
(* credential, unless the credential was replaced or the write cut since.                        *)
AnyPin == Pins \cup {"none"}
Sealed == [exp : Nat \X AnyPin, key : Nat]
KeyRecords == [pub : Nat, opaque : Sealed, legacy : [pin : AnyPin, key : Nat], passkey : Nat]
Unlocks == [stage : {"start login", "prove unlock"}, kind : {"unlock"}, pin : AnyPin, existing : KeyRecords]
Enrolments ==
    [stage : {"register", "start login", "prove enrol", "put", "put passkey", "add passkey"},
     kind : {"generate", "save", "migrate"}, pin : AnyPin, key : Nat, pub : Nat, passkey : Nat,
     existing : KeyRecords]
Ops == {NoOp, [stage |-> "delete"]} \cup Unlocks \cup Enrolments
KeyringTypeOK ==
    /\ record \in KeyRecords /\ cred \in [reg : Nat, pin : AnyPin] /\ keysMade \in Nat
    /\ op \in [KTabs -> Ops]
PutsMatch ==
    ~torn => \A t \in KTabs : op[t].stage = "put" => op[t].existing.opaque.exp = <<cred.reg, cred.pin>>

KeyringInv == KeyringTypeOK /\ PutsMatch /\ EnvelopeMatchesCredential

LEMMA WrappedRecord ==
    ASSUME NEW r \in KeyRecords, NEW exp \in Nat \X AnyPin, NEW key \in Nat
    PROVE  Wrapped(r, exp, key) \in KeyRecords /\ Wrapped(r, exp, key).opaque.exp = exp
  BY Zenon DEF Wrapped, KeyRecords, Sealed

LEMMA PersistedRecord ==
    ASSUME NEW o \in Enrolments
    PROVE  persistKeyPair(o) \in KeyRecords /\ persistKeyPair(o).opaque = o.existing.opaque
<1>1. o.existing \in KeyRecords /\ o.pub \in Nat
  BY Zenon DEF Enrolments
<1>2. NoLegacy \in [pin : AnyPin, key : Nat]
  BY Zenon DEF NoLegacy, AnyPin
<1> QED
  BY <1>1, <1>2, Zenon DEF persistKeyPair, KeyRecords

LEMMA RecordFields ==
    ASSUME NEW r \in KeyRecords, NEW k \in Nat, NEW n \in Nat
    PROVE  /\ NoRecord \in KeyRecords /\ NoRecord.opaque = NoEnvelope
           /\ [NoRecord EXCEPT !.pub = n, !.passkey = k] \in KeyRecords
           /\ [NoRecord EXCEPT !.pub = n, !.passkey = k].opaque = NoEnvelope
           /\ [r EXCEPT !.passkey = k] \in KeyRecords /\ [r EXCEPT !.passkey = k].opaque = r.opaque
  BY Zenon DEF NoRecord, NoEnvelope, NoLegacy, KeyRecords, Sealed, AnyPin

\* Which operation a stage belongs to.
LEMMA StageOf ==
    ASSUME KeyringTypeOK, NEW t \in KTabs
    PROVE  /\ op[t] \in Ops
           /\ op[t].stage \in {"register", "prove enrol", "put", "put passkey", "add passkey"} => op[t] \in Enrolments
           /\ op[t].stage \in {"start login", "prove unlock"} => op[t] \in Unlocks \cup Enrolments
<1>1. op[t] \in Ops
  BY Zenon DEF KeyringTypeOK
<1>2. op[t] \in Unlocks => op[t].stage \in {"start login", "prove unlock"}
  BY Zenon DEF Unlocks
<1>3. NoOp.stage = "idle" /\ [stage |-> "delete"].stage = "delete"
  BY Zenon DEF NoOp
<1>4. op[t] \in {NoOp, [stage |-> "delete"]} => op[t].stage \in {"idle", "delete"}
  BY <1>3, Zenon
<1>5. op[t] \in {NoOp, [stage |-> "delete"]} \/ op[t] \in Unlocks \/ op[t] \in Enrolments
  BY <1>1, Zenon DEF Ops
<1>6. CASE op[t] \in {NoOp, [stage |-> "delete"]}
  BY <1>1, <1>4, <1>6, Zenon
<1>7. CASE op[t] \in Unlocks
  BY <1>1, <1>2, <1>7, Zenon
<1>8. CASE op[t] \in Enrolments
  BY <1>1, <1>8, Zenon
<1> QED
  BY <1>5, <1>6, <1>7, <1>8, Zenon

LEMMA EnrolmentMoves ==
    ASSUME NEW o \in Enrolments, NEW r \in KeyRecords,
           NEW st \in {"register", "start login", "prove enrol", "put", "put passkey", "add passkey"}
    PROVE  /\ [o EXCEPT !.stage = st] \in Ops /\ [o EXCEPT !.stage = st].stage = st
           /\ [o EXCEPT !.stage = "put", !.existing = r] \in Ops
           /\ [o EXCEPT !.stage = "put", !.existing = r].existing = r
<1>1. [o EXCEPT !.stage = st] \in Enrolments /\ [o EXCEPT !.stage = st].stage = st
  BY Zenon DEF Enrolments
<1>2. [o EXCEPT !.stage = "put", !.existing = r] \in Enrolments
  BY Zenon DEF Enrolments
<1>3. [o EXCEPT !.stage = "put", !.existing = r].existing = r
  BY Zenon DEF Enrolments
<1> QED
  BY <1>1, <1>2, <1>3, Zenon DEF Ops

LEMMA UnlockMoves ==
    ASSUME NEW o \in Unlocks
    PROVE  /\ [o EXCEPT !.stage = "prove unlock"] \in Ops /\ [o EXCEPT !.stage = "prove unlock"].stage = "prove unlock"
           /\ o.kind = "unlock"
<1>1. [o EXCEPT !.stage = "prove unlock"] \in Unlocks /\ [o EXCEPT !.stage = "prove unlock"].stage = "prove unlock"
  BY Zenon DEF Unlocks
<1>2. o.kind = "unlock"
  BY Zenon DEF Unlocks
<1> QED
  BY <1>1, <1>2, Zenon DEF Ops

\* One tab moves on to something other than a write.
LEMMA QuietMove ==
    ASSUME KeyringInv, NEW t \in KTabs, NEW o \in Ops, op' = [op EXCEPT ![t] = o],
           o.stage # "put", op[t].stage # "put", cred' = cred, torn' = torn, keysMade' \in Nat,
           record' \in KeyRecords, record'.opaque \in {record.opaque, NoEnvelope}
    PROVE  KeyringInv'
<1>1. op' \in [KTabs -> Ops] /\ op'[t] = o /\ \A u \in KTabs \ {t} : op'[u] = op[u]
  BY Zenon DEF KeyringInv, KeyringTypeOK
<1>2. KeyringTypeOK'
  BY <1>1, Zenon DEF KeyringInv, KeyringTypeOK
<1>3. PutsMatch'
  BY <1>1, Zenon DEF KeyringInv, PutsMatch
<1>4. EnvelopeMatchesCredential'
  BY <1>1, Zenon DEF KeyringInv, EnvelopeMatchesCredential
<1> QED
  BY <1>2, <1>3, <1>4, Zenon DEF KeyringInv

\* After an enrolment was cut short nothing more is claimed than the types.
LEMMA TornMove ==
    ASSUME KeyringInv, NEW t \in KTabs, NEW o \in Ops, op' = [op EXCEPT ![t] = o],
           cred' \in [reg : Nat, pin : AnyPin], torn', keysMade' \in Nat, record' \in KeyRecords
    PROVE  KeyringInv'
<1>1. op' \in [KTabs -> Ops]
  BY Zenon DEF KeyringInv, KeyringTypeOK
<1> QED
  BY <1>1, Zenon DEF KeyringInv, KeyringTypeOK, PutsMatch, EnvelopeMatchesCredential

\* The operations that begin: none is a write.
LEMMA BeginningStep ==
    ASSUME KeyringInv, NEW t \in KTabs, NEW p \in AnyPin,
           generateAndSaveKeyPair(t, p) \/ importKeyBackup(t, p) \/ getDecryptedPrivateKey(t, p)
    PROVE  KeyringInv'
<1>0. KeyringTypeOK /\ record \in KeyRecords /\ keysMade \in Nat
  BY Zenon DEF KeyringInv, KeyringTypeOK
<1>f. record.passkey \in Nat /\ record.pub \in Nat /\ record.legacy \in [pin : AnyPin, key : Nat]
  BY <1>0, Zenon DEF KeyRecords
<1>1. op[t].stage = "idle" /\ op[t].stage # "put"
  BY Zenon DEF generateAndSaveKeyPair, importKeyBackup, getDecryptedPrivateKey, BeginOp
<1>2. record' = record /\ cred' = cred /\ torn' = torn
  BY Zenon DEF generateAndSaveKeyPair, importKeyBackup, getDecryptedPrivateKey, serverVars
<1>3. CASE generateAndSaveKeyPair(t, p)
  <2>1. keysMade' \in Nat
    <3>1. keysMade' = keysMade + 1
      BY <1>3, Zenon DEF generateAndSaveKeyPair
    <3> QED
      BY <1>0, <3>1
  <2>2. PICK pk \in {0, keysMade'}, st \in {"put passkey", "register"} :
           op' = [op EXCEPT ![t] = [stage |-> st, kind |-> "generate", pin |-> p, key |-> keysMade', pub |-> keysMade',
                                    passkey |-> pk, existing |-> record]]
    BY <1>3, Zenon DEF generateAndSaveKeyPair, createPasskeyProtection
  <2>3. PICK o : o = [stage |-> st, kind |-> "generate", pin |-> p, key |-> keysMade', pub |-> keysMade',
                      passkey |-> pk, existing |-> record]
    BY Zenon
  <2>4. o \in Enrolments /\ o.stage # "put"
    <3>0. pk = 0 \/ pk = keysMade'
      BY <2>2, Zenon
    <3>1. pk \in Nat
      BY <2>1, <3>0, 0 \in Nat, Zenon
    <3> QED
      BY <1>0, <2>1, <3>1, <2>2, <2>3, Zenon DEF Enrolments
  <2> QED
    BY <1>0, <1>1, <1>2, <2>1, <2>2, <2>3, <2>4, QuietMove, Zenon DEF Ops
<1>4. CASE importKeyBackup(t, p)
  <2>1. PICK k \in 1..keysMade :
           op' = [op EXCEPT ![t] = [stage |-> "register", kind |-> "save", pin |-> p, key |-> k,
                                    pub |-> k, passkey |-> 0, existing |-> record]]
    BY <1>4, Zenon DEF importKeyBackup
  <2>2. PICK o : o = [stage |-> "register", kind |-> "save", pin |-> p, key |-> k,
                      pub |-> k, passkey |-> 0, existing |-> record]
    BY Zenon
  <2>3. o \in Enrolments /\ o.stage # "put"
    BY <1>0, <2>1, <2>2 DEF Enrolments
  <2>4. keysMade' = keysMade
    BY <1>4, Zenon DEF importKeyBackup
  <2> QED
    BY <1>0, <1>1, <1>2, <2>1, <2>2, <2>3, <2>4, QuietMove, Zenon DEF Ops
<1>5. CASE getDecryptedPrivateKey(t, p)
  <2>1. keysMade' = keysMade /\ (UNCHANGED op \/ unlockRecord(t, p))
    BY <1>5, Zenon DEF getDecryptedPrivateKey
  <2>2. CASE UNCHANGED op
    BY <1>2, <2>1, <2>2, Zenon DEF KeyringInv, KeyringTypeOK, PutsMatch, EnvelopeMatchesCredential
  <2>3. CASE op' = [op EXCEPT ![t] = [stage |-> "start login", kind |-> "unlock", pin |-> p, existing |-> record]]
    <3>1. PICK o : o = [stage |-> "start login", kind |-> "unlock", pin |-> p, existing |-> record]
      BY Zenon
    <3>2. o \in Unlocks /\ o.stage # "put"
      BY <1>0, <3>1, Zenon DEF Unlocks
    <3> QED
      BY <1>0, <1>1, <1>2, <2>1, <2>3, <3>1, <3>2, QuietMove, Zenon DEF Ops
  <2>4. CASE op' = [op EXCEPT ![t] = [stage |-> "register", kind |-> "migrate", pin |-> p, key |-> record.legacy.key,
                                      pub |-> record.pub, passkey |-> 0, existing |-> record]]
    <3>1. PICK o : o = [stage |-> "register", kind |-> "migrate", pin |-> p, key |-> record.legacy.key,
                        pub |-> record.pub, passkey |-> 0, existing |-> record]
      BY Zenon
    <3>2. record.legacy.key \in Nat
      BY <1>f, Zenon
    <3>3. o \in Enrolments /\ o.stage # "put"
      BY <1>0, <1>f, <3>1, <3>2, Zenon DEF Enrolments
    <3> QED
      BY <1>0, <1>1, <1>2, <2>1, <2>4, <3>1, <3>3, QuietMove, Zenon DEF Ops
  <2> QED
    BY <2>1, <2>2, <2>3, <2>4, Zenon DEF unlockRecord
<1> QED
  BY <1>3, <1>4, <1>5, Zenon

\* An envelope made with the credential's export key waits to be written.
LEMMA WrapMove ==
    ASSUME KeyringInv, NEW t \in KTabs, op[t] \in Enrolments, NEW exp \in Nat \X AnyPin, enrollAndWrap(t, exp),
           cred' \in [reg : Nat, pin : AnyPin], exp = <<cred'.reg, cred'.pin>>,
           record' = record, keysMade' = keysMade,
           torn' \/ (~torn /\ (cred' = cred \/ ~Putting(t)))
    PROVE  KeyringInv'
<1>1. op[t].existing \in KeyRecords /\ op[t].key \in Nat
  BY Zenon DEF Enrolments
<1>2. PICK r : r = Wrapped(op[t].existing, exp, op[t].key)
  BY Zenon
<1>3. r \in KeyRecords /\ r.opaque.exp = exp
  <2>1. PICK e \in KeyRecords, k \in Nat : e = op[t].existing /\ k = op[t].key
    BY <1>1, Zenon
  <2>2. r = Wrapped(e, exp, k)
    BY <1>2, <2>1, Zenon
  <2> QED
    BY <2>2, WrappedRecord, Zenon
<1>4. PICK o : o = [op[t] EXCEPT !.stage = "put", !.existing = r]
  BY Zenon
<1>5. o \in Ops /\ o.existing = r
  BY <1>3, <1>4, EnrolmentMoves, Zenon
<1>6. o.stage = "put"
  BY <1>4, Zenon DEF Enrolments
<1>7. op' = [op EXCEPT ![t] = o]
  BY <1>2, <1>4, Zenon DEF enrollAndWrap
<1>8. op' \in [KTabs -> Ops] /\ op'[t] = o /\ \A u \in KTabs \ {t} : op'[u] = op[u]
  BY <1>5, <1>7, Zenon DEF KeyringInv, KeyringTypeOK
<1>9. KeyringTypeOK'
  BY <1>8, Zenon DEF KeyringInv, KeyringTypeOK
<1>10. PutsMatch'
  <2> SUFFICES ASSUME ~torn', NEW u \in KTabs, op'[u].stage = "put"
               PROVE  op'[u].existing.opaque.exp = <<cred'.reg, cred'.pin>>
    BY Zenon DEF PutsMatch
  <2>1. CASE u = t
    BY <1>3, <1>5, <1>8, <2>1, Zenon
  <2>2. CASE u # t
    <3>1. op[u].stage = "put" /\ op'[u] = op[u]
      BY <1>8, <2>2, Zenon
    <3>2. cred' = cred
      BY <2>2, <3>1, Zenon DEF Putting
    <3> QED
      BY <3>1, <3>2, Zenon DEF KeyringInv, PutsMatch
  <2> QED
    BY <2>1, <2>2, Zenon
<1>11. EnvelopeMatchesCredential'
  BY <1>6, <1>8, Zenon DEF EnvelopeMatchesCredential
<1> QED
  BY <1>9, <1>10, <1>11, Zenon DEF KeyringInv

LEMMA RegisterStep == ASSUME KeyringInv, NEW t \in KTabs, register(t) PROVE KeyringInv'
<1>0. KeyringTypeOK /\ record \in KeyRecords /\ keysMade \in Nat /\ cred \in [reg : Nat, pin : AnyPin]
  BY Zenon DEF KeyringInv, KeyringTypeOK
<1>1. op[t].stage = "register" /\ record' = record /\ keysMade' = keysMade
  BY Zenon DEF register
<1>2. op[t] \in Enrolments
  BY <1>0, <1>1, StageOf, Zenon
<1>3. CASE Go(t, "start login") /\ UNCHANGED <<serverVars, torn>>
  <2>1. PICK o : o = [op[t] EXCEPT !.stage = "start login"]
    BY Zenon
  <2>2. o \in Ops /\ o.stage = "start login"
    BY <1>0, <1>2, <2>1, EnrolmentMoves, Zenon
  <2>3. op' = [op EXCEPT ![t] = o]
    BY <1>3, <2>1, Zenon DEF Go
  <2>4. o.stage # "put" /\ op[t].stage # "put"
    BY <1>1, <2>2, Zenon
  <2> QED
    BY <1>0, <1>1, <1>3, <2>2, <2>3, <2>4, QuietMove, Zenon DEF serverVars
<1>4. ASSUME finishRegistration(t) PROVE cred' \in [reg : Nat, pin : AnyPin] /\ cred'.pin = op[t].pin
  <2>1. op[t].pin \in AnyPin
    BY <1>2, Zenon DEF Enrolments
  <2> QED
    BY <1>0, <1>4, <2>1 DEF finishRegistration
<1>5. CASE finishRegistration(t) /\ enrollAndWrap(t, <<cred'.reg, op[t].pin>>) /\ torn' = (torn \/ Putting(t))
  <2>1. PICK exp : exp = <<cred'.reg, cred'.pin>> /\ exp = <<cred'.reg, op[t].pin>>
    BY <1>4, <1>5, Zenon
  <2>2. exp \in Nat \X AnyPin
    BY <1>4, <1>5, <2>1
  <2>3. torn' \/ (~torn /\ ~Putting(t))
    BY <1>5, Zenon
  <2> QED
    BY <1>1, <1>2, <1>4, <1>5, <2>1, <2>2, <2>3, WrapMove, Zenon
<1>6. CASE finishRegistration(t) /\ Fail(t) /\ torn' = TRUE
  BY <1>0, <1>1, <1>4, <1>6, TornMove, Zenon DEF Fail, Ops
<1> QED
  BY <1>3, <1>5, <1>6, Zenon DEF register

LEMMA LoginStep == ASSUME KeyringInv, NEW t \in KTabs, startLogin(t) \/ login(t) PROVE KeyringInv'
<1>0. KeyringTypeOK /\ record \in KeyRecords /\ keysMade \in Nat /\ cred \in [reg : Nat, pin : AnyPin]
  BY Zenon DEF KeyringInv, KeyringTypeOK
<1>1. UNCHANGED <<record, cred, keysMade, torn>>
  BY Zenon DEF startLogin, login, restVars
<1>2. NoOp \in Ops /\ NoOp.stage # "put"
  BY Zenon DEF Ops, NoOp
<1>3. op[t].stage \in {"start login", "prove unlock", "prove enrol"}
  BY Zenon DEF startLogin, login
<1>4. op[t].stage # "put"
  BY <1>3, Zenon
<1>5. CASE Fail(t)
  BY <1>0, <1>1, <1>2, <1>4, <1>5, QuietMove, Zenon DEF Fail
<1>6. CASE startLogin(t) /\ ~Fail(t)
  <2>1. op[t].stage = "start login"
    BY <1>6, Zenon DEF startLogin
  <2>2. PICK o : o = [op[t] EXCEPT !.stage = IF op[t].kind = "unlock" THEN "prove unlock" ELSE "prove enrol"]
    BY Zenon
  <2>3. op' = [op EXCEPT ![t] = o]
    BY <1>6, <2>2, Zenon DEF startLogin
  <2>4. CASE op[t] \in Unlocks
    <3>1. o = [op[t] EXCEPT !.stage = "prove unlock"]
      BY <2>2, <2>4, UnlockMoves, Zenon
    <3>2. o \in Ops /\ o.stage = "prove unlock"
      BY <2>4, <3>1, UnlockMoves, Zenon
    <3>3. o.stage # "put"
      BY <3>2, Zenon
    <3> QED
      BY <1>0, <1>1, <1>4, <2>3, <3>2, <3>3, QuietMove, Zenon
  <2>5. CASE op[t] \in Enrolments
    <3>1. op[t].kind # "unlock"
      BY <2>5, Zenon DEF Enrolments
    <3>2. o = [op[t] EXCEPT !.stage = "prove enrol"]
      BY <2>2, <3>1, Zenon
    <3>3. o \in Ops /\ o.stage = "prove enrol"
      BY <1>0, <2>5, <3>2, EnrolmentMoves, Zenon
    <3>4. o.stage # "put"
      BY <3>3, Zenon
    <3> QED
      BY <1>0, <1>1, <1>4, <2>3, <3>3, <3>4, QuietMove, Zenon
  <2> QED
    BY <1>0, <2>1, <2>4, <2>5, StageOf, Zenon
<1>7. CASE op[t].stage = "prove enrol" /\ enrollAndWrap(t, <<cred.reg, cred.pin>>)
  <2>1. op[t] \in Enrolments
    BY <1>0, <1>7, StageOf, Zenon
  <2>2. PICK exp : exp = <<cred.reg, cred.pin>>
    BY Zenon
  <2>3. exp \in Nat \X AnyPin /\ exp = <<cred'.reg, cred'.pin>>
    BY <1>0, <1>1, <2>2, Zenon
  <2> QED
    BY <1>0, <1>1, <1>7, <2>1, <2>2, <2>3, WrapMove, Zenon
<1> QED
  BY <1>5, <1>6, <1>7, Zenon DEF login

LEMMA PutStep == ASSUME KeyringInv, NEW t \in KTabs, idbPut(t) PROVE KeyringInv'
<1>0. KeyringTypeOK /\ record \in KeyRecords /\ keysMade \in Nat /\ cred \in [reg : Nat, pin : AnyPin]
  BY Zenon DEF KeyringInv, KeyringTypeOK
<1>1. op[t].stage = "put" /\ UNCHANGED <<cred, keysMade>>
  BY Zenon DEF idbPut, serverVars
<1>2. op[t] \in Enrolments
  BY <1>0, <1>1, StageOf, Zenon
<1>3. NoOp \in Ops /\ NoOp.stage # "put"
  BY Zenon DEF Ops, NoOp
<1>4. CASE Fail(t) /\ torn' = TRUE /\ record' = record
  BY <1>0, <1>1, <1>3, <1>4, TornMove, Zenon DEF Fail
<1>5. CASE record' = persistKeyPair(op[t]) /\ torn' = torn /\ (Go(t, "add passkey") \/ Fail(t))
  <2>1. record' \in KeyRecords /\ record'.opaque = op[t].existing.opaque
    BY <1>2, <1>5, PersistedRecord, Zenon
  <2>2. PICK o : o \in Ops /\ o.stage # "put" /\ op' = [op EXCEPT ![t] = o]
    <3>1. [op[t] EXCEPT !.stage = "add passkey"] \in Ops /\ [op[t] EXCEPT !.stage = "add passkey"].stage = "add passkey"
      BY <1>0, <1>2, EnrolmentMoves, Zenon
    <3>2. Go(t, "add passkey") => op' = [op EXCEPT ![t] = [op[t] EXCEPT !.stage = "add passkey"]]
      BY Zenon DEF Go
    <3>3. Fail(t) => op' = [op EXCEPT ![t] = NoOp]
      BY Zenon DEF Fail
    <3>4. "add passkey" # "put"
      BY Zenon
    <3> QED
      BY <1>3, <1>5, <3>1, <3>2, <3>3, <3>4, Zenon
  <2>3. op' \in [KTabs -> Ops] /\ op'[t] = o /\ \A u \in KTabs \ {t} : op'[u] = op[u]
    BY <2>2, Zenon DEF KeyringInv, KeyringTypeOK
  <2>4. KeyringTypeOK'
    BY <1>0, <1>1, <2>1, <2>3, Zenon DEF KeyringTypeOK
  <2>5. PutsMatch'
    BY <1>1, <1>5, <2>2, <2>3, Zenon DEF KeyringInv, PutsMatch
  <2>6. EnvelopeMatchesCredential'
    BY <1>1, <1>5, <2>1, Zenon DEF KeyringInv, PutsMatch, EnvelopeMatchesCredential
  <2> QED
    BY <2>4, <2>5, <2>6, Zenon DEF KeyringInv
<1> QED
  BY <1>4, <1>5, Zenon DEF idbPut

LEMMA DeleteStep == ASSUME KeyringInv, NEW t \in KTabs, deleteKeyPair(t) PROVE KeyringInv'
<1>0. KeyringTypeOK /\ record \in KeyRecords /\ keysMade \in Nat /\ cred \in [reg : Nat, pin : AnyPin]
  BY Zenon DEF KeyringInv, KeyringTypeOK
<1>1. op[t].stage = "idle" /\ UNCHANGED <<record, keysMade>>
  BY Zenon DEF deleteKeyPair, BeginOp
<1>2. PICK o : o = [stage |-> "delete"]
  BY Zenon
<1>3. o \in Ops /\ op' = [op EXCEPT ![t] = o]
  BY <1>2, Zenon DEF Ops, deleteKeyPair
<1>4. o.stage # "put" /\ op[t].stage # "put"
  BY <1>1, <1>2, Zenon
<1>5. CASE UNCHANGED <<cred, torn>>
  BY <1>0, <1>1, <1>3, <1>4, <1>5, QuietMove, Zenon
<1>6. CASE deleteCredential(t) /\ torn' = (torn \/ Putting(t))
  <2>1. cred' \in [reg : Nat, pin : AnyPin] /\ cred'.pin = "none"
    BY <1>0, <1>6, Zenon DEF deleteCredential, AnyPin
  <2>2. CASE torn'
    BY <1>0, <1>1, <1>3, <2>1, <2>2, TornMove, Zenon
  <2>3. CASE ~torn'
    <3>1. ~torn /\ \A u \in KTabs \ {t} : op[u].stage # "put"
      BY <1>6, <2>3, Zenon DEF Putting
    <3>2. op' \in [KTabs -> Ops] /\ op'[t] = o /\ \A u \in KTabs \ {t} : op'[u] = op[u]
      BY <1>3, Zenon DEF KeyringInv, KeyringTypeOK
    <3>3. KeyringTypeOK'
      BY <1>0, <1>1, <2>1, <3>2, Zenon DEF KeyringTypeOK
    <3>4. PutsMatch' /\ EnvelopeMatchesCredential'
      BY <1>4, <2>1, <3>1, <3>2, Zenon DEF PutsMatch, EnvelopeMatchesCredential
    <3> QED
      BY <3>3, <3>4, Zenon DEF KeyringInv
  <2> QED
    BY <2>2, <2>3, Zenon
<1> QED
  BY <1>5, <1>6, Zenon DEF deleteKeyPair

LEMMA KeyringStep == KeyringInv /\ [KeyringNext]_keyringVars => KeyringInv'
<1> SUFFICES ASSUME KeyringInv, [KeyringNext]_keyringVars PROVE KeyringInv'
  BY Zenon
<1>0. KeyringTypeOK /\ record \in KeyRecords /\ keysMade \in Nat /\ cred \in [reg : Nat, pin : AnyPin]
  BY Zenon DEF KeyringInv, KeyringTypeOK
<1>a. NoOp \in Ops /\ NoOp.stage # "put"
  BY Zenon DEF Ops, NoOp
<1>1. ASSUME NEW t \in KTabs, putPasskey(t) PROVE KeyringInv'
  <2>1. op[t] \in Enrolments /\ op[t].stage \in {"add passkey", "put passkey"}
    BY <1>0, <1>1, StageOf, Zenon DEF putPasskey
  <2>2. op[t].stage # "put" /\ op[t].passkey \in Nat /\ op[t].pub \in Nat
    BY <2>1, Zenon DEF Enrolments
  <2>3. PICK k \in Nat, n \in Nat : k = op[t].passkey /\ n = op[t].pub
    BY <2>2, Zenon
  <2>4. record' \in KeyRecords /\ record'.opaque \in {record.opaque, NoEnvelope}
    <3>1. CASE record' = record
      BY <1>0, <3>1, Zenon
    <3>2. CASE record' = [record EXCEPT !.passkey = k]
      BY <1>0, <3>2, Zenon DEF KeyRecords
    <3>3. CASE record' = [NoRecord EXCEPT !.pub = n, !.passkey = k]
      BY <3>3, Zenon DEF NoRecord, NoEnvelope, NoLegacy, KeyRecords, Sealed, AnyPin
    <3> QED
      BY <1>1, <2>3, <3>1, <3>2, <3>3, Zenon DEF putPasskey
  <2>5. Fail(t) /\ UNCHANGED <<cred, keysMade, torn>>
    BY <1>1, Zenon DEF putPasskey, serverVars, restVars
  <2> QED
    BY <1>0, <1>a, <2>2, <2>4, <2>5, QuietMove, Zenon DEF Fail
<1>2. ASSUME NEW t \in KTabs, idbDelete(t) PROVE KeyringInv'
  <2>1. op[t].stage # "put" /\ Fail(t) /\ UNCHANGED <<cred, keysMade, torn>> /\ record' = NoRecord
    BY <1>2, Zenon DEF idbDelete, serverVars, restVars
  <2>2. NoRecord \in KeyRecords /\ NoRecord.opaque = NoEnvelope
    BY <1>0, RecordFields, Zenon
  <2> QED
    BY <1>0, <1>a, <2>1, <2>2, QuietMove, Zenon DEF Fail
<1>3. ASSUME NEW t \in KTabs, ReloadTab(t) PROVE KeyringInv'
  <2>1. Fail(t) /\ UNCHANGED <<record, cred, keysMade>> /\ torn' = (torn \/ op[t].stage = "put")
    BY <1>3, Zenon DEF ReloadTab
  <2>2. CASE torn'
    BY <1>0, <1>a, <2>1, <2>2, TornMove, Zenon DEF Fail
  <2>3. CASE ~torn'
    <3>1. ~torn /\ op[t].stage # "put"
      BY <2>1, <2>3, Zenon
    <3>2. op' \in [KTabs -> Ops] /\ op'[t] = NoOp /\ \A u \in KTabs \ {t} : op'[u] = op[u]
      BY <1>a, <2>1, Zenon DEF KeyringInv, KeyringTypeOK, Fail
    <3>3. KeyringTypeOK'
      BY <1>0, <2>1, <3>2, Zenon DEF KeyringTypeOK
    <3>4. PutsMatch' /\ EnvelopeMatchesCredential'
      BY <1>a, <2>1, <3>1, <3>2, Zenon DEF KeyringInv, PutsMatch, EnvelopeMatchesCredential
    <3> QED
      BY <3>3, <3>4, Zenon DEF KeyringInv
  <2> QED
    BY <2>2, <2>3, Zenon
<1>4. ASSUME UNCHANGED <<record, cred, op, torn, keysMade>> PROVE KeyringInv'
  BY <1>4, Zenon DEF KeyringInv, KeyringTypeOK, PutsMatch, EnvelopeMatchesCredential
<1>5. ASSUME NEW t \in KTabs, lockAccount(t) PROVE KeyringInv'
  BY <1>4, <1>5, Zenon DEF lockAccount, restVars
<1>6. CASE WindowEnds \/ cleanup
  BY <1>4, <1>6, Zenon DEF WindowEnds, cleanup, restVars
<1>7. CASE UNCHANGED keyringVars
  BY <1>4, <1>7, Zenon DEF keyringVars
<1> QED
  BY <1>1, <1>2, <1>3, <1>5, <1>6, <1>7, BeginningStep, RegisterStep, LoginStep, PutStep, DeleteStep, Zenon
     DEF KeyringNext, AnyPin

LEMMA KeyringStart == KeyringInit => KeyringInv
<1> SUFFICES ASSUME KeyringInit PROVE KeyringInv
  BY Zenon
<1>1. op = [t \in KTabs |-> NoOp] /\ NoOp \in Ops /\ NoOp.stage = "idle" /\ cred = NoCred
  BY Zenon DEF KeyringInit, Ops, NoOp
<1>2. cred \in [reg : Nat, pin : AnyPin]
  BY <1>1, Zenon DEF NoCred, AnyPin
<1>3. record \in KeyRecords /\ record.opaque = NoEnvelope /\ record.pub \in Nat
  <2>1. NoRecord \in KeyRecords /\ NoRecord.opaque = NoEnvelope /\ NoRecord.pub \in Nat
    BY Zenon DEF NoRecord, NoEnvelope, NoLegacy, KeyRecords, Sealed, AnyPin
  <2>2. ASSUME NEW p \in Pins, record = [NoRecord EXCEPT !.pub = 1, !.legacy = [pin |-> p, key |-> 1]]
        PROVE  record \in KeyRecords /\ record.opaque = NoEnvelope /\ record.pub \in Nat
    BY <2>2, Zenon DEF NoRecord, NoEnvelope, NoLegacy, KeyRecords, Sealed, AnyPin
  <2>3. record = NoRecord \/ \E p \in Pins : record = [NoRecord EXCEPT !.pub = 1, !.legacy = [pin |-> p, key |-> 1]]
    BY Zenon DEF KeyringInit
  <2> QED
    BY <2>1, <2>2, <2>3, Zenon
<1>4. keysMade \in Nat
  BY <1>3, Zenon DEF KeyringInit
<1> QED
  BY <1>1, <1>2, <1>3, <1>4, Zenon DEF KeyringInv, KeyringTypeOK, PutsMatch, EnvelopeMatchesCredential
-----------------------------------------------------------------------------
(* The keys of documents: whatever this deployment wrote, pinned or fetched under a document    *)
(* holds the key of that document.                                                               *)
Honest(es) == \A e \in es : e.net = "ours" => e.key = e.doc
DocKeysInv ==
    /\ Honest(packages) /\ Honest(pins) /\ Honest(inbox)
    /\ keyStore \in [Docs -> Int] /\ StoredKeyOpens

\* The mix of imports and of pins a step leaves holds document keys still.
LEMMA KeySet ==
    ASSUME DocKeysInv, NEW e, e.net = "ours", e.key = e.doc, keySet(e.doc, decryptWithPrivateKey(e))
    PROVE  keyStore' \in [Docs -> Int] /\ StoredKeyOpens'
<1>1. CASE decryptWithPrivateKey(e) = 0
  BY <1>1, Zenon DEF keySet, DocKeysInv, StoredKeyOpens
<1>2. CASE decryptWithPrivateKey(e) # 0
  <2>1. keyStore' = [keyStore EXCEPT ![e.doc] = e.doc]
    BY <1>2, Zenon DEF keySet, decryptWithPrivateKey
  <2>2. PICK d : d = e.doc
    BY Zenon
  <2>3. \A x \in Docs : keyStore[x] \in Int /\ keyStore[x] \in {0, x} /\ x \in Int
    <3>1. \A x \in Docs : keyStore[x] \in Int /\ keyStore[x] \in {0, x}
      BY Zenon DEF DocKeysInv, StoredKeyOpens
    <3>2. \A x \in Nat \ {0} : x \in Int
      OBVIOUS
    <3> QED
      BY <3>1, <3>2, DocsAreNumbers, Zenon
  <2>4. keyStore' = [x \in Docs |-> IF x = d THEN d ELSE keyStore[x]]
    BY <2>1, <2>2, Zenon DEF DocKeysInv
  <2>5. \A x \in Docs : keyStore'[x] \in {0, x} /\ keyStore'[x] \in Int
    BY <2>3, <2>4, Zenon
  <2> QED
    BY <2>4, <2>5, Zenon DEF StoredKeyOpens
<1> QED
  BY <1>1, <1>2, Zenon

LEMMA Pinned ==
    ASSUME Honest(pins), NEW e, e.net = "ours" => e.key = e.doc, pin(e)
    PROVE  Honest(pins)'
<1>1. PICK x : x = [id |-> pinned', doc |-> e.doc, key |-> e.key, to |-> e.to, net |-> e.net] /\ pins' = pins \cup {x}
  BY Zenon DEF pin
<1>2. x.doc = e.doc /\ x.key = e.key /\ x.net = e.net
  BY <1>1, Zenon
<1> QED
  BY <1>1, <1>2, Zenon DEF Honest

LEMMA DocKeysStep == DocKeysInv /\ [DocumentKeysNext]_docKeyVars => DocKeysInv'
<1> SUFFICES ASSUME DocKeysInv, [DocumentKeysNext]_docKeyVars PROVE DocKeysInv'
  BY Zenon
<1>k. ASSUME keyStore' = keyStore PROVE keyStore' \in [Docs -> Int] /\ StoredKeyOpens'
  BY <1>k, Zenon DEF DocKeysInv, StoredKeyOpens
<1>h. ASSUME packages' \subseteq packages, pins' \subseteq pins, inbox' \subseteq inbox \cup pins
      PROVE  Honest(packages)' /\ Honest(pins)' /\ Honest(inbox)'
  BY <1>h, Zenon DEF DocKeysInv, Honest
<1>1. ASSUME NEW d \in Docs,
             \/ handleRequestAccess(d) \/ GuardiansDecide(d) \/ RevokeAccess(d) \/ handleUpload(d)
             \/ sendBeneficiaryKeyToInbox(d) \/ findEnvelopeHashes(d)
      PROVE  DocKeysInv'
  <2>1. UNCHANGED <<keyStore, packages, pins, inbox>>
    BY <1>1, Zenon DEF handleRequestAccess, GuardiansDecide, RevokeAccess, Decide, handleUpload, OwnerOnly,
                sendBeneficiaryKeyToInbox, findEnvelopeHashes, readerState, pinState
  <2> QED
    BY <2>1, <1>k, <1>h, Zenon DEF DocKeysInv
<1>2. ASSUME registerKeyPair \/ handleAbortUpload \/ submitUpload \/ loadData PROVE DocKeysInv'
  <2>1. UNCHANGED <<keyStore, packages, pins, inbox>>
    BY <1>2, Zenon DEF registerKeyPair, handleAbortUpload, submitUpload, loadData, OwnerOnly, readerState, pinState
  <2> QED
    BY <2>1, <1>k, <1>h, Zenon DEF DocKeysInv
<1>3. ASSUME NEW d, NEW to, packages' = {[doc |-> d, key |-> d, to |-> to, net |-> "ours"]}, UNCHANGED <<pinState, readerState>>
      PROVE  DocKeysInv'
  <2>1. Honest(packages)'
    BY <1>3 DEF Honest
  <2>2. Honest(pins)' /\ Honest(inbox)' /\ keyStore' = keyStore
    BY <1>3, Zenon DEF DocKeysInv, Honest, pinState, readerState
  <2> QED
    BY <1>k, <2>1, <2>2, Zenon DEF DocKeysInv
<1>4. CASE handleCloseKeyModal
  BY <1>3, <1>4, Zenon DEF handleCloseKeyModal
<1>5. ASSUME NEW d \in Docs, downloadBeneficiaryKeyPackage(d) PROVE DocKeysInv'
  BY <1>3, <1>5, Zenon DEF downloadBeneficiaryKeyPackage
<1>6. CASE sendKeyEnvelope
  <2>1. UNCHANGED <<packages, readerState>>
    BY <1>6, Zenon DEF sendKeyEnvelope
  <2>2. CASE UNCHANGED pinState
    BY <1>k, <1>h, <2>1, <2>2, Zenon DEF DocKeysInv, pinState, readerState, Honest
  <2>3. CASE pin([doc |-> sharing.doc, key |-> sharing.doc, to |-> sharing.to, net |-> "ours"])
    <3>1. PICK e : e = [doc |-> sharing.doc, key |-> sharing.doc, to |-> sharing.to, net |-> "ours"]
      BY Zenon
    <3>2. e.key = e.doc
      BY <3>1, Zenon
    <3>3. Honest(pins)'
      BY <2>3, <3>1, <3>2, Pinned, Zenon DEF DocKeysInv
    <3> QED
      BY <1>k, <2>1, <3>3, Zenon DEF DocKeysInv, readerState, Honest
  <2> QED
    BY <1>6, <2>2, <2>3, Zenon DEF sendKeyEnvelope
<1>7. ASSUME NEW d \in Docs, ForeignEnvelope(d) PROVE DocKeysInv'
  <2>1. PICK e : e = [doc |-> d, key |-> -1, to |-> keyPair, net |-> "other"]
    BY Zenon
  <2>2. e.net # "ours"
    BY <2>1, Zenon
  <2>3. UNCHANGED readerState /\ ((pin(e) /\ UNCHANGED packages) \/ (packages' = {e} /\ UNCHANGED pinState))
    BY <1>7, <2>1, Zenon DEF ForeignEnvelope
  <2>4. Honest(pins)' /\ Honest(packages)'
    BY <2>2, <2>3, Pinned, Zenon DEF DocKeysInv, Honest, pinState
  <2> QED
    BY <1>k, <2>3, <2>4, Zenon DEF DocKeysInv, readerState, Honest
<1>8. ASSUME NEW f \in packages, handleImportKeyBackup(f) PROVE DocKeysInv'
  <2>1. f.net = "ours" /\ keySet(f.doc, decryptWithPrivateKey(f)) /\ UNCHANGED <<packages, pinState, inbox>>
    BY <1>8, Zenon DEF handleImportKeyBackup, sameDeployment
  <2>2. f.key = f.doc
    BY <2>1, Zenon DEF DocKeysInv, Honest
  <2>3. keyStore' \in [Docs -> Int] /\ StoredKeyOpens'
    BY <2>1, <2>2, KeySet, Zenon
  <2> QED
    BY <2>1, <2>3, <1>h, Zenon DEF DocKeysInv, pinState
<1>9. CASE handleFetchInboxKeys
  <2>1. UNCHANGED <<keyStore, packages, pins>> /\ inbox' \subseteq pins
    BY <1>9, Zenon DEF handleFetchInboxKeys, latestByDoc, fetchBeneficiaryInbox, pinState
  <2> QED
    BY <1>k, <1>h, <2>1, Zenon DEF DocKeysInv
<1>10. ASSUME NEW e \in inbox, importEnvelope(e) PROVE DocKeysInv'
  <2>1. packages' = packages /\ inbox' \subseteq inbox /\ pins' \subseteq pins
    BY <1>10, Zenon DEF importEnvelope
  <2>2. keyStore' = keyStore \/ (e.net = "ours" /\ keySet(e.doc, decryptWithPrivateKey(e)))
    BY <1>10, Zenon DEF importEnvelope, sameDeployment
  <2>3. e.net = "ours" => e.key = e.doc
    BY Zenon DEF DocKeysInv, Honest
  <2>4. keyStore' \in [Docs -> Int] /\ StoredKeyOpens'
    BY <1>k, <2>2, <2>3, KeySet, Zenon
  <2> QED
    BY <1>h, <2>1, <2>4, Zenon DEF DocKeysInv
<1>11. ASSUME NEW e \in gc.hashes, unpinKeyEnvelope(e) PROVE DocKeysInv'
  <2>1. UNCHANGED <<keyStore, packages, inbox>> /\ pins' \subseteq pins
    BY <1>11, Zenon DEF unpinKeyEnvelope, readerState
  <2> QED
    BY <1>k, <1>h, <2>1, Zenon DEF DocKeysInv
<1>12. CASE UNCHANGED docKeyVars
  BY <1>12, <1>k, <1>h, Zenon DEF docKeyVars, DocKeysInv, Honest
<1> QED
  BY <1>1, <1>2, <1>4, <1>5, <1>6, <1>7, <1>8, <1>9, <1>10, <1>11, <1>12, Zenon DEF DocumentKeysNext

LEMMA DocKeysStart == DocumentKeysInit => DocKeysInv
  BY DEF DocumentKeysInit, DocKeysInv, Honest, StoredKeyOpens
-----------------------------------------------------------------------------
(* Rotations: a key is accepted by a chain that registered it, and stays so; a rotation that    *)
(* has both chains' answers and goes on was accepted by both.                                    *)
Accepted(k, c) == registered[c] = k \/ k \in revoked[c]
Rotations ==
    [mode : {"none", "rotate", "emergency"}, stage : {"idle", "reencrypt", "revoke", "save"}, old : Nat, new : Nat,
     left : SUBSET Envelopes, sent : SUBSET RChains, failed : BOOLEAN]
LateOK == \A l \in late : l.chain \in RChains /\ l.old \in Nat /\ l.new \in Nat
RotationTypeOK ==
    /\ registered \in [RChains -> Nat] /\ revoked \in [RChains -> SUBSET Nat] /\ kept \in Nat /\ rkeys \in Nat
    /\ rotation \in [RTabs -> Rotations] /\ LateOK
Passed(r) == r.stage = "save" \/ (r.stage = "reencrypt" /\ r.mode # "rotate")
AcceptedSoFar(r) ==
    \A c \in RChains :
       /\ r.stage = "reencrypt" /\ r.mode = "rotate" => c \notin r.sent
       /\ r.stage = "revoke" /\ ~r.failed /\ c \in r.sent => Accepted(r.new, c)
       /\ Passed(r) => Accepted(r.new, c)
RotationsAccepted == \A t \in RTabs : AcceptedSoFar(rotation[t])

RotationInv == RotationTypeOK /\ RotationsAccepted /\ ReportedIsOnChain

\* What a rotation is after each of its steps.
LEMMA RotationFields ==
    ASSUME NEW r \in Rotations, NEW S \in SUBSET RChains, NEW L \in SUBSET Envelopes,
           NEW st \in {"idle", "reencrypt", "revoke", "save"}
    PROVE  /\ LET q == [r EXCEPT !.sent = S]
              IN  q \in Rotations /\ q.sent = S /\ q.failed = r.failed /\ q.stage = r.stage /\ q.new = r.new /\ q.mode = r.mode
           /\ LET q == [r EXCEPT !.sent = S, !.failed = TRUE]
              IN  q \in Rotations /\ q.failed /\ q.stage = r.stage
           /\ LET q == [r EXCEPT !.stage = st]
              IN  q \in Rotations /\ q.sent = r.sent /\ q.failed = r.failed /\ q.stage = st /\ q.new = r.new /\ q.mode = r.mode
           /\ LET q == [r EXCEPT !.left = L]
              IN  q \in Rotations /\ q.sent = r.sent /\ q.failed = r.failed /\ q.stage = r.stage /\ q.new = r.new /\ q.mode = r.mode
  BY Zenon DEF Rotations

\* What a chain accepted it goes on to have accepted.
LEMMA StaysAccepted ==
    ASSUME RotationTypeOK, NEW c \in RChains, NEW old \in Nat, NEW new \in Nat, Replace(c, old, new)
    PROVE  /\ registered' \in [RChains -> Nat] /\ revoked' \in [RChains -> SUBSET Nat]
           /\ registered'[c] = new
           /\ \A d \in RChains : \A k : (registered[d] = k \/ k \in revoked[d]) => (registered'[d] = k \/ k \in revoked'[d])
  BY Zenon DEF RotationTypeOK, Replace

\* One tab's rotation moves on and the chains keep what they accepted.
LEMMA RotationMoves ==
    ASSUME RotationInv, NEW t \in RTabs, NEW r \in Rotations, rotation' = [rotation EXCEPT ![t] = r],
           AcceptedSoFar(r)', registered' \in [RChains -> Nat], revoked' \in [RChains -> SUBSET Nat],
           \A d \in RChains : \A k : (registered[d] = k \/ k \in revoked[d]) => (registered'[d] = k \/ k \in revoked'[d]),
           UNCHANGED reported, kept' \in Nat, rkeys' \in Nat, LateOK'
    PROVE  RotationInv'
<1>1. rotation' \in [RTabs -> Rotations] /\ rotation'[t] = r /\ \A u \in RTabs \ {t} : rotation'[u] = rotation[u]
  BY Zenon DEF RotationInv, RotationTypeOK
<1>2. RotationsAccepted'
  <2> SUFFICES ASSUME NEW u \in RTabs PROVE AcceptedSoFar(rotation[u])'
    BY Zenon DEF RotationsAccepted
  <2>1. CASE u = t
    BY <1>1, <2>1, Zenon DEF AcceptedSoFar, Accepted, Passed
  <2>2. CASE u # t
    <3>1. PICK q : q = rotation[u] /\ q = rotation'[u]
      BY <1>1, <2>2, Zenon
    <3>2. AcceptedSoFar(q)
      BY <3>1, Zenon DEF RotationInv, RotationsAccepted
    <3>3. AcceptedSoFar(q)'
      BY <3>2, Zenon DEF AcceptedSoFar, Accepted
    <3> QED
      BY <3>1, <3>3, Zenon DEF AcceptedSoFar, Accepted, Passed
  <2> QED
    BY <2>1, <2>2, Zenon
<1>3. ReportedIsOnChain'
  BY Zenon DEF RotationInv, ReportedIsOnChain, Accepted
<1> QED
  BY <1>1, <1>2, <1>3, Zenon DEF RotationInv, RotationTypeOK

LEMMA RotationStep == RotationInv /\ [KeyRotationNext]_rotationVars => RotationInv'
<1> SUFFICES ASSUME RotationInv, [KeyRotationNext]_rotationVars PROVE RotationInv'
  BY Zenon
<1>a. RotationTypeOK /\ registered \in [RChains -> Nat] /\ revoked \in [RChains -> SUBSET Nat] /\ kept \in Nat /\ rkeys \in Nat
  BY Zenon DEF RotationInv, RotationTypeOK
<1>b. \A t \in RTabs : rotation[t] \in Rotations /\ AcceptedSoFar(rotation[t])
  BY Zenon DEF RotationInv, RotationTypeOK, RotationsAccepted
<1>c. NoRotation \in Rotations /\ NoRotation.stage = "idle"
  BY Zenon DEF NoRotation, Rotations
<1>d. UNCHANGED late => LateOK'
  BY Zenon DEF RotationInv, RotationTypeOK, LateOK
<1>1. ASSUME NEW t \in RTabs, NEW mode \in {"rotate", "emergency"}, NEW ok \in BOOLEAN, begin(t, mode, ok) PROVE RotationInv'
  <2>1. rkeys' \in Nat /\ UNCHANGED <<registered, revoked, kept, late, reported>>
    BY <1>1, <1>a DEF begin
  <2>2. CASE ok
    <3>1. PICK r : r = [NoRotation EXCEPT !.mode = mode, !.stage = FirstStage(mode), !.old = kept, !.new = rkeys', !.left = Envelopes]
      BY Zenon
    <3>2. r \in Rotations /\ r.stage = FirstStage(mode) /\ r.mode = mode /\ r.sent = {}
      BY <3>1, <2>1, <1>a, Zenon DEF NoRotation, Rotations, FirstStage
    <3>3. AcceptedSoFar(r)'
      BY <3>2, Zenon DEF AcceptedSoFar, Passed, FirstStage
    <3>4. rotation' = [rotation EXCEPT ![t] = r]
      BY <1>1, <2>2, <3>1, Zenon DEF begin, Set
    <3> QED
      BY <1>a, <1>d, <2>1, <3>2, <3>3, <3>4, RotationMoves, Zenon
  <2>3. CASE ~ok
    BY <1>1, <2>1, <2>3, Zenon DEF begin, LateOK, RotationInv, RotationTypeOK, RotationsAccepted, ReportedIsOnChain, AcceptedSoFar, Accepted
  <2> QED
    BY <2>2, <2>3, Zenon
<1>2. ASSUME NEW t \in RTabs, reencryptVaultBatch(t) PROVE RotationInv'
  <2>1. rotation[t].stage = "reencrypt" /\ UNCHANGED <<registered, revoked, kept, late, rkeys, reported>>
    BY <1>2, Zenon DEF reencryptVaultBatch
  <2>2. CASE rotation[t].left = {}
    <3> DEFINE st == IF rotation[t].mode = "rotate" THEN "revoke" ELSE "save"
    <3>1. PICK r : r = [rotation[t] EXCEPT !.stage = st]
      BY Zenon
    <3>2. r \in Rotations /\ r.stage = st /\ r.mode = rotation[t].mode /\ r.new = rotation[t].new /\ r.sent = rotation[t].sent
      BY <1>b, <3>1, Zenon DEF Rotations
    <3>3. AcceptedSoFar(r)'
      BY <1>b, <2>1, <3>2, Zenon DEF AcceptedSoFar, Passed, Accepted, Rotations
    <3>4. rotation' = [rotation EXCEPT ![t] = r]
      BY <1>2, <2>2, <3>1, Zenon DEF reencryptVaultBatch, Set
    <3> QED
      BY <1>a, <1>d, <2>1, <3>2, <3>3, <3>4, RotationMoves, Zenon
  <2>3. CASE rotation[t].left # {}
    <3>1. PICK e \in rotation[t].left : rotation' = [rotation EXCEPT ![t] = [rotation[t] EXCEPT !.left = rotation[t].left \ {e}]]
      BY <1>2, <2>3, Zenon DEF reencryptVaultBatch, Set
    <3>2. PICK L : L = rotation[t].left \ {e}
      BY Zenon
    <3>3. L \in SUBSET Envelopes
      BY <1>b, <3>2, Zenon DEF Rotations
    <3>4. PICK r : r = [rotation[t] EXCEPT !.left = L]
      BY Zenon
    <3>5. /\ r \in Rotations /\ r.stage = rotation[t].stage /\ r.mode = rotation[t].mode /\ r.new = rotation[t].new
          /\ r.sent = rotation[t].sent /\ r.failed = rotation[t].failed
      BY <1>b, <3>3, <3>4, Zenon DEF Rotations
    <3>6. AcceptedSoFar(r)'
      BY <1>b, <2>1, <3>5, Zenon DEF AcceptedSoFar, Passed, Accepted
    <3>7. rotation' = [rotation EXCEPT ![t] = r]
      BY <3>1, <3>2, <3>4, Zenon
    <3> QED
      BY <1>a, <1>d, <2>1, <3>5, <3>6, <3>7, RotationMoves, Zenon
  <2> QED
    BY <2>2, <2>3, Zenon
<1>3. ASSUME NEW t \in RTabs, NEW c \in RChains, revokeKey(t, c) PROVE RotationInv'
  <2>1. rotation[t].stage = "revoke" /\ UNCHANGED <<kept, late, rkeys, reported>>
    BY <1>3, Zenon DEF revokeKey
  <2>2. PICK S : S = rotation[t].sent \cup {c}
    BY Zenon
  <2>3. S \in SUBSET RChains
    BY <1>b, <2>2, Zenon DEF Rotations
  <2>4. CASE Replace(c, rotation[t].old, rotation[t].new) /\ rotation' = [rotation EXCEPT ![t] = [rotation[t] EXCEPT !.sent = S]]
    <3>1. PICK r : r = [rotation[t] EXCEPT !.sent = S]
      BY Zenon
    <3>2. /\ r \in Rotations /\ r.stage = rotation[t].stage /\ r.mode = rotation[t].mode /\ r.new = rotation[t].new
          /\ r.sent = S /\ r.failed = rotation[t].failed
      BY <1>b, <2>3, <3>1, Zenon DEF Rotations
    <3>3. rotation[t].old \in Nat /\ rotation[t].new \in Nat
      BY <1>b, Zenon DEF Rotations
    <3>4. PICK old \in Nat, new \in Nat : old = rotation[t].old /\ new = rotation[t].new
      BY <3>3, Zenon
    <3>5. /\ registered' \in [RChains -> Nat] /\ revoked' \in [RChains -> SUBSET Nat] /\ registered'[c] = new
          /\ \A d \in RChains : \A k : (registered[d] = k \/ k \in revoked[d]) => (registered'[d] = k \/ k \in revoked'[d])
      BY <1>a, <2>4, <3>4, StaysAccepted, Zenon
    <3>6. ASSUME NEW d \in RChains PROVE r.stage = "revoke" /\ ~r.failed /\ d \in r.sent => registered'[d] = r.new \/ r.new \in revoked'[d]
      BY <1>b, <2>1, <2>2, <3>2, <3>4, <3>5, Zenon DEF AcceptedSoFar, Accepted
    <3>7. AcceptedSoFar(r)'
      <4>1. ~Passed(r)
        BY <2>1, <3>2, Zenon DEF Passed
      <4>2. r.stage # "reencrypt"
        BY <2>1, <3>2, Zenon
      <4> QED
        BY <3>6, <4>1, <4>2, Zenon DEF AcceptedSoFar, Accepted, Passed
    <3>8. rotation' = [rotation EXCEPT ![t] = r]
      BY <2>4, <3>1, Zenon
    <3> QED
      BY <1>a, <1>d, <2>1, <3>2, <3>5, <3>7, <3>8, RotationMoves, Zenon
  <2>5. CASE UNCHANGED <<registered, revoked>> /\ rotation' = [rotation EXCEPT ![t] = [rotation[t] EXCEPT !.sent = S, !.failed = TRUE]]
    <3>1. PICK r : r = [rotation[t] EXCEPT !.sent = S, !.failed = TRUE]
      BY Zenon
    <3>2. r \in Rotations /\ r.stage = rotation[t].stage /\ r.failed
      BY <1>b, <2>3, <3>1, Zenon DEF Rotations
    <3>3. AcceptedSoFar(r)'
      BY <2>1, <3>2, Zenon DEF AcceptedSoFar, Passed
    <3>4. rotation' = [rotation EXCEPT ![t] = r]
      BY <2>5, <3>1, Zenon
    <3> QED
      BY <1>a, <1>d, <2>1, <2>5, <3>2, <3>3, <3>4, RotationMoves, Zenon
  <2> QED
    BY <1>3, <2>2, <2>4, <2>5, Zenon DEF revokeKey, Set
<1>4. ASSUME NEW l \in late, LateRevocation(l) PROVE RotationInv'
  <2>1. UNCHANGED <<kept, rkeys, reported, rotation>> /\ late' \subseteq late
    BY <1>4, Zenon DEF LateRevocation
  <2>2. CASE UNCHANGED <<registered, revoked>>
    BY <2>1, <2>2, Zenon DEF RotationInv, RotationTypeOK, RotationsAccepted, ReportedIsOnChain, AcceptedSoFar, Accepted, LateOK
  <2>3. CASE Replace(l.chain, l.old, l.new)
    <3>1. l.chain \in RChains /\ l.old \in Nat /\ l.new \in Nat
      BY Zenon DEF RotationInv, RotationTypeOK, LateOK
    <3>2. PICK c \in RChains, old \in Nat, new \in Nat : c = l.chain /\ old = l.old /\ new = l.new
      BY <3>1, Zenon
    <3>3. /\ registered' \in [RChains -> Nat] /\ revoked' \in [RChains -> SUBSET Nat]
          /\ \A d \in RChains : \A k : (registered[d] = k \/ k \in revoked[d]) => (registered'[d] = k \/ k \in revoked'[d])
      BY <1>a, <2>3, <3>2, StaysAccepted, Zenon
    <3> QED
      BY <1>a, <1>d, <2>1, <3>3, Zenon DEF RotationInv, RotationTypeOK, RotationsAccepted, ReportedIsOnChain, AcceptedSoFar, Accepted, LateOK
  <2> QED
    BY <1>4, <2>2, <2>3, Zenon DEF LateRevocation
<1>5. ASSUME NEW t \in RTabs, bothRevoked(t) PROVE RotationInv'
  <2>1. rotation[t].stage = "revoke" /\ UNCHANGED <<registered, revoked, kept, rkeys, reported>>
    BY <1>5, Zenon DEF bothRevoked
  <2>2. CASE rotation[t].failed
    <3>1. rotation' = [rotation EXCEPT ![t] = NoRotation]
      BY <1>5, <2>2, Zenon DEF bothRevoked, Set
    <3>2. AcceptedSoFar(NoRotation)'
      BY <1>c, Zenon DEF AcceptedSoFar, Passed
    <3>3. rotation[t].old \in Nat /\ rotation[t].new \in Nat
      BY <1>b, Zenon DEF Rotations
    <3>4. late' = late \cup {[chain |-> c, old |-> rotation[t].old, new |-> rotation[t].new] : c \in RChains \ rotation[t].sent}
      BY <1>5, <2>2, Zenon DEF bothRevoked
    <3>5. LateOK'
      BY <3>3, <3>4 DEF LateOK, RotationInv, RotationTypeOK
    <3> QED
      BY <1>a, <1>c, <2>1, <3>1, <3>2, <3>5, RotationMoves, Zenon
  <2>3. CASE ~rotation[t].failed
    <3> DEFINE st == IF rotation[t].mode = "rotate" THEN "save" ELSE "reencrypt"
    <3>1. PICK r : r = [rotation[t] EXCEPT !.stage = st]
      BY Zenon
    <3>2. r \in Rotations /\ r.stage = st /\ r.new = rotation[t].new /\ r.mode = rotation[t].mode
      BY <1>b, <3>1, Zenon DEF Rotations
    <3>3. rotation[t].sent = RChains /\ rotation' = [rotation EXCEPT ![t] = r]
      BY <1>5, <2>3, <3>1, Zenon DEF bothRevoked, Set, NextStage
    <3>6. UNCHANGED late
      BY <1>5, <2>3, Zenon DEF bothRevoked
    <3>4. r.stage # "revoke" /\ (r.stage = "reencrypt" => r.mode # "rotate")
      BY <3>2, Zenon
    <3>5. AcceptedSoFar(r)'
      BY <1>b, <2>1, <2>3, <3>2, <3>3, <3>4, Zenon DEF AcceptedSoFar, Passed, Accepted
    <3> QED
      BY <1>a, <1>d, <2>1, <3>2, <3>3, <3>5, <3>6, RotationMoves, Zenon
  <2> QED
    BY <2>2, <2>3, Zenon
<1>6. ASSUME NEW t \in RTabs, saveKeyPair(t) PROVE RotationInv'
  <2>1. rotation' = [rotation EXCEPT ![t] = NoRotation] /\ UNCHANGED <<registered, revoked, late, rkeys>> /\ rotation[t].stage = "save"
    BY <1>6, Zenon DEF saveKeyPair, Set
  <2>2. rotation[t].new \in Nat /\ kept' \in Nat
    BY <1>6, <1>a, <1>b, Zenon DEF saveKeyPair, Rotations
  <2>3. \A c \in RChains : Accepted(rotation[t].new, c)
    BY <1>b, <2>1, Zenon DEF AcceptedSoFar, Passed
  <2>4. reported' \subseteq reported \cup {rotation[t].new}
    BY <1>6, Zenon DEF saveKeyPair
  <2>5. ReportedIsOnChain'
    BY <2>1, <2>3, <2>4, Zenon DEF RotationInv, ReportedIsOnChain, Accepted
  <2>6. rotation' \in [RTabs -> Rotations] /\ rotation'[t] = NoRotation /\ \A u \in RTabs \ {t} : rotation'[u] = rotation[u]
    BY <1>c, <2>1, Zenon DEF RotationInv, RotationTypeOK
  <2>7. RotationsAccepted'
    <3> SUFFICES ASSUME NEW u \in RTabs PROVE AcceptedSoFar(rotation[u])'
      BY Zenon DEF RotationsAccepted
    <3>1. CASE u = t
      BY <1>c, <2>6, <3>1, Zenon DEF AcceptedSoFar, Passed
    <3>2. CASE u # t
      BY <1>b, <2>1, <2>6, <3>2, Zenon DEF AcceptedSoFar, Accepted, Passed
    <3> QED
      BY <3>1, <3>2, Zenon
  <2> QED
    BY <1>a, <1>d, <2>1, <2>2, <2>5, <2>6, <2>7, Zenon DEF RotationInv, RotationTypeOK
<1>7. CASE UNCHANGED rotationVars
  BY <1>7, Zenon DEF rotationVars, LateOK, RotationInv, RotationTypeOK, RotationsAccepted, ReportedIsOnChain, AcceptedSoFar, Accepted
<1> QED
  BY <1>1, <1>2, <1>3, <1>4, <1>5, <1>6, <1>7, Zenon DEF KeyRotationNext, rotateCompromisedKey, emergencyBatchRevoke

LEMMA RotationStart == KeyRotationInit => RotationInv
<1> SUFFICES ASSUME KeyRotationInit PROVE RotationInv
  BY Zenon
<1>1. NoRotation \in Rotations /\ NoRotation.stage = "idle"
  BY Zenon DEF NoRotation, Rotations
<1>2. rotation = [t \in RTabs |-> NoRotation] /\ late = {} /\ reported = {}
  BY Zenon DEF KeyRotationInit
<1>3. RotationTypeOK
  BY <1>1, <1>2, Zenon DEF KeyRotationInit, RotationTypeOK, LateOK
<1>4. RotationsAccepted
  BY <1>1, <1>2, Zenon DEF RotationsAccepted, AcceptedSoFar, Passed
<1> QED
  BY <1>2, <1>3, <1>4, Zenon DEF RotationInv, ReportedIsOnChain
\* Stored keys work for any tabs, PINs, documents and pins: through generating, importing,
\* unlocking, locking and deleting in several tabs the key envelope opens with the server's
\* credential unless an enrolment was cut short; a stored document key opens its document though
\* another deployment's keys lie in the same inbox; and a rotation reported done is on both chains.
THEOREM KeysWork == KeyringSpec /\ DocumentKeysSpec /\ KeyRotationSpec => []StoredKeysWork
<1>1. KeyringInv /\ DocKeysInv /\ RotationInv => StoredKeysWork
  BY Zenon DEF KeyringInv, DocKeysInv, RotationInv, StoredKeysWork
<1>2. KeyringSpec => []KeyringInv
  BY KeyringStart, KeyringStep, PTL DEF KeyringSpec
<1>3. DocumentKeysSpec => []DocKeysInv
  BY DocKeysStart, DocKeysStep, PTL DEF DocumentKeysSpec
<1>4. KeyRotationSpec => []RotationInv
  BY RotationStart, RotationStep, PTL DEF KeyRotationSpec
<1> QED
  BY <1>1, <1>2, <1>3, <1>4, PTL
-----------------------------------------------------------------------------
=============================================================================
