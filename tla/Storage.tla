------------------------------ MODULE Storage -------------------------------
(***************************************************************************)
(* Where the encrypted documents are kept and how they are read back:      *)
(* storageProvider.service.ts replicates a document that is already pinned *)
(* on IPFS to Filecoin and Arweave, remembers the references in            *)
(* localStorage, and falls back to those copies when IPFS does not answer. *)
(* Reading from IPFS goes through pir.service.ts, which may hide the       *)
(* document among decoy queries (ipfs.service.ts, fetchFileWithPIR).       *)
(*                                                                         *)
(* A document is its IPFS hash; the reference a provider returns is the    *)
(* backup job that stored it, so what a reference points to is that job's  *)
(* document.  Several backups and reads run at the same time and share     *)
(* the references of one browser profile.                                  *)
(***************************************************************************)
EXTENDS Integers, Sequences, FiniteSets

CONSTANTS
    Hashes,     \* the documents
    Backups,    \* the backupDocument calls
    Readers,    \* the fetchDocument calls
    Synthetic   \* made-up identifiers, used as decoys that resolve to nothing

Providers == {"filecoin", "arweave"}
NoRef == "no reference"

VARIABLES
    refs,       \* refs[h][p]: BACKUP_REFS_STORAGE_KEY in localStorage
    kept_at,    \* kept_at[p][j]: how far provider p got with job j's bytes
    backup,     \* backup[j]: a running or finished backupDocument
    reading,    \* reading[r]: a running or finished fetchDocument
    proofs,     \* the running or finished verifyArchival
    pirMode     \* VITE_PIR_ENABLED and VITE_PIR_USE_TOR: "off", "pir", "tor"

storageVars == <<refs, kept_at, backup, reading, proofs, pirMode>>

NoBackup == [phase |-> "idle", hash |-> NoRef, todo |-> <<>>,
             backups |-> {}, failures |-> {}]
NoReading == [phase |-> "idle", hash |-> NoRef, batch |-> {},
              refs |-> [p \in Providers |-> NoRef], content |-> NoRef]
NoProofs == [hash |-> NoRef, waiting |-> {}, archived |-> {}, refs |-> [p \in Providers |-> NoRef]]

StorageInit ==
    /\ refs = [h \in Hashes |-> [p \in Providers |-> NoRef]]
    /\ kept_at = [p \in Providers |-> [j \in Backups |-> "none"]]
    /\ backup = [j \in Backups |-> NoBackup]
    /\ reading = [r \in Readers |-> NoReading]
    /\ proofs = NoProofs
    /\ pirMode \in {"off", "pir", "tor"}

(***************************************************************************)
(* Replication.                                                            *)
(***************************************************************************)

\* Filecoin needs an API key; the environment or the caller may name fewer.
getConfiguredBackupProviders ==
    {<<"filecoin", "arweave">>, <<"arweave">>, <<"filecoin">>, <<>>}

backupDocument(j, h) ==
    /\ backup[j].phase = "idle"
    /\ \E providers \in getConfiguredBackupProviders :
           backup' = [backup EXCEPT ![j] =
               [NoBackup EXCEPT !.phase = IF providers = <<>> THEN "done" ELSE "encrypting",
                                !.hash = h, !.todo = providers]]
    /\ UNCHANGED <<refs, kept_at, reading, proofs, pirMode>>

\* The ciphertext is given or made from plaintext and key; failing throws.
resolveCiphertext(j) ==
    /\ backup[j].phase = "encrypting"
    /\ \/ backup' = [backup EXCEPT ![j].phase = "uploading"]
       \/ backup' = [backup EXCEPT ![j].phase = "thrown"]
    /\ UNCHANGED <<refs, kept_at, reading, proofs, pirMode>>

\* The mutated form: the record of the document is replaced, not merged.
recordBackupRefs_replace(h, p, j) ==
    refs' = [refs EXCEPT ![h] = [[q \in Providers |-> NoRef] EXCEPT ![p] = j]]

recordBackupRefs(h, p, j) == refs' = [refs EXCEPT ![h][p] = j]

Uploaded(j, ok, failed) ==
    LET p == Head(backup[j].todo) IN
    backup' = [backup EXCEPT ![j] =
        [@ EXCEPT !.todo = Tail(@),
                  !.backups = @ \cup (IF ok THEN {p} ELSE {}),
                  !.failures = @ \cup (IF failed THEN {p} ELSE {}),
                  !.phase = IF Len(backup[j].todo) = 1 THEN "done" ELSE "uploading"]]

\* One provider of the list.  Outcomes: stored and recorded; stored and
\* reported although localStorage refused the record; stored with the answer
\* lost or without a usable reference; not stored.
uploadToProvider(j) ==
    /\ backup[j].phase = "uploading"
    /\ LET p == Head(backup[j].todo) IN
       \/ /\ kept_at' = [kept_at EXCEPT ![p][j] = "accepted"]
          /\ \/ recordBackupRefs(backup[j].hash, p, j) /\ Uploaded(j, TRUE, FALSE)
             \/ UNCHANGED refs /\ Uploaded(j, TRUE, TRUE)
             \/ UNCHANGED refs /\ Uploaded(j, FALSE, TRUE)
       \/ UNCHANGED <<kept_at, refs>> /\ Uploaded(j, FALSE, TRUE)
    /\ UNCHANGED <<reading, proofs, pirMode>>

\* The provider seals the bytes and anchors them.
Anchor(p, j) ==
    /\ kept_at[p][j] \in {"accepted", "sealing"}
    /\ kept_at' = [kept_at EXCEPT ![p][j] =
           IF p = "filecoin" /\ @ = "accepted" THEN "sealing" ELSE "anchored"]
    /\ UNCHANGED <<refs, backup, reading, proofs, pirMode>>

(***************************************************************************)
(* Reading.                                                                *)
(***************************************************************************)

\* The real query, the sibling documents, and synthetic identifiers.
createBatch(h) ==
    {[cid |-> c, isReal |-> c = h, outcome |-> "pending"] : c \in Hashes \cup Synthetic}

fetchDocument(r, h) ==
    /\ reading[r].phase = "idle"
    /\ reading' = [reading EXCEPT ![r] =
           [NoReading EXCEPT !.phase = "ipfs", !.hash = h,
                             !.batch = IF pirMode = "pir" THEN createBatch(h) ELSE {}]]
    /\ UNCHANGED <<refs, kept_at, backup, proofs, pirMode>>

\* The references are read once, when IPFS has failed.
FallBack(r) ==
    reading' = [reading EXCEPT ![r] =
        [@ EXCEPT !.phase = "arweave", !.batch = {}, !.refs = refs[reading[r].hash]]]

Resolve(r, cid) ==
    reading' = [reading EXCEPT ![r] = [@ EXCEPT !.phase = "resolved", !.batch = {}, !.content = cid]]

\* PIR off: the race of the gateways.
standardFetch(r) ==
    /\ reading[r].phase = "ipfs" /\ pirMode = "off"
    /\ Resolve(r, reading[r].hash) \/ FallBack(r)
    /\ UNCHANGED <<refs, kept_at, backup, proofs, pirMode>>

\* A proxy was asked for and browsers have none: refuse, do not go direct.
refuseUnproxied(r) ==
    /\ reading[r].phase = "ipfs" /\ pirMode = "tor"
    /\ FallBack(r)
    /\ UNCHANGED <<refs, kept_at, backup, proofs, pirMode>>

\* A query of the batch ends; synthetic identifiers are never found.
QueryEnds(r) ==
    /\ reading[r].phase = "ipfs"
    /\ \E q \in reading[r].batch :
           /\ q.outcome = "pending"
           /\ \E o \in {"notFound", "rejected"}
                       \cup (IF q.cid \in Hashes THEN {"ok"} ELSE {}) :
                  reading' = [reading EXCEPT ![r].batch =
                      (@ \ {q}) \cup {[q EXCEPT !.outcome = o]}]
    /\ UNCHANGED <<refs, kept_at, backup, proofs, pirMode>>

\* The mutated form: whichever query was fulfilled is taken for the real one.
realResults_any(batch) == {q \in batch : q.outcome # "rejected"}

\* The results that executeBatch hands on: the real query, if fulfilled.
realResults(batch) == {q \in batch : q.isReal /\ q.outcome # "rejected"}

\* All queries have settled; an answer other than 2xx is a failed read.
executeBatch(r) ==
    /\ reading[r].phase = "ipfs" /\ pirMode = "pir"
    /\ \A q \in reading[r].batch : q.outcome # "pending"
    /\ LET good == {q \in realResults(reading[r].batch) : q.outcome = "ok"} IN
       IF good = {} THEN FallBack(r) ELSE \E q \in good : Resolve(r, q.cid)
    /\ UNCHANGED <<refs, kept_at, backup, proofs, pirMode>>

NextProvider(p) == IF p = "arweave" THEN "filecoin" ELSE "rejected"

\* A copy is served if the provider holds it; a provider without a recorded
\* reference is passed over.
fetchFromProvider(r) ==
    LET p == reading[r].phase
        j == reading[r].refs[p] IN
    /\ p \in Providers
    /\ \/ j # NoRef /\ kept_at[p][j] # "none" /\ Resolve(r, backup[j].hash)
       \/ reading' = [reading EXCEPT ![r].phase = NextProvider(p)]
    /\ UNCHANGED <<refs, kept_at, backup, proofs, pirMode>>

(***************************************************************************)
(* Proofs of storage.                                                      *)
(***************************************************************************)

\* What the status services may say of a job's bytes, beside failing.
StatusAnswers(p, j) == {"unreachable", "refused", kept_at[p][j]}

\* The mutated form: an accepted transaction counts as archived.
isArchived_accepted(p, answer) == answer \in {"accepted", "sealing", "anchored"}

\* An Arweave transaction must be in a block; a Filecoin deal counts from
\* sealing on (hasConfirmedArweaveBlock, isActiveFilecoinDeal).
isArchived(p, answer) ==
    \/ answer = "anchored"
    \/ p = "filecoin" /\ answer = "sealing"

verifyArchival(h) ==
    /\ proofs.waiting = {}
    /\ proofs' = [hash |-> h, archived |-> {}, refs |-> refs[h],
                  waiting |-> {"ipfs"} \cup {p \in Providers : refs[h][p] # NoRef}]
    /\ UNCHANGED <<refs, kept_at, backup, reading, pirMode>>

\* The checks run together and are filed as they are answered.
checkProofOfStorage(p) ==
    /\ p \in proofs.waiting
    /\ \E archived \in IF p = "ipfs" THEN BOOLEAN
                       ELSE {isArchived(p, a) : a \in StatusAnswers(p, proofs.refs[p])} :
           proofs' = [proofs EXCEPT !.waiting = @ \ {p},
                                    !.archived = @ \cup (IF archived THEN {p} ELSE {})]
    /\ UNCHANGED <<refs, kept_at, backup, reading, pirMode>>

StorageNext ==
    \/ \E j \in Backups : \/ \E h \in Hashes : backupDocument(j, h)
                          \/ resolveCiphertext(j)
                          \/ uploadToProvider(j)
                          \/ \E p \in Providers : Anchor(p, j)
    \/ \E r \in Readers : \/ \E h \in Hashes : fetchDocument(r, h)
                          \/ standardFetch(r)
                          \/ refuseUnproxied(r)
                          \/ QueryEnds(r)
                          \/ executeBatch(r)
                          \/ fetchFromProvider(r)
    \/ \E h \in Hashes : verifyArchival(h)
    \/ \E p \in Providers \cup {"ipfs"} : checkProofOfStorage(p)

(***************************************************************************)
(* Properties.                                                             *)
(***************************************************************************)

(***************************************************************************)
(* A copy the report counts and does not also list as failed can be found  *)
(* again: the references of its document name a job that stored that same  *)
(* document with that provider, however backups of the document to the     *)
(* other provider interleave (recordBackupRefs merges).                    *)
(***************************************************************************)
ReportedIsFindable ==
    \A j \in Backups : \A p \in backup[j].backups \ backup[j].failures :
        LET found == refs[backup[j].hash][p] IN
        /\ found # NoRef
        /\ backup[found].hash = backup[j].hash
        /\ kept_at[p][found] # "none"

(***************************************************************************)
(* A read yields the document that was asked for or fails: neither the     *)
(* decoys of the batch nor the fallback to a copy hands out another one.   *)
(***************************************************************************)
ReadsWhatWasAsked ==
    \A r \in Readers :
        reading[r].phase = "resolved" => reading[r].content = reading[r].hash

(***************************************************************************)
(* A provider shown as archived holds the bytes past mere acceptance: an   *)
(* Arweave transaction in a block, a Filecoin deal at least being sealed   *)
(* (checkProofOfStorage), whatever was recorded while it was being asked.  *)
(***************************************************************************)
ArchivedIsHeld ==
    \A p \in proofs.archived \cap Providers :
        kept_at[p][proofs.refs[p]] \in {"sealing", "anchored"}
=============================================================================
