------------------------------ MODULE ChainReads -----------------------------
(***************************************************************************)
(* The lists src/services/contract.service.ts puts together from event     *)
(* logs and view calls, against what the EVM contract holds.  The contract *)
(* is external here: vaults, invited guardians, passes that may be         *)
(* transferred, documents and access requests, with the events it emits in *)
(* one log.  A list is read at one state of the chain; the caches in       *)
(* between are in ViewCache and EventLogs.                                 *)
(***************************************************************************)
EXTENDS Integers, Sequences, FiniteSets, SequencesExt, FiniteSetsExt
CONSTANTS Users, MAX_VAULTS, MAX_TOKENS, MAX_DOCS, MAX_REQUESTS,
    SCAN_DEPTH,               \* VITE_PENDING_REQUEST_SCAN_DEPTH
    MAX_LOG

VARIABLES vaultOf,            \* vault id |-> [creator, guardians]
    tokenOf,                  \* token id |-> [owner, vault], owner "none" once burned
    documentOf,               \* document id |-> its vault
    requestOf,                \* request id |-> [document, requester, status, approvedBy, expired]
    log                       \* the events, oldest first

readVars == <<vaultOf, tokenOf, documentOf, requestOf, log>>
-----------------------------------------------------------------------------
(* The contract. *)
ReadsInit == vaultOf = <<>> /\ tokenOf = <<>> /\ documentOf = <<>> /\ requestOf = <<>> /\ log = <<>>

Emit(name, id, who, vault) ==
    /\ Len(log) < MAX_LOG
    /\ log' = Append(log, [name |-> name, id |-> id, who |-> who, vault |-> vault])

VaultCreated(u) ==
    /\ Len(vaultOf) < MAX_VAULTS
    /\ vaultOf' = Append(vaultOf, [creator |-> u, guardians |-> {u}])
    /\ Emit("VaultCreated", Len(vaultOf'), u, Len(vaultOf'))
    /\ UNCHANGED <<tokenOf, documentOf, requestOf>>

GuardianAdded(v, u) ==
    /\ u \notin vaultOf[v].guardians
    /\ vaultOf' = [vaultOf EXCEPT ![v].guardians = @ \cup {u}]
    /\ Emit("GuardianAdded", v, u, v)
    /\ UNCHANGED <<tokenOf, documentOf, requestOf>>

GuardianRemoved(v, u) ==
    /\ u \in vaultOf[v].guardians /\ Cardinality(vaultOf[v].guardians) > 1
    /\ vaultOf' = [vaultOf EXCEPT ![v].guardians = @ \ {u}]
    /\ UNCHANGED <<tokenOf, documentOf, requestOf, log>>

NFTMinted(v, u) ==
    /\ Len(tokenOf) < MAX_TOKENS
    /\ tokenOf' = Append(tokenOf, [owner |-> u, vault |-> v])
    /\ Emit("NFTMinted", Len(tokenOf'), u, v)
    /\ UNCHANGED <<vaultOf, documentOf, requestOf>>

Transfer(t, u) ==             \* to "none": burned
    /\ tokenOf[t].owner \notin {"none", u}
    /\ tokenOf' = [tokenOf EXCEPT ![t].owner = u]
    /\ UNCHANGED <<vaultOf, documentOf, requestOf, log>>

DocumentAdded(v) ==
    /\ Len(documentOf) < MAX_DOCS
    /\ documentOf' = Append(documentOf, v)
    /\ Emit("DocumentAdded", Len(documentOf'), "none", v)
    /\ UNCHANGED <<vaultOf, tokenOf, requestOf>>

AccessRequested(d, u) ==
    /\ Len(requestOf) < MAX_REQUESTS
    /\ requestOf' = Append(requestOf, [document |-> d, requester |-> u, status |-> 0,
                                       approvedBy |-> {}, expired |-> FALSE])
    /\ Emit("AccessRequested", Len(requestOf'), u, documentOf[d])
    /\ UNCHANGED <<vaultOf, tokenOf, documentOf>>

RequestMoves(r) ==            \* an approval, the decision or the end of its time
    /\ requestOf[r].status = 0
    /\ \/ \E u \in vaultOf[documentOf[requestOf[r].document]].guardians :
             requestOf' = [requestOf EXCEPT ![r].approvedBy = @ \cup {u}]
       \/ requestOf' = [requestOf EXCEPT ![r].status = 1]
       \/ requestOf' = [requestOf EXCEPT ![r].expired = TRUE]
    /\ UNCHANGED <<vaultOf, tokenOf, documentOf, log>>

ReadsNext ==
    \/ \E u \in Users :
          \/ VaultCreated(u)
          \/ \E v \in DOMAIN vaultOf : GuardianAdded(v, u) \/ GuardianRemoved(v, u) \/ NFTMinted(v, u)
          \/ \E d \in DOMAIN documentOf : AccessRequested(d, u)
          \/ \E t \in DOMAIN tokenOf : Transfer(t, u)
    \/ \E t \in DOMAIN tokenOf : Transfer(t, "none")
    \/ \E v \in DOMAIN vaultOf : DocumentAdded(v)
    \/ \E r \in DOMAIN requestOf : RequestMoves(r)
-----------------------------------------------------------------------------
(* The service. *)
\* The events of a name, oldest first; as a set; and those that name an account.
EventLogsOf(name) == SelectSeq(log, LAMBDA e : e.name = name)
EventsOf(name) == ToSet(EventLogsOf(name))
EventsFor(name, u) == {e \in EventsOf(name) : e.who = u}
\* The last tail logs, if tail is positive.
Tailed(logs, tail) == IF tail > 0 /\ Len(logs) > tail THEN SubSeq(logs, Len(logs) - tail + 1, Len(logs)) ELSE logs
Newest(logs) == Reverse(logs)

holds(u, v) == \E t \in DOMAIN tokenOf : tokenOf[t] = [owner |-> u, vault |-> v]

getVaultsByIds(ids) == ids \cap DOMAIN vaultOf
fetchVaults    == {e.vault : e \in EventsOf("VaultCreated")}
fetchDocuments == {e.id : e \in EventsOf("DocumentAdded")}
fetchDocumentsForVaults(vs) ==
    {e.id : e \in {f \in EventsOf("DocumentAdded") : f.vault \in vs}}

\* fetchUserTokens: the passes minted to the user that are still theirs, newest id first.
fetchUserTokens(u) ==
    LET minted == {e.id : e \in EventsFor("NFTMinted", u)}
    IN  SetToSortSeq({t \in minted : tokenOf[t].owner = u}, LAMBDA a, b : a > b)

\* hasVaultToken falls back to the list of passes when the view call fails.
hasVaultToken(u, v, fails) ==
    IF fails THEN \E t \in ToSet(fetchUserTokens(u)) : tokenOf[t].vault = v ELSE holds(u, v)

\* Mutant: guardians are not looked up again.
fetchVaultsForAccount_logs(u, tokenVaultIds) ==
    {e.vault : e \in EventsFor("VaultCreated", u)}
    \cup {e.vault : e \in EventsFor("GuardianAdded", u)}
    \cup {v \in tokenVaultIds : holds(u, v)}

\* fetchVaultsForAccount: candidates by the logs, or by the passes the caller knows of, then
\* only the vaults in which the account has a role now.
fetchVaultsForAccount(u, tokenVaultIds) ==
    LET created  == {e.vault : e \in EventsFor("VaultCreated", u)}
        guarded  == {e.vault : e \in EventsFor("GuardianAdded", u)}
        byPass   == IF tokenVaultIds # {} THEN tokenVaultIds
                    ELSE {e.vault : e \in EventsFor("NFTMinted", u)}
    IN  {v \in getVaultsByIds(created \cup guarded \cup byPass) :
            vaultOf[v].creator = u \/ u \in vaultOf[v].guardians \/ holds(u, v)}

\* Mutant: the scan stops at limit logs, not at limit open requests.
fetchPendingApprovalsForGuardian_early(u, limit) ==
    LET Open(e) == /\ u \notin requestOf[e.id].approvedBy
                   /\ requestOf[e.id].status = 0 /\ ~requestOf[e.id].expired
                   /\ u \in vaultOf[documentOf[requestOf[e.id].document]].guardians
        open == SelectSeq(Newest(Tailed(EventLogsOf("AccessRequested"), limit)), Open)
    IN  [i \in DOMAIN open |-> open[i].id]

\* fetchPendingApprovalsForGuardian: newest first, up to limit, out of the last scanned logs.
fetchPendingApprovalsForGuardian(u, limit) ==
    LET Open(e) == /\ u \notin requestOf[e.id].approvedBy
                   /\ requestOf[e.id].status = 0 /\ ~requestOf[e.id].expired
                   /\ u \in vaultOf[documentOf[requestOf[e.id].document]].guardians
        open == SelectSeq(Newest(Tailed(EventLogsOf("AccessRequested"), SCAN_DEPTH)), Open)
    IN  [i \in 1 .. IF Len(open) < limit THEN Len(open) ELSE limit |-> open[i].id]

getActivePassCountByVault(vs) ==
    [v \in vs |-> Cardinality({e.id : e \in {f \in EventsOf("NFTMinted") :
                                                f.vault = v /\ tokenOf[f.id].owner # "none"}})]

\* Of the requests of a user for a document the contract keeps the latest.
getLatestRequestsForUser(u, ds) ==
    [d \in ds |-> LET mine == {r \in DOMAIN requestOf : requestOf[r].document = d /\ requestOf[r].requester = u}
                  IN  IF mine = {} THEN 0 ELSE Max(mine)]

\* Mutant: the tail of one event kind is taken after the kinds are merged in the order asked.
getRecentActivity_unsorted(limit) ==
    LET positions(name) == SelectSeq([i \in 1 .. Len(log) |-> i], LAMBDA i : log[i].name = name)
        all == positions("VaultCreated") \o positions("DocumentAdded")
               \o positions("AccessRequested") \o positions("NFTMinted")
    IN  SubSeq(Reverse(all), 1, IF Len(all) < limit THEN Len(all) ELSE limit)

\* getRecentActivity: the newest of the tails of four event kinds, as positions in the log.
getRecentActivity(limit) ==
    LET perEventTail   == Max({limit * 6, 40})
        positions(name) == SelectSeq([i \in 1 .. Len(log) |-> i], LAMBDA i : log[i].name = name)
        all == UNION {ToSet(Tailed(positions(n), perEventTail)) :
                      n \in {"VaultCreated", "DocumentAdded", "AccessRequested", "NFTMinted"}}
        sorted == SetToSortSeq(all, LAMBDA a, b : a > b)
    IN  SubSeq(sorted, 1, IF Len(sorted) < limit THEN Len(sorted) ELSE limit)
-----------------------------------------------------------------------------
\* An account's vault list (fetchVaultsForAccount) is exactly the vaults in which it is the
\* creator, a guardian, or the holder of a pass whom some event of the vault names (a mint to
\* it, or an invite it accepted): an account removed or whose passes are gone sees nothing.
\* A pass that only came by transfer leaves no event the service looks for.
AccountVaultsExact ==
    \A u \in Users :
       fetchVaultsForAccount(u, {}) =
          {v \in DOMAIN vaultOf :
              \/ vaultOf[v].creator = u \/ u \in vaultOf[v].guardians
              \/ /\ \E t \in DOMAIN tokenOf : tokenOf[t] = [owner |-> u, vault |-> v]
                 /\ \E i \in DOMAIN log : /\ log[i].name \in {"NFTMinted", "GuardianAdded"}
                                           /\ log[i].who = u /\ log[i].vault = v}

\* A guardian's approval queue holds, newest first, the requests that wait for that guardian:
\* none decided, expired, approved already or of a vault the guardian has left, and none of
\* the scanned ones missing (fetchPendingApprovalsForGuardian).
ApprovalQueueExact ==
    \A u \in Users :
       LET queue   == fetchPendingApprovalsForGuardian(u, 1)
           waiting == {r \in DOMAIN requestOf :
                         /\ r > Len(requestOf) - SCAN_DEPTH
                         /\ requestOf[r].status = 0 /\ ~requestOf[r].expired
                         /\ u \in vaultOf[documentOf[requestOf[r].document]].guardians
                                    \ requestOf[r].approvedBy}
       IN  /\ ToSet(queue) \subseteq waiting
           /\ Len(queue) = Min({1, Cardinality(waiting)})
           /\ \A r \in waiting \ ToSet(queue), q \in ToSet(queue) : q > r

\* The activity feed is the newest events of the contract, whatever their kind
\* (getRecentActivity), and the counts and lists beside it agree with the contract: a vault's
\* active passes are its passes not burned, a user's passes are theirs now, and of a user's
\* requests for a document the newest one is shown.
FeedsMatchChain ==
    LET shown == {i \in DOMAIN log : log[i].name # "GuardianAdded"}
        feed  == getRecentActivity(2)
    IN  /\ ToSet(feed) \subseteq shown
        /\ Len(feed) = Min({2, Cardinality(shown)})
        /\ \A i \in shown \ ToSet(feed), j \in ToSet(feed) : j > i
        /\ fetchVaults = DOMAIN vaultOf /\ fetchDocuments = DOMAIN documentOf
        /\ \A v \in DOMAIN vaultOf :
              /\ getActivePassCountByVault({v})[v] =
                    Cardinality({t \in DOMAIN tokenOf : tokenOf[t].vault = v /\ tokenOf[t].owner # "none"})
              /\ fetchDocumentsForVaults({v}) = {d \in DOMAIN documentOf : documentOf[d] = v}
        /\ \A u \in Users, v \in DOMAIN vaultOf :
              /\ hasVaultToken(u, v, TRUE) => hasVaultToken(u, v, FALSE)
              /\ \A d \in DOMAIN documentOf :
                    LET r == getLatestRequestsForUser(u, {d})[d]
                    IN  r = 0 \/ requestOf[r].requester = u
=============================================================================
