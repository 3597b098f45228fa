------------------------------- MODULE MCRelays ------------------------------
(* The relays, one at a time: part says which of them the behaviour is about. *)
EXTENDS Relayer, KeeperRelays, CrossChainRelay, Sponsorship

VARIABLE part

const_Answers ==
    {<<[guardian |-> "g1", channels |-> {"push", "email"}, badKey |-> FALSE],
       [guardian |-> "g2", channels |-> {"telegram"}, badKey |-> FALSE]>>,
     <<[guardian |-> "g1", channels |-> {"push"}, badKey |-> TRUE]>>}
const_Configured == {"push", "email"}
const_LOG        == <<"bare", "other", "access">>
const_Types      == <<"Vault", "Doc">>
const_VaultIds   == <<1, 2>>
const_CreatorOf  == <<"c">>
const_Requests   == <<1, 0>>

relaysVars == <<relayerVars, ttlVars, keeperVars, crossVars, sponsorVars, part>>

Init ==
    /\ RelayerInit /\ TtlInit /\ KeeperInit /\ CrossInit /\ SponsorInit
    /\ part \in {"relayer", "ttl", "keeper", "approvals", "revocations", "heartbeat", "sponsor"}

\* A hint matters only where a request has no vault, and the second guardian signs one operation.
SponsorSteps ==
    /\ SponsorNext
    /\ \A s \in signedOps' \ signedOps :
         /\ s.op.callData.inner = buildApproveAccessCallData(1) => Len(s.op.paymasterAndData) = 1
         /\ s.by = 12 => s.op.callData.inner = buildAcceptGuardianInviteCallData(1) /\ s.op.nonce = 0

Next ==
    /\ UNCHANGED part
    /\ \/ part = "relayer" /\ RelayerNext /\ UNCHANGED <<ttlVars, keeperVars, crossVars, sponsorVars>>
       \/ part = "ttl" /\ TtlNext /\ UNCHANGED <<relayerVars, keeperVars, crossVars, sponsorVars>>
       \/ part = "keeper" /\ KeeperNext /\ UNCHANGED <<relayerVars, ttlVars, crossVars, sponsorVars>>
       \/ part = "sponsor" /\ SponsorSteps /\ UNCHANGED <<relayerVars, ttlVars, keeperVars, crossVars>>
       \/ /\ \/ part = "approvals" /\ (CrossTick \/ Restart \/ ApprovalNext)
             \/ part = "revocations" /\ (Restart \/ RevocationNext)
             \/ part = "heartbeat" /\ (CrossTick \/ HeartbeatNext)
          /\ UNCHANGED <<relayerVars, ttlVars, keeperVars, sponsorVars>>

\* The process is restarted, and its loop goes on, as its supervisor and its timers see to;
\* the relayer's other parts are left unfair.
Fairness ==
    /\ WF_relaysVars(part = "relayer" /\ start /\ UNCHANGED <<ttlVars, keeperVars, crossVars, sponsorVars, part>>)
    /\ WF_relaysVars(part = "relayer" /\ Exit /\ UNCHANGED <<ttlVars, keeperVars, crossVars, sponsorVars, part>>)
    /\ WF_relaysVars(part = "relayer" /\ pump /\ UNCHANGED <<ttlVars, keeperVars, crossVars, sponsorVars, part>>)
    /\ WF_relaysVars(part = "relayer" /\ dispatch /\ UNCHANGED <<ttlVars, keeperVars, crossVars, sponsorVars, part>>)
    /\ WF_relaysVars(part = "relayer" /\ settle /\ UNCHANGED <<ttlVars, keeperVars, crossVars, sponsorVars, part>>)
    /\ WF_relaysVars(part = "relayer" /\ BackoffElapses /\ UNCHANGED <<ttlVars, keeperVars, crossVars, sponsorVars, part>>)

Spec == Init /\ [][Next]_relaysVars /\ Fairness

\* The relayer's queue, crashes and lost writes included: the index that pump keeps over an await
\* still points to its job, and no guardian is called more often than the attempts allow
\* (relayer/queue.ts: pump, complete, retry).  The paymaster's books: what the entry point holds is
\* booked to somebody, nobody is paid for beyond the rate limits, and the operations a guardian
\* signs are the ones accepted (SpooPaymaster.sol, userOp.service.ts).
RelayBooksHold ==
    IndexStaysValid /\ AttemptsBounded /\ DepositIsBooked /\ RatesBounded /\ SignaturesAccepted

\* A job in the journal is delivered or dead-lettered in the end, and one recorded as completed is
\* not handled again by a restart that replays its event (relayer/queue.ts, relayer/main.ts).
JobsSettleOnce == CompletedStaysDone /\ JournalledSettles
=============================================================================
