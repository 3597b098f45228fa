---------------------------- MODULE EvmGovernance ---------------------------
(***************************************************************************)
(* Guardian governance of one SpooVault vault (SpooVault.sol, with         *)
(* SpooVaultAdminLogic.sol) and the share refresh of one of its documents. *)
(*                                                                         *)
(* A reconfiguration has a SUBJECT: the guardian to remove or the new      *)
(* approval threshold.  Each subject has its own proposal; it is approved  *)
(* by a quorum, queued, may be vetoed by the creator, and executes after   *)
(* TIMELOCK_DELAY.  One call may queue, cancel or execute the proposals of *)
(* a guardian and of a threshold together.  Every action is a transaction: *)
(* a revert leaves the state alone, so its conditions are guards.          *)
(***************************************************************************)
EXTENDS Integers, FiniteSets
CONSTANTS
    Members, NoMember,
    Subjects,          \* what proposals are about: accounts to remove and thresholds
    Creations,         \* the calls of createVault that are tried: <<sender, list, threshold>>
    Explored,          \* creator -> the subjects proposed in its vault
    Durations,         \* creator -> the share refresh durations tried in its vault
    MIN_DURATION, MAX_DURATION, TIMELOCK_DELAY, PROPOSAL_TTL, INVITE_TTL,
    MAX_TIME, MAX_EPOCH

ASSUME CouncilConstants ==
    /\ NoMember \notin Members /\ IsFiniteSet(Members)
    /\ Members \cap Nat = {} /\ Subjects \subseteq Members \cup (Nat \ {0})
    /\ Creations \subseteq Members \X (SUBSET Members) \X Nat
    /\ Explored \in [Members -> SUBSET Subjects] /\ Durations \in [Members -> SUBSET Nat]
    /\ TIMELOCK_DELAY \in Nat /\ PROPOSAL_TTL \in Nat /\ INVITE_TTL \in Nat
    /\ MAX_TIME \in Nat \ {0} /\ MAX_EPOCH \in Nat

VARIABLES
    now,              \* block.timestamp; zero is the "unset" timestamp of the code
    creator, guardians, approvalThreshold,
    invites,          \* guardianInvites: the accounts invited and not yet accepted
    inviteExpires,
    proposals,        \* guardianRemovalProposals and thresholdUpdateProposals
    hasApproved,      \* hasApprovedRemoval and hasApprovedThreshold
    session, shareEpoch, zeroShareSubmitted
vaultVars    == <<creator, guardians, approvalThreshold, invites, inviteExpires>>
proposalVars == <<proposals, hasApproved>>
reshareVars  == <<session, shareEpoch, zeroShareSubmitted>>
councilVars == <<now, vaultVars, proposalVars, reshareVars>>

NoProposal == [createdAt |-> 0, approvedBy |-> {}, executed |-> FALSE, vetoed |-> FALSE,
               expiresAt |-> 0, queuedAt |-> 0]
NoSession  == [deadline |-> 0, submittedCount |-> 0, active |-> FALSE]

\* What createVault leaves: the sender is the first guardian, the others are invited; the
\* document whose shares are refreshed was added with it.
CouncilInit ==
    /\ \E c \in Creations : LET sender == c[1]  external == c[2] \ {sender}  threshold == c[3] IN
          /\ external # {} /\ threshold \in 1 .. Cardinality(external) + 1
          /\ creator = sender /\ guardians = {sender} /\ approvalThreshold = threshold
          /\ invites = external
    /\ now = 1 /\ inviteExpires = now + INVITE_TTL
    /\ proposals = [s \in Subjects |-> NoProposal] /\ hasApproved = [s \in Subjects |-> {}]
    /\ session = NoSession /\ shareEpoch = 0 /\ zeroShareSubmitted = {}

\* block.timestamp moves between transactions.
MineBlock == /\ now < MAX_TIME /\ now' = now + 1
             /\ UNCHANGED <<vaultVars, proposalVars, reshareVars>>

GuardianCount == Cardinality(guardians)
\* Mutant: half of the guardians, rounded up, are enough.
requiredQuorumApprovals_half(guardianCount) == (guardianCount + 1) \div 2

requiredQuorumApprovals(guardianCount) == ((guardianCount + 1) \div 2) + 1
-----------------------------------------------------------------------------
(* Guardian invites (SpooVault.sol). *)
\* Mutant: the invite stays open once it is accepted.
acceptGuardianInvite_reusable(sender) ==
    /\ sender \notin guardians
    /\ sender \in invites /\ inviteExpires > now
    /\ guardians' = guardians \cup {sender}
    /\ UNCHANGED <<now, creator, approvalThreshold, invites, inviteExpires, proposalVars, reshareVars>>

acceptGuardianInvite(sender) ==
    /\ sender \notin guardians
    /\ sender \in invites /\ inviteExpires > now
    /\ invites' = invites \ {sender}
    /\ guardians' = guardians \cup {sender}
    /\ UNCHANGED <<now, creator, approvalThreshold, inviteExpires, proposalVars, reshareVars>>
-----------------------------------------------------------------------------
(* Proposals (SpooVaultAdminLogic.sol). *)
Live(s) == /\ proposals[s].createdAt # 0 /\ proposals[s].expiresAt > now
           /\ ~proposals[s].executed /\ ~proposals[s].vetoed

Proposable(s) == IF s \in Members THEN s \in guardians /\ GuardianCount > 1
                 ELSE s <= GuardianCount

\* proposeGuardianRemoval and proposeThresholdUpdate: a new record replaces a dead one, the
\* approval marks of the old one stay.
propose(sender, s) ==
    /\ sender \in guardians
    /\ Proposable(s)
    /\ ~Live(s)
    /\ proposals' = [proposals EXCEPT ![s] =
          [NoProposal EXCEPT !.createdAt = now, !.expiresAt = now + PROPOSAL_TTL]]
    /\ UNCHANGED <<now, hasApproved, vaultVars, reshareVars>>

\* approveGuardianRemoval and approveThresholdUpdate.
approve(sender, s) ==
    /\ sender \in guardians
    /\ Live(s)
    /\ sender \notin hasApproved[s]
    /\ hasApproved' = [hasApproved EXCEPT ![s] = @ \cup {sender}]
    /\ proposals' = [proposals EXCEPT ![s].approvedBy = @ \cup {sender}]
    /\ UNCHANGED <<now, vaultVars, reshareVars>>

Has(s) == s \in Subjects /\ proposals[s].createdAt # 0 /\ ~proposals[s].executed
Present(s) == Has(s) /\ proposals[s].expiresAt > now

\* The two proposals a reconfiguration call names; NoMember and 0 name none.
Named(g, t) == {s \in {g, t} : Present(s)}
Approved(s) == Cardinality(proposals[s].approvedBy) >= requiredQuorumApprovals(GuardianCount)

queueVaultReconfiguration(sender, g, t) ==
    /\ sender \in guardians
    /\ Named(g, t) # {}
    /\ \A s \in Named(g, t) :
          ~proposals[s].vetoed /\ proposals[s].queuedAt = 0 /\ Approved(s)
    /\ proposals' = [s \in Subjects |->
          IF s \in Named(g, t) THEN [proposals[s] EXCEPT !.queuedAt = now] ELSE proposals[s]]
    /\ UNCHANGED <<now, hasApproved, vaultVars, reshareVars>>

\* Mutant: a veto that arrives after the execution is recorded all the same.
cancelVaultReconfiguration_late(sender, g, t) ==
    /\ sender = creator
    /\ \E s \in {g, t} \cap Subjects : proposals[s].createdAt # 0
    /\ proposals' = [s \in Subjects |->
          IF s \in {g, t} /\ proposals[s].createdAt # 0
          THEN [proposals[s] EXCEPT !.vetoed = TRUE] ELSE proposals[s]]
    /\ UNCHANGED <<now, hasApproved, vaultVars, reshareVars>>

\* The creator's veto; it does not look at the expiry.
cancelVaultReconfiguration(sender, g, t) ==
    /\ sender = creator
    /\ \E s \in {g, t} : Has(s)
    /\ proposals' = [s \in Subjects |->
          IF s \in {g, t} /\ Has(s) THEN [proposals[s] EXCEPT !.vetoed = TRUE] ELSE proposals[s]]
    /\ UNCHANGED <<now, hasApproved, vaultVars, reshareVars>>

Executable(s) ==
    /\ ~proposals[s].vetoed
    /\ proposals[s].queuedAt # 0 /\ now >= proposals[s].queuedAt + TIMELOCK_DELAY
    /\ Approved(s)

\* Mutant: the new threshold is compared with the guardians before the removal.
executeVaultReconfiguration_before(g, t) ==
    LET named == Named(g, t) IN
    /\ named # {}
    /\ \A s \in named : Executable(s)
    /\ guardians' = IF g \in named THEN guardians \ {g} ELSE guardians
    /\ IF t \in named THEN t <= GuardianCount /\ approvalThreshold' = t
                      ELSE UNCHANGED approvalThreshold
    /\ proposals' = [s \in Subjects |->
          IF s \in named THEN [proposals[s] EXCEPT !.executed = TRUE] ELSE proposals[s]]
    /\ UNCHANGED <<now, creator, invites, inviteExpires, hasApproved, reshareVars>>

\* Anyone may execute.  The quorum is that of the guardians before the removal, the new
\* threshold is compared with the guardians left after it.
executeVaultReconfiguration(g, t) ==
    LET named == Named(g, t) IN
    /\ named # {}
    /\ \A s \in named : Executable(s)
    /\ guardians' = IF g \in named THEN guardians \ {g} ELSE guardians
    /\ IF t \in named THEN t <= Cardinality(guardians') /\ approvalThreshold' = t
                      ELSE UNCHANGED approvalThreshold
    /\ proposals' = [s \in Subjects |->
          IF s \in named THEN [proposals[s] EXCEPT !.executed = TRUE] ELSE proposals[s]]
    /\ UNCHANGED <<now, creator, invites, inviteExpires, hasApproved, reshareVars>>
-----------------------------------------------------------------------------
(* Share refresh of one document: every guardian publishes a zero-share commitment, then   *)
(* the redistributed shares are stored and the epoch advances.                             *)
startShareRefresh(sender, duration) ==
    /\ sender \in guardians
    /\ ~session.active /\ shareEpoch < MAX_EPOCH
    /\ MIN_DURATION <= duration /\ duration <= MAX_DURATION
    /\ session' = [deadline |-> now + duration, submittedCount |-> 0, active |-> TRUE]
    /\ UNCHANGED <<now, shareEpoch, zeroShareSubmitted, vaultVars, proposalVars>>

\* Mutant: a guardian's second submission in one epoch is not refused.
submitZeroShareCommitment_any(sender) ==
    /\ session.active /\ now <= session.deadline
    /\ sender \in guardians
    /\ zeroShareSubmitted' = zeroShareSubmitted \cup {<<shareEpoch + 1, sender>>}
    /\ session' = [session EXCEPT !.submittedCount = @ + 1]
    /\ UNCHANGED <<now, shareEpoch, vaultVars, proposalVars>>

submitZeroShareCommitment(sender) ==
    /\ session.active /\ now <= session.deadline
    /\ sender \in guardians
    /\ <<shareEpoch + 1, sender>> \notin zeroShareSubmitted
    /\ zeroShareSubmitted' = zeroShareSubmitted \cup {<<shareEpoch + 1, sender>>}
    /\ session' = [session EXCEPT !.submittedCount = @ + 1]
    /\ UNCHANGED <<now, shareEpoch, vaultVars, proposalVars>>

\* The list of shares must name every guardian once, so it adds no case of its own.
applyShareRefresh(sender) ==
    /\ session.active
    /\ sender \in guardians
    /\ session.submittedCount >= GuardianCount
    /\ session' = [session EXCEPT !.active = FALSE]
    /\ shareEpoch' = shareEpoch + 1
    /\ UNCHANGED <<now, zeroShareSubmitted, vaultVars, proposalVars>>
-----------------------------------------------------------------------------
Reconfigure(g, t) ==
    \/ \E sender \in Members :
          queueVaultReconfiguration(sender, g, t) \/ cancelVaultReconfiguration(sender, g, t)
    \/ executeVaultReconfiguration(g, t)

CouncilNext ==
    \/ MineBlock
    \/ \E g \in (Subjects \cap Members) \cup {NoMember}, t \in (Subjects \ Members) \cup {0} :
          Reconfigure(g, t)
    \/ \E sender \in Members :
          \/ acceptGuardianInvite(sender)
          \/ \E s \in Explored[creator] : propose(sender, s) \/ approve(sender, s)
          \/ \E d \in Durations[creator] : startShareRefresh(sender, d)
          \/ submitZeroShareCommitment(sender)
          \/ applyShareRefresh(sender)

CouncilSpec == CouncilInit /\ [][CouncilNext]_councilVars
-----------------------------------------------------------------------------
\* Types; every timestamp the contract computes is one of its unsigned integers.
CouncilTypeOK ==
    /\ now \in 1 .. MAX_TIME /\ creator \in Members
    /\ guardians \subseteq Members /\ approvalThreshold \in Nat
    /\ invites \subseteq Members /\ inviteExpires \in Nat
    /\ proposals \in [Subjects -> [createdAt : Nat, approvedBy : SUBSET Members,
          executed : BOOLEAN, vetoed : BOOLEAN, expiresAt : Nat, queuedAt : Nat]]
    /\ hasApproved \in [Subjects -> SUBSET Members]
    /\ session \in [deadline : Nat, submittedCount : Nat, active : BOOLEAN]
    /\ shareEpoch \in Nat /\ zeroShareSubmitted \subseteq Nat \X Members

\* No guardian reconfigures a vault alone: what was executed had been approved by two
\* distinct accounts, each of which marked its approval itself, whatever the number of
\* guardians was when it was queued and when it was executed (requiredQuorumApprovals).
NoLoneReconfiguration ==
    \A s \in Subjects : proposals[s].executed =>
       /\ Cardinality(proposals[s].approvedBy) >= 2
       /\ proposals[s].approvedBy \subseteq hasApproved[s]

\* The creator's veto and the permissionless execution exclude each other: a vetoed proposal
\* is never executed, and an executed one is never reported as vetoed.
VetoHolds == \A s \in Subjects : ~(proposals[s].vetoed /\ proposals[s].executed)

\* A guardian whose removal was executed stays out: its invite is spent and nobody can
\* propose its removal again (acceptGuardianInvite, executeVaultReconfiguration).
RemovedStayOut ==
    \A s \in Subjects \cap Members :
       proposals[s].executed => s \notin guardians /\ s \notin invites

\* The counter that closes a refresh counts the commitments of the epoch under way: sessions
\* never inherit a count or a commitment from an earlier one.
CommitmentsCounted ==
    /\ session.active =>
          session.submittedCount = Cardinality({p \in zeroShareSubmitted : p[1] = shareEpoch + 1})
    /\ \A p \in zeroShareSubmitted : p[1] <= shareEpoch + 1
    /\ ~session.active => \A p \in zeroShareSubmitted : p[1] <= shareEpoch

\* The council of a vault: no guardian reconfigures it alone (a proposal that executes had a
\* quorum), what the creator vetoed never executes, who was removed holds no invite and no seat,
\* and a refresh counts the commitments that were handed in (SpooVault.sol and
\* SpooVaultAdminLogic.sol).
CouncilKeepsItsRules ==
    CouncilTypeOK /\ NoLoneReconfiguration /\ VetoHolds /\ RemovedStayOut /\ CommitmentsCounted

\* A threshold that is set can be met by the guardians left after the same call, also when
\* the call removes one of them.
ThresholdFits ==
    approvalThreshold' # approvalThreshold => approvalThreshold' \in 1 .. Cardinality(guardians')
ThresholdFitsGuardians == [][ThresholdFits]_councilVars
-----------------------------------------------------------------------------
\* The comment on applyShareRefresh: a refresh is final only once every current guardian
\* has published its commitment for the epoch.  Refuted: a guardian that published and was
\* then removed is still counted.
RefreshCoversGuardians ==
    [][shareEpoch' # shareEpoch =>
          \A g \in guardians : <<shareEpoch', g>> \in zeroShareSubmitted]_councilVars

\* The project's notes on reconfiguration (IMPLEMENTATION_SUMMARY.md): validation ensures that
\* the threshold is at most the number of guardians after a removal.  Refuted: only a threshold
\* updated by the same call of executeVaultReconfiguration is compared with the guardians left.
RemovalLeavesQuorum ==
    [][\A g \in Subjects \cap Members :
          ~proposals[g].executed /\ proposals'[g].executed
             => approvalThreshold' <= Cardinality(guardians')]_councilVars
=============================================================================
