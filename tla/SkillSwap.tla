----------------------------- MODULE SkillSwap -----------------------------
(***************************************************************************)
(* The backend as its clients see it: calls of the exchange, session,      *)
(* profile and trust services in any order against the shared tables.      *)
(*                                                                         *)
(* A handler checks the caller's account once, in the authentication       *)
(* middleware; a call in flight when its account is suspended still runs.  *)
(* The services do not look at it again, so no action here does.           *)
(***************************************************************************)
EXTENDS Exchanges, Sessions, Profiles, Trust

CONSTANTS
    BlockPairs,     \* bound: the <<blocker, blocked>> pairs that use the block list
    Moderated,      \* bound: the accounts an administrator acts on
    Leavers,        \* bound: the accounts that may be deleted
    EditedRows,     \* bound: the skill rows removed and added back
    PrivacyUsers    \* bound: the accounts that change their privacy settings

ASSUME ActorsAssumption ==
    /\ BlockPairs \subseteq Users \X Users
    /\ Moderated \subseteq Users
    /\ Leavers \subseteq Users
    /\ EditedRows \subseteq SkillRow
    /\ PrivacyUsers \subseteq Users

RequestNext ==
    \E q \in Requests :
        \/ ValidateRequest(q)
        \/ InsertRequest(q)
        \/ AbandonRequest(q)
        \/ DeclineRequest(q)
        \/ WithdrawRequest(q)
        \/ AcceptRequest(q)

ExchangeNext ==
    \E q \in Requests :
        \/ CancelExchange(q)
        \/ \E u \in Parties(q) : CompleteExchange(q, u)

ProposalNext ==
    \E q \in Requests : \E u \in Parties(q), s \in Slots :
        \/ \E t \in Parties(q) : ProposeExchangeSession(q, u, t, s)
        \/ \E n \in Orders : ProposeSession(q, n, u, s)
        \/ \E n \in Orders : ProposeSwappedSession(q, n, u, s)

LessonNext ==
    \E q \in Requests, n \in Orders :
        \/ CancelSession(q, n)
        \/ \E u \in Parties(q) :
              \/ AcceptSessionProposal(q, n, u)
              \/ DeclineSessionProposal(q, n, u)
              \/ ConfirmSessionCompletion(q, n, u)

ProfileNext ==
    \/ \E row \in EditedRows : AddSkill(row) \/ RemoveSkill(row)
    \/ \E u \in PrivacyUsers, setting \in PrivacySetting : UpdatePrivacy(u, setting)

TrustNext ==
    \/ \E pair \in BlockPairs : Block(pair[1], pair[2]) \/ Unblock(pair[1], pair[2])
    \/ \E u \in Moderated : SuspendAccount(u) \/ RestoreAccount(u)
    \/ \E u \in Leavers : DeleteAccount(u)

Next ==
    \/ RequestNext
    \/ ExchangeNext
    \/ ProposalNext
    \/ LessonNext
    \/ ProfileNext
    \/ TrustNext
    \/ Tick

Spec == Init /\ [][Next]_tables
=============================================================================
