-------------------------- MODULE TradeProperties ---------------------------
(***************************************************************************)
(* What the match lifecycle promises.  The first group holds however       *)
(* requests, the matcher and failures interleave; the second is what the   *)
(* code promises of requests and matcher passes that do not overlap        *)
(* (SerialSpec), and what the violation runs refute of overlapping ones.   *)
(***************************************************************************)
EXTENDS TradeLifecycle

Agreed == {"ACCEPTED", "COMPLETED"}

(***************************************************************************)
(* What two users agreed on never changes again: once a match is ACCEPTED  *)
(* no counter-offer that was already under way, no delete and no matcher   *)
(* pass touches its legs (change_status, offer, reopen_terminal).          *)
(***************************************************************************)
AgreedTermsFrozen ==
    [][\A k \in Keys :
        matches[k].status \in Agreed => matches'[k].legs = matches[k].legs]_vars

(***************************************************************************)
(* No agreement is one-sided: both participants of an ACCEPTED or          *)
(* COMPLETED match give the same, non-zero, total (is_balanced), whatever  *)
(* counter-offer raced the acceptance.                                     *)
(***************************************************************************)
AgreedTermsBalanced ==
    \A k \in Keys : matches[k].status \in Agreed => IsBalanced(matches[k].legs, k)

(***************************************************************************)
(* A completion freezes the match (ADR 0018): a cancel or a rematch that   *)
(* was decided before never takes it back, and no flag is ever unset.      *)
(***************************************************************************)
CompletedIsFinal ==
    [][\A k \in Keys : matches[k].status = "COMPLETED" =>
        /\ matches'[k].status = "COMPLETED"
        /\ matches[k].completed \subseteq matches'[k].completed
        /\ matches[k].applied \subseteq matches'[k].applied]_vars

(***************************************************************************)
(* The per-user flags agree with the status: somebody completed exactly    *)
(* when the match is COMPLETED, and only who completed has applied.        *)
(***************************************************************************)
FlagsFollowStatus ==
    \A k \in Keys :
        /\ matches[k].completed # {} <=> matches[k].status = "COMPLETED"
        /\ matches[k].completed \subseteq Participants(k)
        /\ matches[k].applied \subseteq matches[k].completed

(***************************************************************************)
(* A proposal on the table changes only by changing hands: the proposer    *)
(* cannot alter what the other side is looking at, and the acceptance is   *)
(* the other side's, of exactly the legs that were on the table            *)
(* (validate_propose_transition, change_status under FOR UPDATE).          *)
(***************************************************************************)
OnlyCounterpartyAnswers ==
    [][\A k \in Keys : matches[k].status = "OFFERED" =>
        /\ matches'[k].status = "OFFERED" /\ matches'[k] # matches[k] =>
             matches'[k].offeredBy \in Participants(k) \ {matches[k].offeredBy}
        /\ matches'[k].status = "ACCEPTED" =>
             /\ matches'[k].legs = matches[k].legs
             /\ \E s \in Sessions : /\ tx[s].op = "accept"
                                    /\ tx[s].key = k
                                    /\ tx[s].user # matches[k].offeredBy]_vars

(***************************************************************************)
(* Every negotiation starts clean: a PENDING match, new or reopened, has   *)
(* no legs and no proposer, although a cancel keeps both and a reject      *)
(* keeps the proposer (reopen_terminal, ADR 0012).                         *)
(***************************************************************************)
PendingIsClean ==
    \A k \in Keys : matches[k].status = "PENDING" =>
        matches[k].legs = NoLegs /\ matches[k].offeredBy = NoUser

(***************************************************************************)
(* The chat tells each cancel once: notices of a cancel and of the rematch *)
(* that follows it alternate, and the match is CANCELLED exactly when the  *)
(* last notice says so, even when two transactions condemned the match at  *)
(* the same time (system_cancel_matches).                                  *)
(***************************************************************************)
NoticesTellTheStory ==
    \A k \in Keys :
        LET n == matches[k].notices
        IN  /\ matches[k].status = "CANCELLED" <=>
                 n # <<>> /\ n[Len(n)] \in CancelReasons
            /\ \A i \in DOMAIN n : n[i] \in CancelReasons /\ i < Len(n) =>
                 n[i + 1] = "REMATCH_AFTER_CANCELLED"
            /\ \A i \in DOMAIN n : n[i] = "REMATCH_AFTER_CANCELLED" =>
                 i > 1 /\ n[i - 1] \in CancelReasons

(***************************************************************************)
(* A trade is applied exactly once for each side (#492): a user who        *)
(* neither edits HAVE of a merch nor puts it up for trade has exactly what *)
(* the matches marked applied added, under concurrent applies, retries and *)
(* rollbacks.                                                              *)
(***************************************************************************)
ReceivedOnce ==
    \A u \in Users, m \in Merch :
        /\ {<<u, m, "HAVE">>, <<u, m, "TRADE">>} \cap EditRows = {}
        /\ \A stock \in Stocks : stock[<<u, m, "TRADE">>] = 0
        => \E stock \in Stocks :
             inv[<<u, m, "HAVE">>] = stock[<<u, m, "HAVE">>] +
                SumFunction([k \in Keys |->
                    IF u \in matches[k].applied
                    THEN matches[k].legs[<<OtherParticipant(k, u), m>>] ELSE 0])

(***************************************************************************)
(* Liveness of the matcher: as long as u wants x which v trades and v      *)
(* wants y which u trades, all in group g, a match of the two in g is      *)
(* eventually open (or completed, or out of its rematch bound).            *)
(***************************************************************************)
MutualEdge(u, v, x, y, g) ==
    /\ <<u, x, g>> \in MatchableWants
    /\ v \in UsersTradingMerch(x, u)
    /\ y \in TradeMerchInGroup(u, g)
    /\ WantsLiveMerch(v, y)

OpenOrDone(row) ==
    \/ row.status \in Active \cup {"COMPLETED"}
    \/ row.status \in Terminal /\ RematchCount(row) >= MaxRematch

MutualEdgeIsMatched ==
    \A u, v \in Users : \A x, y \in Merch : \A g \in Groups :
        u # v => ((<>[]MutualEdge(u, v, x, y, g)) =>
                    []<>OpenOrDone(matches[<<{u, v}, g>>]))

(***************************************************************************)
(* Every request ends: it commits, fails or falls to the deadlock          *)
(* detector, although an inventory edit takes the inventory row before the *)
(* match row and apply takes the match row before the inventory row.       *)
(***************************************************************************)
RequestsEnd == \A s \in Sessions : tx[s] # Idle ~> tx[s] = Idle

(***************************************************************************)
(* A transaction is still entitled to commit when it does: between its     *)
(* checks and its commit no cancel, matcher pass or other request changes  *)
(* what the checks saw of the match row (find_for_update).                 *)
(***************************************************************************)
CheckHolds(s) ==
    LET t == tx[s]
        row == matches[t.key]
    IN  /\ t.op \in {"offer", "accept", "gate", "apply"} =>
             t.user \in Participants(t.key)
        /\ t.op = "offer" => MayPropose(row, t.user)
        /\ t.op = "accept" =>
             /\ row.status = "OFFERED"
             /\ row.offeredBy # t.user
             /\ IsBalanced(row.legs, t.key)
        /\ t.op \in {"gate", "apply"} =>
             /\ row.status = "COMPLETED"
             /\ t.user \in row.completed \ row.applied

ChecksStillHold == \A s \in Sessions : CheckHolds(s)

(***************************************************************************)
(* The match of key k as a negotiation of its two participants: what they  *)
(* can agree on is a balanced exchange.                                    *)
(***************************************************************************)
Deal(k) ==
    INSTANCE Negotiation WITH
        Parties <- Participants(k),
        NoProposer <- NoUser,
        Terms <- [Legs -> 0..MaxQty],
        NoTerms <- NoLegs,
        FairTerms <- {lg \in [Legs -> 0..MaxQty] : IsBalanced(lg, k)},
        status <- matches[k].status,
        proposer <- matches[k].offeredBy,
        terms <- matches[k].legs,
        completed <- matches[k].completed,
        applied <- matches[k].applied

(***************************************************************************)
(* Whatever requests, cancels and matcher passes do at the same time, each *)
(* match goes through one negotiation, step by step: the lifecycle         *)
(* implements Negotiation for every key.                                   *)
(***************************************************************************)
EveryMatchNegotiates ==
    /\ \A k \in Keys : Deal(k)!Init
    /\ [][\A k \in Keys : [Deal(k)!Next]_(Deal(k)!vars)]_vars

-----------------------------------------------------------------------------
(***************************************************************************)
(* ADR 0010: no match lingers in negotiation once either side has nothing  *)
(* to give that the other wants.                                           *)
(***************************************************************************)
ActiveKeepsCapacity ==
    \A k \in ActiveKeys : ~RequiresCancel(inv, group, live, k)

(***************************************************************************)
(* ADR 0008, decision 6: no PENDING, OFFERED or ACCEPTED match outlives a  *)
(* deleted item it references.                                             *)
(***************************************************************************)
ActiveLegsLive ==
    \A k \in ActiveKeys : \A l \in Legs : matches[k].legs[l] > 0 => l[2] \in live

(***************************************************************************)
(* ADR 0001: every leg of a match under negotiation belongs to its group.  *)
(***************************************************************************)
ActiveLegsInGroup ==
    \A k \in ActiveKeys : \A l \in Legs :
        matches[k].legs[l] > 0 => group[l[2]] = GroupOf(k)

(***************************************************************************)
(* ADR 0014: apply fails closed on TRADE and clamps HAVE and WANT, so that *)
(* no trade takes a quantity below zero, or further below.  Nothing stops  *)
(* a user from entering a negative quantity, and nothing else makes one.   *)
(***************************************************************************)
OnlyEntriesGoNegative ==
    [][\A r \in Rows :
        inv'[r] < 0 /\ inv'[r] < inv[r] =>
            \E s \in Sessions : /\ tx[s].op = "edit"
                                /\ tx[s].row = r
                                /\ tx[s].qty = inv'[r]]_vars

(***************************************************************************)
(* The system cancels a match only for a reason that is true when it does: *)
(* no capacity one way, or a leg on merch that is gone.                    *)
(***************************************************************************)
CancelledForCause ==
    [][\A k \in Keys :
        matches[k].status \in Active /\ matches'[k].status = "CANCELLED" =>
            \/ RequiresCancel(inv, group, live, k)'
            \/ \E l \in Legs : matches[k].legs[l] > 0 /\ l[2] \notin live']_vars

(***************************************************************************)
(* The matcher opens or reopens a match only between two users who can     *)
(* trade both ways at that moment and of whom neither is banned.           *)
(***************************************************************************)
OpenedOnEvidence ==
    [][\A k \in Keys :
        matches'[k].status = "PENDING" /\ matches[k].status # "PENDING" =>
            /\ ~RequiresCancel(inv, group, live, k)
            /\ Participants(k) \cap banned = {}]_vars

=============================================================================
