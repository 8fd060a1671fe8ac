---------------------------- MODULE Negotiation -----------------------------
(***************************************************************************)
(* What one match promises its two parties, without transactions, locks or *)
(* a database: terms are proposed in turns, agreed as they lie on the      *)
(* table, then completed and applied once by each party.  Every match of   *)
(* TradeLifecycle is one such negotiation.                                 *)
(***************************************************************************)
CONSTANTS
    Parties,     \* who negotiates
    NoProposer,  \* nobody has proposed
    Terms,       \* what can be proposed
    NoTerms,     \* the empty proposal
    FairTerms    \* the proposals both parties can agree on

VARIABLES
    status,
    proposer,
    terms,
    completed,   \* the parties who confirmed the exchange
    applied      \* the parties whose inventory reflects it

vars == <<status, proposer, terms, completed, applied>>

Open == {"PENDING", "OFFERED", "ACCEPTED"}
Ended == {"REJECTED", "CANCELLED"}

Init ==
    /\ status = "NONE"
    /\ proposer = NoProposer
    /\ terms = NoTerms
    /\ completed = {}
    /\ applied = {}

Start ==
    /\ status \in {"NONE"} \cup Ended
    /\ status' = "PENDING"
    /\ proposer' = NoProposer
    /\ terms' = NoTerms
    /\ UNCHANGED <<completed, applied>>

Propose(p) ==
    /\ \/ status = "PENDING"
       \/ status = "OFFERED" /\ proposer # p
    /\ status' = "OFFERED"
    /\ proposer' = p
    /\ terms' \in Terms
    /\ UNCHANGED <<completed, applied>>

Agree ==
    /\ status = "OFFERED"
    /\ terms \in FairTerms
    /\ status' = "ACCEPTED"
    /\ UNCHANGED <<proposer, terms, completed, applied>>

Decline ==
    /\ status \in {"PENDING", "OFFERED"}
    /\ status' = "REJECTED"
    /\ terms' = NoTerms
    /\ UNCHANGED <<proposer, completed, applied>>

Withdraw ==
    /\ status \in Open
    /\ status' = "CANCELLED"
    /\ UNCHANGED <<proposer, terms, completed, applied>>

Complete(p) ==
    /\ status \in {"ACCEPTED", "COMPLETED"}
    /\ status' = "COMPLETED"
    /\ completed' = completed \cup {p}
    /\ UNCHANGED <<proposer, terms, applied>>

Apply(p) ==
    /\ status = "COMPLETED"
    /\ p \in completed \ applied
    /\ applied' = applied \cup {p}
    /\ UNCHANGED <<status, proposer, terms, completed>>

Next ==
    \/ Start \/ Agree \/ Decline \/ Withdraw
    \/ \E p \in Parties : Propose(p) \/ Complete(p) \/ Apply(p)

Spec == Init /\ [][Next]_vars

-----------------------------------------------------------------------------
(***************************************************************************)
(* What lies on the table fits the status: only fair terms are agreed, a   *)
(* proposal has a proposer, a new negotiation is clean, and the flags of   *)
(* the parties follow the completion.                                      *)
(***************************************************************************)
Sound ==
    /\ terms \in Terms
    /\ status \in {"ACCEPTED", "COMPLETED"} => terms \in FairTerms
    /\ status = "OFFERED" => proposer \in Parties
    /\ status = "PENDING" => terms = NoTerms /\ proposer = NoProposer
    /\ completed # {} <=> status = "COMPLETED"
    /\ completed \subseteq Parties
    /\ applied \subseteq completed

=============================================================================
