--------------------------- MODULE ContractAbstract ---------------------------
(***************************************************************************)
(* What the maker contract's lifecycle promises, without transactions or  *)
(* sub-messages: the contract becomes configured in one step, and at that *)
(* step it is bound to an LP token contract; only a configured contract   *)
(* sends Mint and BurnFrom, and it sends them to that token.              *)
(***************************************************************************)
CONSTANTS
    Tokens,     \* the addresses an LP token contract may have
    Senders     \* the addresses that may ask for a mint or a burn

VARIABLES
    configured, \* the contract has been set up
    token,      \* the LP token it is bound to (meaningful once configured)
    sent        \* the Mint and BurnFrom messages sent

absVars == <<configured, token, sent>>

Init == configured = FALSE /\ sent = {}

\* Set-up and the binding to an LP token happen together, once.
Configure ==
    /\ configured = FALSE
    /\ configured' = TRUE
    /\ token' \in Tokens
    /\ sent' = sent

\* A configured contract sends a Mint or a BurnFrom to its token.
Send ==
    /\ configured = TRUE
    /\ \E kind \in {"mint", "burn"}, s \in Senders :
          sent' = sent \cup {[kind |-> kind, contract_addr |-> token, sender |-> s]}
    /\ UNCHANGED <<configured, token>>

Spec == Init /\ [][Configure \/ Send]_absVars

=============================================================================
