---------------------------- MODULE MakerContract ----------------------------
(***************************************************************************)
(* The lifecycle of the maker contract (contracts/maker/src/contract.rs):  *)
(* instantiate saves the configuration with a placeholder LP-token address *)
(* and asks, in a reply_on_success sub-message, for a cw20 LP token to be  *)
(* instantiated; reply records the child's address; mint_to_user and      *)
(* burn_from_user send Mint/BurnFrom to the recorded address.  A CosmWasm *)
(* transaction is atomic: an error or a panic anywhere in it, sub-messages *)
(* and replies included, reverts everything it wrote.  The model keeps    *)
(* the transaction's uncommitted storage apart from the committed one.     *)
(***************************************************************************)
EXTENDS FixedPoint

CONSTANTS
    ContractAddr,   \* env.contract.address of the maker contract
    Senders,        \* addresses that may send MintToUser / BurnFromUser
    Children,       \* addresses the chain may give the cw20 child
    BpInputs,       \* the *_bp strings of InstantiateMsg that parse, as numbers
    DensityInputs,  \* the order_density strings that parse, as numbers
    Unparsable      \* a string Decimal::from_str / Uint256::from_str rejects

ASSUME ContractAssumption ==
    /\ ContractAddr \in Senders
    /\ BpInputs \subseteq Nat /\ DensityInputs \subseteq Nat
    /\ Unparsable \notin Nat

\* lp_token_address as instantiate first stores it.
Placeholder == "LP-Token"

\* The storage before instantiate has run: config_read(...).load() fails.
NoConfig == [lp_token_address |-> "none"]

\* The part of InstantiateMsg whose handling the model follows.
Input == [head_chg_tol_bp : BpInputs \cup {Unparsable},
          tail_dist_from_mid_bp : BpInputs \cup {Unparsable},
          min_tail_dist_bp : BpInputs \cup {Unparsable},
          order_density : DensityInputs \cup {Unparsable}]

\* The part of State (state.rs) the model follows.
StateRec == [head_chg_tol : Nat, tail_dist_from_mid : Nat, min_tail_dist : Nat,
             order_density : Nat, lp_token_address : {Placeholder} \cup Children]

VARIABLES
    stored,     \* the committed config singleton, or NoConfig
    tx,         \* "idle", or "await_child" while instantiate's sub-message runs
    scratch,    \* the config written by the transaction in progress
    children,   \* cw20 contracts that exist (committed)
    msgs        \* Mint / BurnFrom messages the contract has sent (committed)

vars == <<stored, tx, scratch, children, msgs>>

WasmMsg == [kind : {"mint", "burn"}, contract_addr : {Placeholder} \cup Children,
            sender : Senders]

TypeOK ==
    /\ stored \in StateRec \cup {NoConfig}
    /\ tx \in {"idle", "await_child"}
    /\ scratch \in StateRec \cup {NoConfig}
    /\ children \subseteq Children
    /\ msgs \subseteq WasmMsg

Init ==
    /\ stored = NoConfig
    /\ tx = "idle"
    /\ scratch = NoConfig
    /\ children = {}
    /\ msgs = {}

-----------------------------------------------------------------------------
\* Every field parses: none of the unwraps of instantiate panics.
Parses(in) == \A f \in DOMAIN in : in[f] # Unparsable

(* instantiate: the parsed configuration, the bp fields through bp_to_dec, *)
(* and the placeholder address; a field that does not parse panics and    *)
(* the transaction stores nothing.                                         *)
Instantiate ==
    /\ tx = "idle" /\ stored = NoConfig
    /\ \E in \in Input :
          IF Parses(in)
          THEN /\ scratch' = [head_chg_tol       |-> BpToDec(FromNat(in.head_chg_tol_bp)),
                              tail_dist_from_mid |-> BpToDec(FromNat(in.tail_dist_from_mid_bp)),
                              min_tail_dist      |-> BpToDec(FromNat(in.min_tail_dist_bp)),
                              order_density      |-> in.order_density,
                              lp_token_address   |-> Placeholder]
               /\ tx' = "await_child"
          ELSE UNCHANGED <<scratch, tx>>
    /\ UNCHANGED <<stored, children, msgs>>

\* Mutant: handle_instantiate_reply commits without saving the child's address.
ChildInstantiatedNoSave ==
    /\ tx = "await_child"
    /\ \E c \in Children \ children :
          /\ stored' = scratch
          /\ children' = children \cup {c}
    /\ tx' = "idle" /\ scratch' = NoConfig
    /\ UNCHANGED msgs

(* Mutant: a reply arrives that no pending sub-message asked for (a second *)
(* sub-message with INSTANTIATE_REPLY_ID); handle_instantiate_reply loads  *)
(* whatever config storage holds and records the new child in it.         *)
ChildInstantiatedAnyTx ==
    /\ tx = "await_child" \/ stored # NoConfig
    /\ \E c \in Children \ children :
          /\ stored' = [(IF tx = "await_child" THEN scratch ELSE stored)
                            EXCEPT !.lp_token_address = c]
          /\ children' = children \cup {c}
    /\ tx' = "idle" /\ scratch' = NoConfig
    /\ UNCHANGED msgs

(* The cw20 instantiation succeeds, so reply runs with INSTANTIATE_REPLY_ID *)
(* and handle_instantiate_reply saves the child's address; the whole      *)
(* transaction then commits.                                              *)
ChildInstantiated ==
    /\ tx = "await_child"
    /\ \E c \in Children \ children :
          /\ stored' = [scratch EXCEPT !.lp_token_address = c]
          /\ children' = children \cup {c}
    /\ tx' = "idle" /\ scratch' = NoConfig
    /\ UNCHANGED msgs

(* The cw20 instantiation fails: reply_on_success does not call reply, the *)
(* error propagates and the whole transaction, config included, reverts.   *)
ChildFails ==
    /\ tx = "await_child"
    /\ tx' = "idle" /\ scratch' = NoConfig
    /\ UNCHANGED <<stored, children, msgs>>

(* Mutant: the message is addressed to env.contract.address, the maker   *)
(* itself, instead of the stored lp_token_address.                        *)
SendLpMsgToSelf(kind) ==
    /\ tx = "idle"
    /\ stored # NoConfig
    /\ \E s \in Senders :
          msgs' = msgs \cup {[kind |-> kind, contract_addr |-> ContractAddr, sender |-> s]}
    /\ UNCHANGED <<stored, tx, scratch, children>>

(* mint_to_user / burn_from_user: load the config, call only_owner, whose *)
(* result is not used, and send the cw20 message to the stored            *)
(* lp_token_address.  The chain executes a contract only once its         *)
(* instantiate has committed, so the config is there to load.             *)
SendLpMsg(kind) ==
    /\ tx = "idle"
    /\ stored # NoConfig
    /\ \E s \in Senders :
          msgs' = msgs \cup {[kind |-> kind, contract_addr |-> stored.lp_token_address,
                              sender |-> s]}
    /\ UNCHANGED <<stored, tx, scratch, children>>

MintToUser == SendLpMsg("mint")

BurnFromUser == SendLpMsg("burn")

Next ==
    \/ Instantiate
    \/ ChildInstantiated
    \/ ChildFails
    \/ MintToUser
    \/ BurnFromUser

Spec == Init /\ [][Next]_vars

-----------------------------------------------------------------------------
(* Every Mint and BurnFrom the contract sends goes to a cw20 contract that *)
(* exists, never to the "LP-Token" placeholder that instantiate stores:   *)
(* the placeholder is only ever seen inside the instantiate transaction,  *)
(* which reply completes or the failed sub-message reverts.               *)
LpTokenBound ==
    /\ \A m \in msgs : m.contract_addr \in children
    /\ stored # NoConfig => stored.lp_token_address \in children

(* The lifecycle implements ContractAbstract: the contract counts as      *)
(* configured once instantiate's transaction has committed, and its token *)
(* is the lp_token_address stored.  The transaction, the placeholder and  *)
(* the failed attempts are invisible: instantiate and a failed child are  *)
(* stutters, the reply is the one Configure step, with a real child as    *)
(* the token, and a mint or burn is a Send to that token.                 *)
Lifecycle == INSTANCE ContractAbstract
                 WITH configured <- stored # NoConfig,
                      token <- stored.lp_token_address,
                      sent <- msgs,
                      Tokens <- Children

LifecycleSpec == Lifecycle!Spec

(* Spec 3 and 4.9: out-of-range fractions and a zero order_density are   *)
(* rejected at configuration time.  instantiate stores whatever parses.  *)
ConfigValidated ==
    stored # NoConfig =>
        /\ stored.head_chg_tol <= ONE
        /\ stored.tail_dist_from_mid <= ONE
        /\ stored.min_tail_dist <= ONE
        /\ stored.order_density > 0

=============================================================================
