------------------------- MODULE MakerContractProofs -------------------------
(***************************************************************************)
(* Proofs about the lifecycle of the maker contract (MakerContract) for    *)
(* every set of senders, children and parsed inputs.                       *)
(***************************************************************************)
EXTENDS MakerContract, TLAPS

USE OneAssumption, ContractAssumption

-----------------------------------------------------------------------------
(* TypeOK and LpTokenBound are not inductive as they stand.  A reply      *)
(* turns scratch into the stored config, so while the sub-message is      *)
(* pending scratch must be a full State (and not NoConfig), and nothing   *)
(* may be committed yet, or the reply would overwrite a config that mints *)
(* and burns already use.                                                 *)
PendingTx ==
    tx = "await_child" => scratch \in StateRec /\ stored = NoConfig

ContractInv == TypeOK /\ PendingTx /\ LpTokenBound

-----------------------------------------------------------------------------
\* bp_to_dec of a parsed number is a Decimal.
LEMMA BpToDecNat ==
    ASSUME NEW n \in Nat
    PROVE  BpToDec(FromNat(n)) \in Nat
  <1>1. FromNat(10000) \in Nat \ {0} /\ FromNat(n) \in Nat
    BY DEF FromNat
  <1>2. QED
    BY <1>1 DEF BpToDec, DivDec, DecDiv

\* The absent config is not a State.
LEMMA NoConfigNotState == NoConfig \notin StateRec
  BY DEF NoConfig, StateRec

LEMMA InitInv == Init => ContractInv
  BY DEF Init, ContractInv, TypeOK, PendingTx, LpTokenBound

(* instantiate, when every field parses, writes a full State into the     *)
(* transaction's storage.                                                 *)
LEMMA ParsedState ==
    ASSUME NEW in \in Input, Parses(in)
    PROVE  [head_chg_tol       |-> BpToDec(FromNat(in.head_chg_tol_bp)),
            tail_dist_from_mid |-> BpToDec(FromNat(in.tail_dist_from_mid_bp)),
            min_tail_dist      |-> BpToDec(FromNat(in.min_tail_dist_bp)),
            order_density      |-> in.order_density,
            lp_token_address   |-> Placeholder] \in StateRec
  <1>1. /\ in.head_chg_tol_bp \in BpInputs
        /\ in.tail_dist_from_mid_bp \in BpInputs
        /\ in.min_tail_dist_bp \in BpInputs
        /\ in.order_density \in DensityInputs
    BY DEF Input, Parses
  <1>2. QED
    BY <1>1, BpToDecNat DEF StateRec

\* Every step keeps the strengthened invariant.
LEMMA InvStep == ContractInv /\ [Next]_vars => ContractInv'
  <1> SUFFICES ASSUME ContractInv, [Next]_vars PROVE ContractInv'
    OBVIOUS
  <1>1. CASE Instantiate
    <2>1. PICK in \in Input :
            IF Parses(in)
            THEN /\ scratch' = [head_chg_tol       |-> BpToDec(FromNat(in.head_chg_tol_bp)),
                                tail_dist_from_mid |-> BpToDec(FromNat(in.tail_dist_from_mid_bp)),
                                min_tail_dist      |-> BpToDec(FromNat(in.min_tail_dist_bp)),
                                order_density      |-> in.order_density,
                                lp_token_address   |-> Placeholder]
                 /\ tx' = "await_child"
            ELSE UNCHANGED <<scratch, tx>>
      BY <1>1 DEF Instantiate
    <2>2. CASE Parses(in)
      BY <1>1, <2>1, <2>2, ParsedState
         DEF Instantiate, ContractInv, TypeOK, PendingTx, LpTokenBound
    <2>3. CASE ~Parses(in)
      BY <1>1, <2>1, <2>3 DEF Instantiate, ContractInv, TypeOK, PendingTx, LpTokenBound
    <2>4. QED
      BY <2>2, <2>3
  <1>2. CASE ChildInstantiated
    <2>1. PICK c \in Children \ children :
            /\ stored' = [scratch EXCEPT !.lp_token_address = c]
            /\ children' = children \cup {c}
      BY <1>2 DEF ChildInstantiated
    <2>2. scratch \in StateRec
      BY <1>2 DEF ChildInstantiated, ContractInv, PendingTx
    <2>3. stored' \in StateRec /\ stored' # NoConfig /\ stored'.lp_token_address \in children'
      BY <2>1, <2>2, NoConfigNotState DEF StateRec
    <2>4. QED
      BY <1>2, <2>1, <2>3 DEF ChildInstantiated, ContractInv, TypeOK, PendingTx, LpTokenBound
  <1>3. CASE ChildFails
    BY <1>3 DEF ChildFails, ContractInv, TypeOK, PendingTx, LpTokenBound
  <1>4. ASSUME NEW kind \in {"mint", "burn"}, SendLpMsg(kind)
        PROVE  ContractInv'
    <2>1. PICK s \in Senders :
            msgs' = msgs \cup {[kind |-> kind, contract_addr |-> stored.lp_token_address,
                                sender |-> s]}
      BY <1>4 DEF SendLpMsg
    <2>2. stored \in StateRec /\ stored.lp_token_address \in children
      BY <1>4, NoConfigNotState DEF SendLpMsg, ContractInv, TypeOK, LpTokenBound
    <2>3. QED
      BY <1>4, <2>1, <2>2
         DEF SendLpMsg, ContractInv, TypeOK, PendingTx, LpTokenBound, WasmMsg, StateRec
  <1>5. CASE UNCHANGED vars
    BY <1>5 DEF vars, ContractInv, TypeOK, PendingTx, LpTokenBound
  <1>6. QED
    BY <1>1, <1>2, <1>3, <1>4, <1>5 DEF Next, MintToUser, BurnFromUser

-----------------------------------------------------------------------------
(* The contract's storage and its messages keep their types in every      *)
(* run: what instantiate parses and reply records is a full State.        *)
THEOREM ContractTypeCorrect == Spec => []TypeOK
  <1>1. ContractInv => TypeOK
    BY DEF ContractInv
  <1>2. QED
    BY <1>1, InitInv, InvStep, PTL DEF Spec

(* Every Mint and BurnFrom goes to a cw20 contract that exists, never to  *)
(* the "LP-Token" placeholder, whether the child's instantiation succeeds *)
(* or fails: reply_on_success and the atomic transaction keep the         *)
(* placeholder from ever being committed.                                 *)
THEOREM LpTokenAlwaysBound == Spec => []LpTokenBound
  <1>1. ContractInv => LpTokenBound
    BY DEF ContractInv
  <1>2. QED
    BY <1>1, InitInv, InvStep, PTL DEF Spec


-----------------------------------------------------------------------------
(* The refinement of ContractAbstract.  While nothing is committed the    *)
(* abstract contract is unconfigured; the reply that commits is the one   *)
(* Configure, because PendingTx says nothing was committed before it and  *)
(* scratch is a full State; mints and burns are Sends; everything else    *)
(* leaves the stored config and the messages alone.                       *)

LEMMA LifecycleStep ==
    ContractInv /\ [Next]_vars => [Lifecycle!Configure \/ Lifecycle!Send]_Lifecycle!absVars
  <1> SUFFICES ASSUME ContractInv, [Next]_vars
               PROVE  [Lifecycle!Configure \/ Lifecycle!Send]_Lifecycle!absVars
    OBVIOUS
  <1>1. CASE ChildInstantiated
    <2>1. PICK c \in Children \ children :
            /\ stored' = [scratch EXCEPT !.lp_token_address = c]
            /\ children' = children \cup {c}
      BY <1>1 DEF ChildInstantiated
    <2>2. scratch \in StateRec /\ stored = NoConfig
      BY <1>1 DEF ChildInstantiated, ContractInv, PendingTx
    <2>3. stored' # NoConfig /\ stored'.lp_token_address = c
      BY <2>1, <2>2, NoConfigNotState DEF StateRec
    <2>4. msgs' = msgs
      BY <1>1 DEF ChildInstantiated
    <2>5. QED
      BY <2>2, <2>3, <2>4 DEF Lifecycle!Configure
  <1>2. ASSUME NEW kind \in {"mint", "burn"}, SendLpMsg(kind)
        PROVE  [Lifecycle!Configure \/ Lifecycle!Send]_Lifecycle!absVars
    <2>1. PICK s \in Senders :
            msgs' = msgs \cup {[kind |-> kind, contract_addr |-> stored.lp_token_address,
                                sender |-> s]}
      BY <1>2 DEF SendLpMsg
    <2>2. stored # NoConfig /\ stored' = stored
      BY <1>2 DEF SendLpMsg
    <2>3. QED
      BY <2>1, <2>2 DEF Lifecycle!Send
  <1>3. CASE Instantiate \/ ChildFails \/ UNCHANGED vars
    BY <1>3 DEF Instantiate, ChildFails, vars, Lifecycle!absVars
  <1>4. QED
    BY <1>1, <1>2, <1>3 DEF Next, MintToUser, BurnFromUser

(* The lifecycle implements ContractAbstract: the contract is configured  *)
(* and bound to a real LP token in one step, the reply of a successful    *)
(* cw20 instantiation; the binding never changes afterwards; and every    *)
(* Mint and BurnFrom goes to that token.  A failed child instantiation    *)
(* and the placeholder address are never visible.                         *)
THEOREM LifecycleRefinement == Spec => LifecycleSpec
  <1>1. Init => Lifecycle!Init
    BY DEF Init, Lifecycle!Init
  <1>2. QED
    BY <1>1, InitInv, InvStep, LifecycleStep, PTL DEF Spec, LifecycleSpec, Lifecycle!Spec

=============================================================================
