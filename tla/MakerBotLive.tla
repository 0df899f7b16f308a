---------------------------- MODULE MakerBotLive ----------------------------
(***************************************************************************)
(* The bot loop when the market eventually stops moving.  The bot queries *)
(* get_action every block (spec 1 and 5: one decision per block), which   *)
(* is weak fairness of the query: some answer is always possible, so it  *)
(* is always enabled.  Market updates and fills are the environment; they *)
(* are not fair, and EnvSteps bounds how many of them a run may take, so *)
(* that every run ends with the inputs at rest.                          *)
(***************************************************************************)
EXTENDS MakerBot

CONSTANT EnvSteps   \* market moves and fills a run may take

ASSUME EnvStepsAssumption == EnvSteps \in Nat

VARIABLE envLeft    \* environment steps still allowed

liveVars == <<vars, envLeft>>

\* One query of the bot and the handling of its answer.
Query == (ApplyReplace \/ ApplyNoop \/ QueryFails) /\ UNCHANGED envLeft

LiveInit == Init /\ envLeft = EnvSteps

LiveNext ==
    \/ Query
    \/ /\ envLeft > 0
       /\ MarketUpdate \/ Fill
       /\ envLeft' = envLeft - 1

LiveSpec == LiveInit /\ [][LiveNext]_liveVars /\ WF_liveVars(Query)

(* Once the market is at rest the gate settles: from some point on, every *)
(* query that would cancel and re-place the book finds a side of the      *)
(* resting book empty.  With both sides resting, the sorted heads are     *)
(* those of the latest plan, which equal the new heads, and the gate of   *)
(* head_chg_is_gt_tol stays shut for good.                                *)
GateSettles ==
    <>[](Answer.kind = "replace" =>
            \/ SideOrders(open_orders, BUY) = {}
            \/ SideOrders(open_orders, SELL) = {})

=============================================================================
