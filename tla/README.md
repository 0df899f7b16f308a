# TLA+ models of cw-injective-ua

This directory holds TLA+ models of the maker contract and of the identifier
types of `injective-cosmwasm`. It has TLC runs that check the models on small
instances, and TLAPS proofs of the main safety properties for every value of
the constants. `PROJECT.json` lists the components, runs, mutants, source map,
findings, hazards and theorems in machine-readable form.

## The system

- **Maker contract** (`src/contracts/maker/src/contract.rs`, `state.rs`).
  This is a CosmWasm contract on Injective.
  - `instantiate` parses the risk parameters into the `State` singleton. It
    then starts a cw20 LP token as a `reply_on_success` sub-message.
    `reply` stores the child's address in place of the placeholder
    `"LP-Token"`.
  - `execute` has two messages, `MintToUser` and `BurnFromUser`. Each sends a
    cw20 `Mint` or `BurnFrom` to the stored address.
  - The query `GetAction` is the decision core. An off-chain bot calls it
    every block with the market snapshot, the position, the deposit and the
    contract's resting derivative orders. It answers in one of three ways:
    - nothing;
    - one `MsgBatchUpdateOrders` that cancels every order on the market and
      creates a buy ladder followed by a sell ladder;
    - an error, when a `Decimal256` subtraction underflows and panics.
- **Pipeline inside `get_action`**, in order:
  1. `inv_imbalance_deriv`
  2. `reservation_price`
  3. `new_head_prices`
  4. `split_open_orders`, which sorts buys descending and sells ascending, so
     that index 0 is the old head
  5. `head_chg_is_gt_tol`, the hysteresis gate, applied per side and joined
     with OR
  6. `new_tail_prices` and `check_tail_dist`
  7. `create_orders`, which calls `get_alloc_bal_new_orders` and
    `create_new_orders_deriv`
- **Code that is not in the sources.** `utils.rs`, `derivative.rs` and
  `risk_management.rs` are not under `src/`. The operators taken from them
  follow `spec.md` and are marked `spec_modelled` in the map.
- **Identifier types** (`src/packages/injective-cosmwasm/src/exchange/types.rs`):
  `MarketId`, `SubaccountId` and `ShortSubaccountId`, each with checked and
  unchecked constructors and a `Deserialize` impl. There is also a conversion
  `From<SubaccountId> for ShortSubaccountId`, the storage key of a
  `SubaccountId` (`key`, `prefix` and `from_vec`), and `Hash` with `to_hex`,
  `from_hex` and `Display`. `Display` is not modelled: nothing in the sources
  parses what it prints.
- **Mock Pyth relay** (`src/contracts/dummy`). This is a test double that
  builds one fixed message. It is not modelled because it has no state and no
  control flow.

## Modules

| module | models | state / actions |
|---|---|---|
| `FixedPoint` | `Decimal256` and `utils` | A Decimal is its raw integer, and `ONE` is the scale (10^18 in the code, 100 in the runs). `DecMul` and `DecDiv` truncate, `DivDec` returns 0 on a zero denominator, and `BpToDec` divides by 10000. |
| `MakerPricing` | every function of `get_action` | These are pure operators. An unsigned subtraction that would go negative is a `...Fails` predicate, and `GetAction` returns `[kind, orders]` with kind `panic`, `noop` or `replace`. `SortedSide` is the stable `sort_by` of one side's orders: it is given by the one map from `1..n` onto that side's positions in the book under which `SortsBefore` holds pairwise. `SortsBefore` compares prices and falls back to book order on equal prices. It is written without recursion so that the proofs can reason about it. |
| `MakerBot` | the bot loop around the query | The variables are the mid price, volatility, position, balance and resting book, plus the latest outcome. `lastPlan` and `redundant` are history variables. The actions are `ApplyReplace`, `ApplyNoop`, `QueryFails`, `MarketUpdate` and `Fill`. `Fill` removes one resting order and picks any new position and balance. |
| `BookAbstract` | what the bot loop promises about the book | `book` is the resting orders and `plan` the latest plan. `Place` replaces the whole book with an uncrossed plan. `Consume` takes one order out of the book. |
| `MakerBotLive` | the bot loop with fairness | It adds weak fairness of `Query` (a replace, a noop or a failed query) and lets the environment (market moves and fills) take at most `EnvSteps` steps. |
| `MakerContract` | `instantiate`, `reply`, `mint_to_user`, `burn_from_user`, `State` | `stored` is the committed config and `scratch` is the config written by the running transaction. `tx` is `await_child` while the cw20 sub-message runs. `children` holds the cw20 contracts that exist, and `msgs` holds the Mint and BurnFrom messages sent. A transaction either commits in `ChildInstantiated` or reverts as a whole in `ChildFails`. A field that does not parse panics, and nothing is stored. |
| `Identifiers` | the constructors and `Deserialize` impls | Strings are sequences over `{0, 9, a, A, x, X, +, KelvinSign, k}`. This is enough to tell apart what the checks test: the prefix, the case, decimal digits, a hex letter, the `+` that `u16` parsing accepts, and U+212A KELVIN SIGN. The Kelvin sign is three bytes in UTF-8, and its lower case is the one-byte ASCII `k`. `ByteLen` counts bytes, as `str::len` does. The 66 bytes of a hex id become `HexIdLen` bytes. A `Hash` is `HashLen` bytes of `0..255`. `to_hex` writes each nibble as one of `0-9a-f`, high nibble first, and `from_hex` reads both cases and needs exactly `2*HashLen` hex digits. |
| `IdentifierWire` | an identifier crossing a message or storage boundary | Each behaviour follows one identifier. A sender builds it, sends it (or stores a `SubaccountId` as a key, or sends a `Hash` as `to_hex`) and the receiver decodes it. The exchange then ends, so the runs do not check for deadlock. |
| `ContractAbstract` | what the lifecycle promises | `configured`, `token` and `sent`. `Configure` sets the contract up and binds it to a token in one step. `Send` sends a Mint or BurnFrom to that token. `MakerContract` refines it as `Lifecycle`. |
| `MakerContractProofs` | proofs about `MakerContract` | Type correctness, `LpTokenBound` and the refinement of `ContractAbstract`. |
| `IdentifierProofs` | proofs about `Identifiers` and `IdentifierWire` | Lemmas on lower-casing and on hex encoding, and `EncodingRoundTrip` for every length and every byte value. |
| `MakerBotProofs` | proofs about `MakerBot` | Lemmas on the ladder and `get_action`, the two invariance theorems, and the refinement of `BookAbstract`. |
| `MakerChurnProofs` | proofs about `MakerBot` and the split of `MakerPricing` | `ChurnOnlyWithEmptySide` from the strengthening `PlanFromSnapshot`, the lemma that the stable sort puts each head back at index 0, and the action property `RedundantReplaceKeepsBook`. |

## Runs

| run | cfg | expect | checks |
|---|---|---|---|
| `bot_safety` | `MC_MakerBot.cfg` | pass (63k states) | `TypeOK`, `OwnBookUncrossed`, `ChurnOnlyWithEmptySide`, `RedundantReplaceKeepsBook` |
| `bot_refines` | `MC_MakerBot_refines.cfg` | pass (63k states) | `AbsSpec` |
| `bot_gate_settles` | `MC_MakerBotLive.cfg` | pass (21k states) | `GateSettles` |
| `bot_query_total` | `MC_MakerBot_total.cfg` | violation | `QueryTotal` |
| `bot_churn` | `MC_MakerBot_churn.cfg` | violation | `NoRedundantReplace` |
| `contract_lifecycle` | `MC_MakerContract.cfg` | pass (529 states) | `TypeOK`, `LpTokenBound` |
| `contract_refines` | `MC_MakerContract_refines.cfg` | pass (529 states) | `LifecycleSpec` |
| `contract_config_validated` | `MC_MakerContract_validated.cfg` | violation | `ConfigValidated` |
| `id_wire` | `MC_IdentifierWire.cfg` | pass (20k states) | `EncodingRoundTrip` |
| `id_new_deserialize` | `MC_IdentifierWire_ids.cfg` | violation | `IdRoundTrip` |
| `id_short_from_subaccount` | `MC_IdentifierWire_short.cfg` | violation | `ShortFromSubaccountValid` |

### What the properties mean

- **`OwnBookUncrossed`**: no resting buy of the contract is priced above one
  of its resting sells, across replaces and fills.
- **`ChurnOnlyWithEmptySide`**: a batch that re-places an untouched book under
  the same inputs happens only when one side of that book is empty.
- **`RedundantReplaceKeepsBook`** (an action property): a replace batch for an
  untouched book under the same snapshot creates exactly the orders it
  cancels. Churn costs fees but never changes the book.
- **`AbsSpec`**: `MakerBot` implements `BookAbstract` under the mapping
  `book <- open_orders`, `plan <- lastPlan.orders`. A batch cancels the whole
  book before it creates the new ladders. Between batches the book only
  loses orders of the latest plan, so no order of an older plan ever rests
  beside a newer one.
- **`GateSettles`**: once the market stops moving and fills stop, a bot that
  keeps querying eventually stops re-placing its book, unless one side of
  the book is empty (the case `bot_churn` shows).
- **`LifecycleSpec`**: `MakerContract` implements `ContractAbstract` under the
  mapping `configured <- stored # NoConfig`,
  `token <- stored.lp_token_address`, `sent <- msgs` and `Tokens <- Children`.
  Instantiate and a failed child are stutters. The reply of a successful
  child is the one `Configure`. A mint or a burn is a `Send` to the bound
  token.
- **`LpTokenBound`**: every LP message goes to a cw20 contract that exists,
  never to the placeholder address.
- **`EncodingRoundTrip`**: a `SubaccountId` stored as a key comes back
  unchanged from `from_vec`, and a `Hash` comes back unchanged from
  `from_hex` of its `to_hex`.

### What the violations show

Details are in `findings` in `PROJECT.json`.

- **`QueryTotal`**: the query panics with in-range parameters when the
  volatility is large against the price. The trace panics at
  `contract.rs:360`: mid 10.00, volatility 100.00 and a flat position give a
  reservation price of 10.00 and a half spread of 50.00. The run's low mid
  price also reaches the panic at `:341`: the same market with a long
  imbalance of 0.4 shifts the reservation price by 20.00.
- **`NoRedundantReplace`**: an empty side keeps the gate open for ever
  (`:374`), so the bot cancels and re-places the same book every block.
- **`ConfigValidated`**: `instantiate` stores fractions above one and a zero
  `order_density`.
- **`ShortFromSubaccountValid`**: `From<SubaccountId>` produces short ids that
  their own `Deserialize` rejects. For example, the last three hex
  characters may be `00a`.
- **`IdRoundTrip`**: `MarketId::new` accepts an id that its own
  `Deserialize` rejects. `new` checks the byte length (`len()`) of the string
  it is given, then stores `to_lowercase()` of it, whose byte length nothing
  checks. `"0x"` followed by a Kelvin sign is 5 bytes (`HexIdLen`), and it is
  stored as `"0xk"`, which is 3 bytes. `Deserialize` checks the stored
  string and rejects it. With 66 bytes the same happens to any id holding a
  Kelvin sign, and `SubaccountId` has the same order of steps.

### Bounds

**`bot_safety`**
- Decimals have two fractional digits.
- There are three mid prices: a base, a move inside the 1% tolerance, and a
  move beyond it.
- There are three volatilities:
  - 0, where the heads coincide;
  - a normal one;
  - one large enough for the subtractions to underflow.
- There are three positions (flat, long, short) and two balances (funded and
  zero). The zero balance leaves a side with no ladder.
- Two levels per side are enough for a ladder to have a head and a tail.
  They are also enough for a fill to remove the head and leave the tail.

**`bot_query_total`**
- The constants are those of `bot_safety`, except that the mid prices are
  10.00 and 40.00 (`MC_LowMids`). Against 40.00 the largest reservation shift
  (0.4 × 100.00 × 0.5 = 20.00) never underflows, and against 10.00 it does.
  So both panics, `:341` and `:360`, are reachable.

**`contract_lifecycle`**
- The senders are the contract itself and a stranger.
- There are two child addresses, so that a failed instantiation can be
  followed by a successful one.
- The bp inputs are one in range and one above 10000.
- The `order_density` inputs are 0 and 2.

**`bot_gate_settles`**
- The constants are those of `bot_safety`, with `EnvSteps = 2`. Two
  environment steps let a market move and a fill happen before the
  environment falls quiet, or two fills thin both sides.

**`id_wire`** and **`id_new_deserialize`**
- A `Hash` has two bytes, so that a swap of bytes or of the nibbles within a
  byte shows. For TLC the bytes are those with nibbles 0, 9 and 10
  (`Bytes <- MC_Bytes`): a digit, a letter, and a zero that shows a swap.
  The proofs cover all of `0..255`.
- `HexIdLen` is 5 bytes. `"0x"` and one Kelvin sign is then an id that
  `new` accepts.
- Strings have up to 5 characters. This lets a short id carry a sign,
  leading zeros, four digits (above 999) or five digits (above 65535).

**Mutants.** One mutant per property of the passing runs shows that the
property can fail. Each mutant is a plausible bug, and each is caught:
- swapped heads break `OwnBookUncrossed`;
- a sort in the wrong direction breaks `ChurnOnlyWithEmptySide`;
- a head subtraction that never fails breaks `TypeOK`;
- a reply that does not save the child's address breaks `LpTokenBound`;
- a Mint addressed to `env.contract.address` instead of the stored
  `lp_token_address` breaks the contract's `TypeOK`;
- `from_hex` reading the two nibbles of a byte in the wrong order breaks
  `EncodingRoundTrip`;
- a reply that no pending sub-message asked for breaks `LifecycleSpec`: it
  records a new child in the committed config;
- a batch that creates without cancelling breaks `AbsSpec`;
- the same batch breaks `RedundantReplaceKeepsBook`, because the old book
  stays beside the new copy;
- a sort in the wrong direction breaks `GateSettles`: the gate then compares
  new heads with old tails, and the bot re-places its book for ever.

**Fairness.** Only `bot_gate_settles` assumes fairness. It assumes weak
fairness of `Query`: a bot that can query keeps querying. `query` answers
`GetAction` from any state (a noop, a batch or an error), so `Query` is always
enabled. The bot is meant to call the query every block, which is what weak
fairness says. Nothing is assumed of the market or the exchange. Their steps
are bounded by `EnvSteps` instead, which models the market falling quiet. A
liveness property can only hold once it is quiet, because the market can move
for ever and keep the gate open. The safety runs assume no fairness.

## What is proved (TLAPS)

### `MakerBotProofs.tla`

These results hold for every value of the constants, under the assumptions
`OneAssumption`, `ParamsAssumption` and `InputsAssumption`. Together they say
that ONE and all parameters and inputs are Decimals, and that `OrderDensity`
is at least 1. No range bound is assumed on the fractions.

- **`AnswerShape`**: for inputs of the right types, `GetAction` answers
  `panic`, `noop` or `replace`. Its orders are always a sequence of
  well-formed orders with no buy above a sell. The argument goes as follows:
  1. When nothing panics, the reservation price is a Nat and the heads
     satisfy buy ≤ sell (`HeadsOrdered`).
  2. The buy tail is at most the buy head (`TailsBounded`).
  3. Each ladder stays on its side of its head. This rests on
     `LadderShape`, which uses the step lemma `StepWithin`:
     i·⌊x/k⌋ ≤ x for i ≤ k.
  4. So the concatenation is uncrossed (`LaddersUncrossed`).
- **`TypeCorrect`** (`Spec => []TypeOK`): `TypeOK` is inductive, given
  `AnswerShape` and `RemoveAtShape` (a fill leaves a sequence of orders).
- **`BookUncrossed`** (`Spec => []OwnBookUncrossed`): the inductive invariant
  is `TypeOK /\ OwnBookUncrossed`. The type part is needed because a replace
  is uncrossed only when it is typed (`AnswerShape`), and a fill needs the
  book to be a sequence to show that each side only loses orders.
- **`Refinement`** (`Spec => AbsSpec`): the initial book and plan are empty.
  A replace is a `Place`, because `AnswerShape` shows that the answer's orders
  are quotes and uncrossed (`OrderIsQuote`, `UncrossedIsNotCrossed`). A fill
  is a `Consume` of the same index, because `RemoveAt` is `Without`. Every
  other step leaves both `open_orders` and `lastPlan` alone. The step lemma
  needs `TypeOK`, which `TypeCorrect` gives as an invariant.

### `MakerContractProofs.tla`

These results hold for every set of senders, children and parsed inputs,
under `OneAssumption` and `ContractAssumption`.

The inductive invariant is `ContractInv == TypeOK /\ PendingTx /\
LpTokenBound`. TLC checked it on the `contract_lifecycle` instance before it
was proved. `PendingTx` says that while the cw20 sub-message is pending,
`scratch` is a full `State` and nothing is committed yet. Neither `TypeOK` nor
`LpTokenBound` is inductive without it: a reply applied to an empty scratch
would store an ill-typed config, and a reply on top of a committed config
would change the address that mints already use.

- **`ContractTypeCorrect`** (`Spec => []TypeOK`): `ParsedState` shows that a
  parsed `InstantiateMsg` gives a full `State`, because `bp_to_dec` of a
  number is a Decimal (`BpToDecNat`).
- **`LpTokenAlwaysBound`** (`Spec => []LpTokenBound`): the reply stores the
  child it adds to `children`. A mint or a burn only reads a committed
  config, whose address is already a child.
- **`LifecycleRefinement`** (`Spec => LifecycleSpec`): by `PendingTx`, the
  reply runs while nothing is committed, so it is the abstract `Configure`.
  Mints and burns are `Send`s, and the other steps are stutters.

### `IdentifierProofs.tla`

These results hold for every `HexIdLen`, `MaxStrLen` and `HashLen`, under
`IdAssumption`, and for bytes of every value in `0..255`.

- **`ToLowerProps`**: lower-casing keeps the number of characters and is
  idempotent.
- **`NibbleRoundTrip`**: each nibble `0..15` is written as a hex digit that
  is read back as the same nibble. The sixteen lower-case digits are
  distinct, and none of them is an upper-case letter.
- **`HashRoundTrip`**: `from_hex(to_hex(h)) = h` for every `h` of `HashLen`
  bytes. Each byte is written high nibble first and read back in the same
  order.
- **`EncodingRoundTripHolds`** (`Spec => []EncodingRoundTrip`): the
  inductive invariant is `EncodingInv`. It says that a key or a hash in
  flight decodes to its value, and that what was received is the decoding of
  what was written. A key comes back because `to_lowercase` is idempotent,
  and a hash by `HashRoundTrip`.

The ids' own round trip is not a theorem: it is false, as `IdRoundTrip`
shows.

### `MakerChurnProofs.tla`

These results hold under the same assumptions as `MakerBotProofs`, and they
use its lemmas. `ChurnOnlyWithEmptySide` is not inductive: it speaks of the
latest plan, and says nothing of where that plan came from. The
strengthening is `ChurnInv == TypeOK /\ PlanFromSnapshot /\
ChurnOnlyWithEmptySide`. `PlanFromSnapshot` says that the latest plan is the
buy ladder followed by the sell ladder that `create_orders` computes from the
plan's snapshot, and that nothing in that snapshot panics. TLC checked
`ChurnInv` on the `bot_safety` instance before it was proved.

- **`LadderMonotone`** and **`SnapLadders`**: a ladder starts at its head and
  moves away from it monotonically, the buys downwards and the sells upwards.
- **`SortedRunHead`**: when a side's orders sit at positions `a..b` of the
  book and are already in `sort_by` order, `SortedSide` returns them in
  place, so its index 1 is position `a`. The map `i |-> a+i-1` is the
  witness, and `FS_Interval` gives the size of `a..b`.
- **`SplitHeads`**: splitting a two-sided book made of a buy ladder followed
  by a sell ladder puts each ladder's head back at index 1 (index 0 in the
  code).
- **`ReplaceFromSnapshot`**: a `replace` answer is sound, its orders are the
  ladders of its snapshot, and the head-change gate was open.
- **`NoReplaceOfOwnTwoSidedBook`**: for a two-sided book that is the plan of
  the same snapshot, the new heads equal the old ones, so
  `head_chg_is_gt_tol` is false and the answer is `noop`.
- **`ChurnOnlyWithEmptySideHolds`** (`Spec => []ChurnOnlyWithEmptySide`):
  `ChurnInit` and `ChurnStep` show that `ChurnInv` holds initially and is
  kept by every step. A replace makes its answer the new plan, and
  `ReplaceFromSnapshot` shows that the plan came from its snapshot. A
  redundant replace of a two-sided plan is ruled out by
  `NoReplaceOfOwnTwoSidedBook`. Market moves and fills leave the plan alone.
- **`RedundantReplaceKeepsBookHolds`** (`Spec => RedundantReplaceKeepsBook`):
  the step lemma `RedundantReplaceStep` shows the following. In a redundant
  replace, the book is the plan, and so it is the ladders of the snapshot
  (`PlanFromSnapshot`). The answer consists of the same ladders
  (`ReplaceFromSnapshot`).

### What stays with TLC

These are not proved:
- `GateSettles`, because it is a liveness property.

Liveness and `ENABLED` are out of the prover's reach. `DecimalValue` is a
recursive function: TLC evaluates it on bounded strings, and what it computes
for every input is not proved.

## Not modelled, and the plan for later

- **`only_owner`** (`contract.rs:123`, `:149`): its result is ignored, but its
  body is not among the sources. The model therefore lets any sender through
  and states no property about it.
- **Config query and `MarketId::validate`**: the config query is read-only,
  and `MarketId::validate` is a chain query.
- **The mock Pyth relay**: not modelled.
- **`Display` for `Hash`** writes a `0x` prefix that `from_hex` rejects.
  Nothing in the sources parses a displayed hash, so no property is stated.
- **Planned next:**
  - composing the stored config of `MakerContract` with `MakerBot`.
