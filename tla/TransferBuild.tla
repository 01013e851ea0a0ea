---------------------------- MODULE TransferBuild ----------------------------
(***************************************************************************)
(* The transfer node, and the last part of swap_allowance: a validated     *)
(* request, or what the provider of a quote prepared, becomes an unsigned  *)
(* transaction, the preflight reads fees and balances one call after       *)
(* another, and the card is offered when no check failed.  Chains are of   *)
(* three models: "utxo" (Bitcoin: coins are selected here), "evm" (gas is  *)
(* estimated here and by the wallet provider) and "account" (TRON: the     *)
(* node prices it); a provider may also swap on a chain that has "none".   *)
(*                                                                         *)
(* The checks of accounts, addresses and token chain are facts that hold   *)
(* or fail, passed checks and warnings are not told apart.                 *)
(***************************************************************************)
EXTENDS Integers, Sequences, FiniteSets, FiniteSetsExt, Functions

CONSTANTS
    None,
    CoinSets,     \* bound: sequences of coins [value, family] of the sender
    Outputs,      \* bound: families of <<recipient, change>>
    Rates,        \* bound: fee rates <<sat, vbytes>>
    Amounts,      \* bound
    MemoSizes,    \* bound: bytes of the routing hint of a deposit
    Balances,     \* bound: native balances of account chains
    TokenBalances,
    Gas, Price    \* bounds: answers of the gas oracles

VARIABLES
    stage,
    req,     \* the request
    tx,      \* the unsigned transaction, `form` is what there is to sign
    fee,     \* the estimate that the card shows
    failed,  \* checks that failed
    native, held,  \* balances read by the preflight
    answer

vars == <<stage, req, tx, fee, failed, native, held, answer>>

Family == {"p2pkh", "p2sh", "p2wpkh", "p2tr"}

\* A fee rate is a fraction, the price of gas is above zero.
BuildAssumption ==
    /\ None \notin Nat /\ None \notin {"transfer_prepare", "swap_ready"}
    /\ CoinSets \subseteq Seq([value : Nat, family : Family])
    /\ Outputs \subseteq Family \X Family /\ Rates \subseteq Nat \X (Nat \ {0})
    /\ Amounts \subseteq Nat /\ MemoSizes \subseteq Nat
    /\ Balances \subseteq Nat /\ TokenBalances \subseteq Nat
    /\ Gas \subseteq Nat /\ Price \subseteq Nat \ {0}

\* The provider of a swap prepares an order, which names the address to pay, or
\* calldata.  A swap that names what it buys asks for this amount, and only its
\* quote knows the real one.
Placeholder == 1

\* `amount` is what is paid and `checked` what the request asks for.  Bitcoin has
\* no tokens, the other chains have no coins and take no memo.
Request ==
    {r \in [model : {"utxo"}, by : {"transfer", "order", "call"}, token : {FALSE},
            amount : Amounts, checked : Amounts \cup {Placeholder}, memo : MemoSizes \cup {None},
            coins : CoinSets, outputs : Outputs, rate : Rates]
        \cup [model : {"evm", "account", "none"}, by : {"transfer", "order", "call"},
              token : BOOLEAN, amount : Amounts, checked : Amounts \cup {Placeholder}] :
        /\ r.checked = r.amount \/ (r.by # "transfer" /\ r.checked = Placeholder)
        /\ r.model = "utxo" /\ r.by = "transfer" => r.memo = None
        /\ r.model = "none" => r.by # "transfer" /\ ~r.token}

----------------------------------------------------------------------------
(* Coin selection of the Bitcoin adapter.                                  *)

DUST_LIMIT == 546
OVERHEAD_VBYTES == 11
INPUT_VBYTES == [p2pkh |-> 148, p2sh |-> 91, p2wpkh |-> 68, p2tr |-> 58]
OUTPUT_VBYTES == [p2pkh |-> 34, p2sh |-> 32, p2wpkh |-> 31, p2tr |-> 43]

\* The sum of a sequence.
Sum(s) ==
    LET upTo[n \in 0..Len(s)] == IF n = 0 THEN 0 ELSE upTo[n - 1] + s[n]
    IN upTo[Len(s)]

Total(coins) == Sum([i \in DOMAIN coins |-> coins[i].value])
InputsVbytes(coins) == Sum([i \in DOMAIN coins |-> INPUT_VBYTES[coins[i].family]])
OutputsVbytes(outputs) == Sum([i \in DOMAIN outputs |-> OUTPUT_VBYTES[outputs[i]]])

\* A memo is a further output: its script is an opcode and a push of the memo.
MemoVbytes(memo) ==
    IF memo = None THEN 0
    ELSE LET size == memo + (IF memo <= 75 THEN 2 ELSE IF memo <= 255 THEN 3 ELSE 4)
         IN 8 + (IF size < 253 THEN 1 ELSE 3) + size

\* ceil(size * rate)
FeeFor(inputs, rate, outputs, memo) ==
    LET size == OVERHEAD_VBYTES + InputsVbytes(inputs) + OutputsVbytes(outputs) + MemoVbytes(memo)
    IN (size * rate[1] + rate[2] - 1) \div rate[2]

\* Whatever is left becomes change.
SettleToChange(inputs, amount, rate, outputs, memo) ==
    LET with == FeeFor(inputs, rate, outputs, memo)
    IN [fee |-> with, change |-> Max({0, Total(inputs) - amount - with})]

\* Change below the dust limit goes to the fee.
Settle(inputs, amount, rate, outputs, memo) ==
    LET with == FeeFor(inputs, rate, outputs, memo)
        without == FeeFor(inputs, rate, <<outputs[1]>>, memo)
        change == Total(inputs) - amount - with
    IN IF change >= DUST_LIMIT THEN [fee |-> with, change |-> change]
       ELSE IF Total(inputs) - amount - without >= 0 THEN [fee |-> without, change |-> 0]
       ELSE [fee |-> with, change |-> 0]

\* The coins of all addresses, largest first.
LargestFirst(coins) ==
    {s \in {[i \in DOMAIN coins |-> coins[p[i]]] : p \in Bijection(DOMAIN coins, DOMAIN coins)} :
        \A i, j \in DOMAIN s : i < j => s[i].value >= s[j].value}

Enough(inputs, r) ==
    Total(inputs) >= r.amount + Settle(inputs, r.amount, r.rate, r.outputs, r.memo).fee

\* The fewest of the largest coins that pay the amount and their own fee.
Selections(r) ==
    {inputs \in {SubSeq(s, 1, k) : s \in LargestFirst(r.coins), k \in 1..Len(r.coins)} :
        /\ Enough(inputs, r)
        /\ \A j \in 1 .. Len(inputs) - 1 : ~Enough(SubSeq(inputs, 1, j), r)}

Spend(inputs, r) ==
    LET end == Settle(inputs, r.amount, r.rate, r.outputs, r.memo)
    IN [form |-> "coins", inputs |-> inputs, amount |-> r.amount, memo |-> r.memo,
        fee |-> end.fee, change |-> end.change]

----------------------------------------------------------------------------
(* Fee estimates.                                                          *)

\* `raised` says that the gas limit is that of the wallet provider's answers.
Estimate(amount, gas, price, tip) ==
    [amount |-> amount, gas |-> gas, price |-> price, tip |-> tip, raised |-> FALSE]

\* The tip is at least one wei and at most the gas price, the price leaves room
\* for the tip and a doubled base fee where the chain has one.
EvmEstimate(gas, gasPrice, offered, base) ==
    LET asked == IF offered > 0 THEN offered ELSE Max({1, gasPrice \div 10})
        capped == Min({asked, gasPrice})
        tip == IF capped > 0 THEN capped ELSE 1
        price == IF base = None THEN gasPrice ELSE Max({gasPrice, 2 * base, base + tip})
    IN Estimate(gas * price, gas, price, tip)

\* Bitcoin estimates one input and two outputs, then takes the fee of the
\* selected inputs.  A chain that cannot be asked leaves no estimate.
Fees ==
    CASE req.model = "utxo" -> {Estimate(tx.fee, None, None, None)}
      [] req.model = "account" -> {Estimate(g, None, None, None) : g \in Gas}
      [] OTHER -> {EvmEstimate(g, p, t, b) : g \in Gas, p \in Price, t \in Price \cup {0},
                                             b \in Price \cup {None}}

----------------------------------------------------------------------------
(* The handler.                                                            *)

Init ==
    /\ stage = "new" /\ req = None /\ tx = None /\ fee = None
    /\ failed = {} /\ native = None /\ held = None /\ answer = None

Move(from, to) == stage = from /\ stage' = to

\* A request that is not valid, or for which the chain has no builder.
Refuse ==
    /\ Move("new", "answered")
    /\ answer' \in {"INVALID_TRANSFER_PARAMETERS", "CHAIN_CAPABILITY_UNAVAILABLE"}
    /\ UNCHANGED <<req, tx, fee, failed, native, held>>

\* The provider of the quote is gone or cannot prepare the swap.
PrepareFails ==
    /\ Move("new", "answered")
    /\ answer' \in {"PROVIDER_UNAVAILABLE", "PROVIDER_PREPARE_FAILED"}
    /\ UNCHANGED <<req, tx, fee, failed, native, held>>

Accept ==
    /\ Move("new", "building")
    /\ req' \in Request
    /\ UNCHANGED <<tx, fee, failed, native, held, answer>>

\* The transfer node answers, swap_allowance lets the run fail.
Raise ==
    /\ stage' = "answered"
    /\ answer' = IF req.by = "transfer" THEN "TRANSFER_PREPARE_FAILED" ELSE "raised"
    /\ UNCHANGED <<req, tx, fee, failed, native, held>>

\* No coins, too few, an address that is refused, a chain that does not answer; an
\* order on a chain that has no adapter.
BuildFails ==
    /\ stage = "building"
    /\ req.by = "call" => req.model \in {"utxo", "account"}
    /\ Raise

Payment(form) == [form |-> form, amount |-> req.amount, gas |-> None, price |-> None, tip |-> None]

\* The adapter of the chain builds the payment.
Build ==
    /\ Move("building", "checking")
    /\ IF req.model = "utxo"
       THEN \E inputs \in Selections(req) : tx' = Spend(inputs, req)
       ELSE /\ req.model \in {"evm", "account"}
            /\ tx' = Payment(IF req.model = "evm" THEN "calldata" ELSE "node-built")
    /\ UNCHANGED <<req, fee, failed, native, held, answer>>

BuildTransfer == req.by = "transfer" /\ Build

\* A chain that signs coins takes an order from the calldata: the address it names
\* is paid, and its memo is kept.
BuildDeposit ==
    /\ req.by = "order" \/ (req.by = "call" /\ req.model = "utxo")
    /\ Build

\* Calldata of a provider becomes a contract call that the node of an account
\* chain builds.
BuildCall ==
    /\ Move("building", "checking")
    /\ req.model = "account" /\ req.by = "call"
    /\ tx' = Payment("node-built")
    /\ UNCHANGED <<req, fee, failed, native, held, answer>>

\* Elsewhere the wallet signs the calldata, unchecked when there is no adapter.
KeepCall ==
    /\ Move("building", IF req.model = "none" THEN "offering" ELSE "checking")
    /\ req.model \in {"evm", "none"} /\ req.by = "call"
    /\ tx' = Payment("calldata")
    /\ UNCHANGED <<req, fee, failed, native, held, answer>>

\* Account, addresses, risk of the recipient, chain of the token.
CheckFacts ==
    /\ Move("checking", "pricing")
    /\ \E bad \in SUBSET {"wallet_account", "addresses", "address_risk", "token_chain"} :
          /\ Cardinality(bad) <= 1
          /\ "token_chain" \in bad => req.token
          /\ failed' = bad
    /\ UNCHANGED <<req, tx, fee, native, held, answer>>

CheckFee ==
    /\ Move("pricing", IF req.model = "evm" THEN "simulating" ELSE "reading_native")
    /\ fee' \in Fees \cup {None}
    /\ UNCHANGED <<req, tx, failed, native, held, answer>>

\* The wallet provider's gas limit and simulation, where there is a provider and
\* it answers; the largest gas limit counts.
CheckGas ==
    /\ Move("simulating", "reading_native")
    /\ \E okx, sim \in Gas \cup {None}, outcome \in {"passed", "reverts", "no_funds"} :
          /\ failed' = failed \cup (IF outcome = "passed" THEN {} ELSE {"simulation"})
                              \cup (IF outcome = "no_funds" THEN {"balance"} ELSE {})
          /\ LET known == {okx, sim} \ {None}
                 gas == Max(known \cup {fee.gas})
             IN fee' = IF fee # None /\ known # {}
                       THEN [fee EXCEPT !.gas = gas, !.amount = gas * fee.price, !.raised = TRUE]
                       ELSE fee
    /\ UNCHANGED <<req, tx, native, held, answer>>

\* For Bitcoin the pooled balance of the addresses, which another wallet may have
\* changed in the meantime, or that of the first ones when a read fails; None
\* when nothing can be read.
CheckNative ==
    /\ Move("reading_native", "reading_token")
    /\ native' \in Balances \cup {None} \cup
                   (IF req.model = "utxo" THEN {Total(req.coins)} ELSE {})
    /\ UNCHANGED <<req, tx, fee, failed, held, answer>>

\* The balance of the token cannot be read: a failed check.
CheckHeld ==
    /\ Move("reading_token", "balancing")
    /\ held' \in IF req.token THEN TokenBalances \cup {None} ELSE {None}
    /\ UNCHANGED <<req, tx, fee, failed, native, answer>>

FeeAmount == IF fee = None THEN 0 ELSE fee.amount

Short == ~req.token /\ native # None /\ native < req.checked + FeeAmount

\* The details of the failed check cannot be read off an estimate whose gas limit
\* was raised, and the node ends as if building had failed.
BalanceRaises ==
    /\ stage = "balancing"
    /\ Short /\ fee # None /\ fee.raised
    /\ Raise

Balance ==
    /\ Move("balancing", "offering")
    /\ ~(Short /\ fee # None /\ fee.raised)
    /\ failed' = failed
         \cup {n \in {"balance"} : Short}
         \cup {n \in {"token_balance"} : req.token /\ (held = None \/ held < req.checked)}
         \cup {n \in {"gas_balance"} : req.token /\ native # None /\ native < FeeAmount}
    /\ UNCHANGED <<req, tx, fee, native, held, answer>>

\* The gas of the estimate goes into the transaction that is signed.
Offer(card) ==
    /\ Move("offering", "answered")
    /\ IF failed # {}
       THEN answer' = "TRANSACTION_PREFLIGHT_FAILED" /\ UNCHANGED tx
       ELSE /\ answer' = card
            /\ tx' = IF req.model = "evm" /\ fee # None
                     THEN [tx EXCEPT !.gas = fee.gas, !.price = fee.price, !.tip = fee.tip]
                     ELSE tx
    /\ UNCHANGED <<req, fee, failed, native, held>>

OfferTransfer == req.by = "transfer" /\ Offer("transfer_prepare")

OfferSwap == req.by # "transfer" /\ Offer("swap_ready")

Next ==
    \/ Refuse \/ PrepareFails \/ Accept
    \/ stage = "building" /\ (BuildFails \/ BuildTransfer \/ BuildDeposit \/ BuildCall \/ KeepCall)
    \/ CheckFacts \/ CheckFee \/ CheckGas \/ CheckNative \/ CheckHeld
    \/ BalanceRaises \/ Balance
    \/ stage = "offering" /\ (OfferTransfer \/ OfferSwap)

Spec == Init /\ [][Next]_vars

----------------------------------------------------------------------------

\* A Bitcoin transaction pays the recipient the amount, at least the rate for
\* its real size, memo included, and gives up less than a dust output and the cost
\* of having one; what it returns can be spent again.
PaysWithCoins ==
    LET Fee(outputs) == FeeFor(tx.inputs, req.rate, outputs, req.memo)
        paid == Total(tx.inputs) - tx.amount - tx.change
        due == Fee(IF tx.change = 0 THEN <<req.outputs[1]>> ELSE req.outputs)
    IN /\ tx.memo = req.memo
       /\ tx.change # 0 => tx.change >= DUST_LIMIT /\ paid = due
       /\ paid \in due .. Fee(req.outputs) + DUST_LIMIT - 1
       /\ fee # None => fee.amount = due

\* The gas that is signed is the gas the balance was checked for.
PaysWithGas ==
    fee # None => /\ <<tx.gas, tx.price, tx.tip>> = <<fee.gas, fee.price, fee.tip>>
                  /\ fee.amount = tx.gas * tx.price
                  /\ tx.price >= tx.tip

\* What is offered for signing can be signed on its chain and can be paid: it pays
\* what was asked or quoted, agrees with the fee that is shown, and no balance that
\* could be read is short of it (of a swap that names what it buys only the
\* placeholder and the fee are known to be there).
OfferPays ==
    answer \in {"transfer_prepare", "swap_ready"} =>
        /\ tx.amount = req.amount
        /\ tx.form = CASE req.model = "utxo" -> "coins"
                       [] req.model = "account" -> "node-built"
                       [] OTHER -> "calldata"
        /\ req.model = "utxo" => PaysWithCoins
        /\ req.model = "evm" => PaysWithGas
        /\ native # None /\ fee # None =>
               native >= fee.amount + (IF req.token THEN 0 ELSE req.checked)
        /\ req.token => held # None /\ held >= req.checked
=============================================================================
