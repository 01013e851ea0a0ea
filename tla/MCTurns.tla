------------------------------- MODULE MCTurns -------------------------------
(* The worlds of Turns on small sets: two symbols on two chains, one of them *)
(* the coin of the second chain only; one call of each kind of tool; two     *)
(* users who swap, one of them also with two recipients in mind; five        *)
(* callers for the catalogs of two chains with room for one; two requests on *)
(* a session of two fields.                                                  *)
EXTENDS Turns, TLC

CONSTANTS x, y, c, d, k1, k2, k3, k4, s1, s2, r1, r2, e1, e2, e3, e4, e5

MCNativeOf == (x :> None) @@ (y :> d)
MCMaxSaid == <<1, 2, 1>>

MCNameOf == (k1 :> "wallet_balance") @@ (k2 :> "price_lookup")
            @@ (k3 :> "portfolio_snapshot") @@ (k4 :> "transaction_status")

\* Coins of two addresses, up to three of them, address by address.
MCCoin == [value : {600, 3000}, family : {"p2pkh", "p2wpkh"}]
MCCoinSets ==
    {cs \in UNION {[1..n -> MCCoin] : n \in 1..3} :
        \A i, j \in DOMAIN cs : i < j =>
            \/ cs[i].family = "p2pkh" /\ cs[j].family = "p2wpkh"
            \/ cs[i].family = cs[j].family /\ cs[i].value >= cs[j].value}
MCOutputs == {<<"p2wpkh", "p2wpkh">>, <<"p2pkh", "p2tr">>}
MCRates == {<<5, 2>>}

MCSender == [s \in {s1, s2} |-> s]

\* Three ask for one chain, two for another.
MCKeyOf == [e \in {e1, e2, e3, e4, e5} |-> IF e \in {e4, e5} THEN d ELSE c]

ASSUME S!SlotAssumption
ASSUME B!BuildAssumption
ASSUME L!ReadOnlyAssumption
ASSUME O!OrdersAssumption
ASSUME T!StatusAssumption
ASSUME C!CacheAssumption
ASSUME R!StoreAssumption

\* One choice of what the other worlds leave alone.
MCInit ==
    /\ TurnsInit
    /\ world # "orders" => provider = "bridgers" /\ honors
    /\ world # "status" => exchanger = "bridgers"
    /\ world # "store" => kind = "memory"

\* Swaps, amounts and recipients are symmetric: these are the ones asked first.
FirstAsked == [by |-> s1, req |-> [amount |-> 1, recipient |-> r1]]

\* In "react" only the later turns come from the page of an order, and the
\* fields of the session are filled by updates alone.
Representative ==
    /\ world = "react" /\ turns' = 1 => cp'.query = None
    /\ world = "orders" /\ asked' # {} => FirstAsked \in asked'
    /\ world = "store" => \A e \in Updater : update'[e] # None => update'[e].value = 1

MCSpec == MCInit /\ [][TurnsNext]_allVars
=============================================================================
