------------------------------- MODULE MCSwap -------------------------------
(* Small instances of Swap for TLC. *)
EXTENDS Swap

CONSTANTS a1, a2, c1, c2, c3, h1, h2

MCAssets == {a1, a2}

(* One channel of each asset and one without, as in the swap tests. *)
MCChannels == {c1, c2, c3}
MCContractOf == [c \in MCChannels |->
                   CASE c = c1 -> a1 [] c = c2 -> a2 [] c = c3 -> NoAsset]

(* With U64 = 16 the product of amount 2 and price 8 wraps to zero. *)
Term(n, a, side, p) == [amount |-> n, asset |-> a, side |-> side, price |-> p]

EditTerms == {Term(1, a1, "buy", 2), Term(1, a2, "buy", 2),
              Term(1, a1, "sell", 1), Term(1, a1, "sell", 2),
              Term(2, a1, "sell", 8)}

PlainTerms == {Term(1, a1, "buy", 5), Term(2, a1, "sell", 2)}

Strings(terms, expiries, hashes) ==
    {[amount |-> t.amount, asset |-> t.asset, side |-> t.side,
      price |-> t.price, expiry |-> e, hash |-> h] :
        t \in terms, e \in expiries, h \in hashes}

MCHashes1 == {h1}
MCHashes2 == {h1, h2}
MCStringsEdited == Strings(EditTerms, {1}, MCHashes1)
MCStringsPlain == Strings(PlainTerms, {1, 2}, MCHashes2)
MCStringsFaults == Strings(PlainTerms, {1}, MCHashes1)

MCTimeouts == {1}
MCFees == {0, 1}
MCFees0 == {0}

(* The maker does not know asset a2. *)
MCMakerRgb == [a \in MCAssets |-> IF a = a1 THEN 2 ELSE None]
MCTakerRgb == [a \in MCAssets |-> IF a = a1 THEN 2 ELSE 1]

(* Some of asset a1 leaves the taker's wallet and may come back; in        *)
(* between a sale of 2 is not covered.                                     *)
MCTakerBalances == [a \in MCAssets |-> IF a = a1 THEN {1, 2} ELSE {}]
MCNoChange == [a \in MCAssets |-> {}]
=============================================================================
