----------------------------- MODULE AtomicSwap -----------------------------
(***************************************************************************)
(* What a swap promises the taker.  The taker's channel balances change    *)
(* only when a deal it accepted is settled, each acceptance is settled at  *)
(* most once, and settling moves the asset and the sats together, at the   *)
(* terms accepted or better.  Module Swap is shown to implement this.      *)
(***************************************************************************)
EXTENDS SwapTerms

CONSTANT NoDeal

VARIABLES
    open,      \* open[h]: the deal the taker is willing to make for h
    locked,    \* locked[h]: the deal being made for h
    msat,      \* msat[h]: what the taker gained in msat from swaps of h
    rgb        \* rgb[h][a]: what it gained of asset a from swaps of h

avars == <<open, locked, msat, rgb>>

AInit ==
    /\ open = [h \in Hashes |-> NoDeal]
    /\ locked = [h \in Hashes |-> NoDeal]
    /\ msat = [h \in Hashes |-> 0]
    /\ rgb = [h \in Hashes |-> [a \in Assets |-> 0]]

(* The taker's user accepts a deal (again). *)
Accept(h) ==
    /\ open'[h] \in Deal
    /\ open' = [open EXCEPT ![h] = open'[h]]
    /\ UNCHANGED <<locked, msat, rgb>>

(* The acceptance is used up: it now backs one exchange. *)
Lock(h) ==
    /\ open[h] # NoDeal
    /\ locked[h] = NoDeal
    /\ open' = [open EXCEPT ![h] = NoDeal]
    /\ locked' = [locked EXCEPT ![h] = open[h]]
    /\ UNCHANGED <<msat, rgb>>

(* The exchange is called off; nothing has moved. *)
Release(h) ==
    /\ locked[h] # NoDeal
    /\ locked' = [locked EXCEPT ![h] = NoDeal]
    /\ UNCHANGED <<open, msat, rgb>>

(* Both sides of the exchange happen in one step. *)
Settle(h) ==
    LET d == locked[h]
        a == d.asset
        t == d.type
    IN /\ d # NoDeal
       /\ locked' = [locked EXCEPT ![h] = NoDeal]
       /\ IF is_buy(t)
          THEN /\ msat'[h] >= msat[h] - t.amount_msats
               /\ rgb' = [rgb EXCEPT ![h][a] = @ + t.amount_rgb]
          ELSE /\ msat'[h] >= msat[h] + t.amount_msats
               /\ rgb' = [rgb EXCEPT ![h][a] = @ - t.amount_rgb]
       /\ msat' = [msat EXCEPT ![h] = msat'[h]]
       /\ UNCHANGED open

(* The taker's process restarts: open deals are forgotten, and exchanges   *)
(* not yet passed on are called off.                                       *)
Restart ==
    /\ open' = [h \in Hashes |-> NoDeal]
    /\ \E lost \in SUBSET Hashes :
         locked' = [h \in Hashes |-> IF h \in lost THEN NoDeal ELSE locked[h]]
    /\ UNCHANGED <<msat, rgb>>

ANext ==
    \/ \E h \in Hashes :
         \/ Accept(h)
         \/ Lock(h)
         \/ Release(h)
         \/ Settle(h)
    \/ Restart

ASpec == AInit /\ [][ANext]_avars
=============================================================================
