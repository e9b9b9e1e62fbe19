----------------------------- MODULE MCExchange -----------------------------
(* Instances of Exchange for TLC.                                          *)
EXTENDS ExchangeProps, TLC

CONSTANTS t1, t2   \* two traders

TwoTraders == {t1, t2}
TraderSymmetry == Permutations(TwoTraders)

One    == {1}
OneTwo == {1, 2}
Two    == {2}
Eight  == {8}

\* Funded: the first order comes when all the money and units are in, and no
\* more comes afterwards.
Funded ==
  /\ order # <<>> => funds >= DepositCap /\ units >= EscrowCap
  /\ funds <= DepositCap /\ units <= EscrowCap

\* OneRefusal: at most one login is refused, and then only when Funded.
OneRefusal ==
  \/ \A t \in Traders : refused[t] = 0
  \/ Funded /\ SumFunction(refused) = 1

\* Sides: and t1 holds the money and bids, t2 holds the units and offers.
Sides ==
  /\ Funded
  /\ \A id \in Ids : order[id].owner = t1 <=> order[id].kind = "buy"
  /\ inventory[t1] > 0 => \E id \in Ids : order[id].qty = 0

\* Sizes: and the bids are for two units, the offers for one.
Sizes ==
  /\ Sides
  /\ \A id \in Ids : order[id].state = "fresh" => (order[id].qty = 2 <=> order[id].kind = "buy")
=============================================================================
