------------------------------ MODULE MCServer ------------------------------
(* Instances of Server for TLC.                                            *)
EXTENDS ServerProps

CONSTANTS t1, t2   \* two traders

TwoTraders == {t1, t2}
T1         == {t1}
One        == {1}

\* The money comes in, then the units, then the orders: t1 holds the money and
\* bids once, t2 holds the units and offers once.  From the first order on a
\* trader's other requests are cancels of its order, or come after its end, and
\* only from then on is a connection reset.  A login is refused only before the
\* first order: no action of the others looks at the reference it leaves.
Scenario ==
  /\ units > 0 => funds >= DepositCap
  /\ order # <<>> => funds >= DepositCap /\ units >= EscrowCap
  /\ order # <<>> => \A t \in Traders : refused[t] = 0
  /\ order = <<>> => down = {} /\ inventory[t1] = 0 /\ balance[t2] = 0
  /\ \A id \in Ids : order[id].owner = t1 <=> order[id].kind = "buy"
  /\ \A i, j \in Ids : order[i].owner = order[j].owner => i = j
  /\ \A t \in Traders :
       /\ answer[t] = "nack" => cur[t] # 0
       /\ pc[t] = "reply" /\ order # <<>> =>
            \/ cur[t] # 0
            \/ \E id \in Ids : order[id].owner = t /\ order[id].state = "gone"
=============================================================================
