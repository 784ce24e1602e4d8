---------------------------- MODULE MCTransfers -----------------------------
(* Instances of Transfers for TLC: a transfer for each kind of route.       *)
EXTENDS Transfers, TLC

CONSTANTS a, b, t1, t2, t3, t4, t5, t6

\* From a to b, from and to the wallet, from the commissions; the amounts compete.
Routes ==
  t1 :> <<a, b, 1>> @@ t2 :> <<a, Wallet, 1>> @@ t3 :> <<Wallet, b, 2>> @@ t4 :> <<Wallet, a, 4>>
    @@ t5 :> <<IbWallet, a, 1>> @@ t6 :> <<IbWallet, Wallet, 1>>
RouteFrom == [t \in TransferIds |-> Routes[t][1]]
RouteTo == [t \in TransferIds |-> Routes[t][2]]
RouteAmount == [t \in TransferIds |-> Routes[t][3]]

HandlerSymmetry == Permutations(Handlers)
=============================================================================
