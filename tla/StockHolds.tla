----------------------------- MODULE StockHolds -----------------------------
(***************************************************************************)
(* What the order side of the bookstore promises the warehouse, with no    *)
(* orders, payments or callbacks in sight.  Every source of a stock        *)
(* movement (an order row or a payment attempt) takes the quantities it    *)
(* needs at most once; what it took is either kept for good (the goods are *)
(* sold) or given back once, and never both.  The inventory desk may       *)
(* recount a shelf at any time.  OrderPayments implements this             *)
(* specification.                                                          *)
(***************************************************************************)
EXTENDS Integers

CONSTANTS Sources,    \* what a movement can be recorded for
          Variants,   \* the product variants of one branch
          Need        \* Need[s][v], a natural: the quantity of v that s takes

VARIABLES stock,      \* stock[v]: what the shelf of v holds
          hold        \* hold[s]: what became of the goods of source s

vars == <<stock, hold>>

HoldState == {"none", "taken", "sold", "returned"}

Init == /\ stock \in [Variants -> Nat]
        /\ hold = [s \in Sources |-> "none"]

Take(s) ==
    /\ hold[s] = "none"
    /\ \A v \in Variants : Need[s][v] <= stock[v]
    /\ stock' = [v \in Variants |-> stock[v] - Need[s][v]]
    /\ hold' = [hold EXCEPT ![s] = "taken"]

Sell(s) ==
    /\ hold[s] = "taken"
    /\ hold' = [hold EXCEPT ![s] = "sold"]
    /\ UNCHANGED stock

GiveBack(s) ==
    /\ hold[s] = "taken"
    /\ stock' = [v \in Variants |-> stock[v] + Need[s][v]]
    /\ hold' = [hold EXCEPT ![s] = "returned"]

Recount(v) ==
    /\ stock' \in [Variants -> Nat]
    /\ \A w \in Variants \ {v} : stock'[w] = stock[w]
    /\ UNCHANGED hold

Next == \/ \E s \in Sources : Take(s) \/ Sell(s) \/ GiveBack(s)
        \/ \E v \in Variants : Recount(v)

Spec == Init /\ [][Next]_vars
=============================================================================
