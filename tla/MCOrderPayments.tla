-------------------------- MODULE MCOrderPayments --------------------------
(***************************************************************************)
(* Small instances of OrderPayments for TLC.                               *)
(***************************************************************************)
EXTENDS OrderPayments, Functions, FiniteSets, TLC

CONSTANTS o1, o2, v1

\* One order of one book, on a shelf of two.
OneOrder == {o1}
OneBook == {v1}
OneDemand == [o \in {o1} |-> [v \in {v1} |-> 1]]
TwoOnTheShelf == [v \in {v1} |-> 2]

\* Two orders that compete for two copies: o1 buys one, o2 buys both.
TwoOrders == {o1, o2}
SharedDemand == [o \in {o1, o2} |-> [v \in {v1} |-> IF o = o1 THEN 1 ELSE 2]]

\* Request slots and keys are interchangeable (safety runs only).
Symmetry == Permutations(Calls) \cup Permutations(Keys)

\* What is off the shelf by the rows: COD orders that were deducted and not
\* restored, attempts that were not released.
CodOut == {o \in Orders : CodStockOut(o)}
Held == {s \in Orders \X Tries : /\ attempt[s[1]][s[2]].status # "NONE"
                                 /\ ~attempt[s[1]][s[2]].released}

\* The stock timestamps of the rows account for every copy: a shelf holds what
\* the inventory desk put there, less what orders still hold by their own rows,
\* a COD order from its deduction to its restoration, an attempt until released.
TimestampsAccountForStock ==
    \A v \in Variants :
        stock[v] = supply[v]
            - SumFunctionOnSet([o \in Orders |-> Demand[o][v]], CodOut)
            - SumFunctionOnSet([s \in Orders \X Tries |-> Demand[s[1]][v]], Held)
=============================================================================
