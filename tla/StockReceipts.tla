---------------------------- MODULE StockReceipts ----------------------------
(***************************************************************************)
(* What the stock of a branch promises: import receipts that are drafted,  *)
(* edited, cancelled and confirmed, direct adjustments and the orders that *)
(* deduct and restore, each as one step.  Every change of a quantity       *)
(* leaves a movement (inventory_movements) with the quantity before and    *)
(* after it.                                                               *)
(***************************************************************************)
EXTENDS Integers, Sequences, FiniteSets

CONSTANTS
    Receipts,       \* import receipts of the branch
    Variants,
    Quantities,     \* quantities a request can name
    NoReceipt,      \* the source of a movement that is not a receipt's
    MaxMovements    \* bound on the movements of one variant

ASSUME ReceiptsAssumption ==
    /\ NoReceipt \notin Receipts
    /\ Quantities \subseteq Nat \ {0}
    /\ MaxMovements \in Nat

VARIABLES
    receipt,    \* stock_receipts with their lines
    onHand,     \* branch_product_stocks.quantity, 0 without a row
    held,       \* what orders have taken and could give back
    ledger      \* inventory_movements of each variant, oldest first

stockVars == <<receipt, onHand, held, ledger>>

Statuses == {"NONE", "DRAFT", "CONFIRMED", "CANCELLED"}

\* The lines of a receipt or a request: a quantity for some of the variants.
\* requireAvailableVariants refuses a variant that is named twice.
Lines == UNION {[S -> Quantities] : S \in SUBSET Variants}
NoLines == [v \in {} |-> 0]

Movement == [change: Int, before: Int, after: Int, source: Receipts \cup {NoReceipt}]

StockTypeOK ==
    /\ receipt \in [Receipts -> [status: Statuses, items: Lines]]
    /\ onHand \in [Variants -> Nat]
    /\ held \in [Variants -> Nat]
    /\ ledger \in [Variants -> Seq(Movement)]

StockInit ==
    /\ receipt = [r \in Receipts |-> [status |-> "NONE", items |-> NoLines]]
    /\ onHand = [v \in Variants |-> 0]
    /\ held = [v \in Variants |-> 0]
    /\ ledger = [v \in Variants |-> <<>>]

-----------------------------------------------------------------------------
\* recordInventoryMovement, after the quantity has changed from `before`.
Recorded(before, change, source) ==
    [change |-> change, before |-> before, after |-> before + change, source |-> source]

Room(S) == \A v \in S : Len(ledger[v]) < MaxMovements

\* A quantity for each variant, 0 for those that are not named.
Of(items, v) == IF v \in DOMAIN items THEN items[v] ELSE 0

\* The quantities of some variants go up or down from what they are (or were read
\* to be), each with its movement.
Move(from, change, source) ==
    /\ Room(DOMAIN change)
    /\ onHand' = [v \in Variants |->
                     IF v \in DOMAIN change THEN from[v] + change[v] ELSE onHand[v]]
    /\ ledger' = [v \in Variants |->
                     IF v \in DOMAIN change
                     THEN Append(ledger[v], Recorded(from[v], change[v], source))
                     ELSE ledger[v]]

Negated(items) == [v \in DOMAIN items |-> -items[v]]

\* Mutant: off by one.
CoveredButOne(quantity, items) == \A v \in DOMAIN items : quantity[v] + 1 >= items[v]

Covered(quantity, items) == \A v \in DOMAIN items : quantity[v] >= items[v]

CreateReceipt(r, items) ==
    /\ receipt[r].status = "NONE"
    /\ receipt' = [receipt EXCEPT ![r] = [status |-> "DRAFT", items |-> items]]
    /\ UNCHANGED <<onHand, held, ledger>>

EditReceipt(r, items) ==
    /\ receipt[r].status = "DRAFT"
    /\ receipt' = [receipt EXCEPT ![r] = [status |-> "DRAFT", items |-> items]]
    /\ UNCHANGED <<onHand, held, ledger>>

CancelReceipt(r) ==
    /\ receipt[r].status = "DRAFT"
    /\ receipt' = [receipt EXCEPT ![r] = [status |-> "CANCELLED", items |-> receipt[r].items]]
    /\ UNCHANGED <<onHand, held, ledger>>

ConfirmReceipt(r) ==
    /\ receipt[r].status = "DRAFT"
    /\ receipt[r].items # NoLines
    /\ receipt' = [receipt EXCEPT ![r] = [status |-> "CONFIRMED", items |-> receipt[r].items]]
    /\ Move(onHand, receipt[r].items, r)
    /\ UNCHANGED held

\* adjustQuantity, in either direction; the quantity never goes below zero.
Raise(items) ==
    /\ Move(onHand, items, NoReceipt)
    /\ UNCHANGED <<receipt, held>>

Lower(items) ==
    /\ Covered(onHand, items)
    /\ Move(onHand, Negated(items), NoReceipt)
    /\ UNCHANGED <<receipt, held>>

\* An order takes its stock, or gives it back when it fails or is cancelled
\* (OrderPayments has when).
Deduct(items) ==
    /\ Covered(onHand, items)
    /\ Move(onHand, Negated(items), NoReceipt)
    /\ held' = [v \in Variants |-> held[v] + Of(items, v)]
    /\ UNCHANGED receipt

Restore(items) ==
    /\ Covered(held, items)
    /\ Move(onHand, items, NoReceipt)
    /\ held' = [v \in Variants |-> held[v] - Of(items, v)]
    /\ UNCHANGED receipt

StockNext ==
    \/ \E r \in Receipts :
           \/ \E items \in Lines : CreateReceipt(r, items) \/ EditReceipt(r, items)
           \/ CancelReceipt(r)
           \/ ConfirmReceipt(r)
    \/ \E items \in Lines : Raise(items) \/ Lower(items) \/ Deduct(items) \/ Restore(items)

StockSpec == StockInit /\ [][StockNext]_stockVars

-----------------------------------------------------------------------------
(* Properties. *)

\* The movements of a variant tell its whole history: each starts at the
\* quantity that the one before it left, and the last one left what is on hand.
LedgerChains ==
    \A v \in Variants :
        /\ onHand[v] = IF ledger[v] = <<>> THEN 0 ELSE ledger[v][Len(ledger[v])].after
        /\ \A i \in DOMAIN ledger[v] :
               /\ ledger[v][i].after = ledger[v][i].before + ledger[v][i].change
               /\ ledger[v][i].after >= 0
               /\ ledger[v][i].before = IF i = 1 THEN 0 ELSE ledger[v][i - 1].after

MovementsOf(r, v) == {i \in DOMAIN ledger[v] : ledger[v][i].source = r}

\* A confirmed receipt is in stock exactly once, with the lines it still shows;
\* a draft or a cancelled one never was.
ReceivedOnce ==
    \A r \in Receipts, v \in Variants :
        IF receipt[r].status = "CONFIRMED" /\ v \in DOMAIN receipt[r].items
        THEN \E i \in DOMAIN ledger[v] :
                 /\ MovementsOf(r, v) = {i}
                 /\ ledger[v][i].change = receipt[r].items[v]
        ELSE MovementsOf(r, v) = {}
=============================================================================
