-------------------------- MODULE StockTransactions --------------------------
(***************************************************************************)
(* The same stock as the code keeps it: by transactions that run at once,  *)
(* each on the snapshot it took when it began.  All of them are            *)
(* serializable, and a conflict is retried with a new snapshot, three      *)
(* attempts in all.                                                        *)
(*                                                                         *)
(* The database is modelled by the two rules that the code relies on: a    *)
(* transaction whose row was written by one that committed meanwhile       *)
(* fails, and so does one that both read what another wrote and wrote what *)
(* another read (PostgreSQL's serializable snapshot isolation).            *)
(***************************************************************************)
EXTENDS StockReceipts

CONSTANTS
    Connections,    \* each runs one transaction at a time
    MaxAttempts     \* runTransaction and runSerializableTransaction: 3

ASSUME TransactionsAssumption == MaxAttempts \in Nat \ {0}

VARIABLES
    running,    \* transactions that have begun
    sellable,   \* the variant is active and its product ACTIVE
    open        \* the branch is active

transactionVars == <<receipt, onHand, held, ledger, running, sellable, open>>

ReceiptOps == {"CREATE", "EDIT", "CANCEL", "CONFIRM"}
OrderOps == {"DEDUCT", "RESTORE"}
AdjustOps == {"RAISE", "LOWER"}
Ops == ReceiptOps \cup OrderOps \cup AdjustOps

\* The rows of the tables, as far as conflicts go: a receipt, its lines and the
\* stock of a variant.
Rows == {"HEAD", "LINES"} \X Receipts \cup {"STOCK"} \X Variants

\* What a transaction does, as far as it was settled by its snapshot: the lines
\* are those of the request, or for a confirmation those that it read, and the
\* quantities are those it saw.  Then what has happened since: the rows that others
\* changed and the rows that they read.
Transaction ==
    [conn: Connections, op: Ops, on: Receipts \cup {NoReceipt}, items: Lines, seen: [Variants -> Nat], expected: Nat,
     attempt: 1..MaxAttempts, changed: SUBSET Rows, read: SUBSET Rows]

TransactionTypeOK ==
    /\ StockTypeOK
    /\ running \in SUBSET Transaction
    /\ sellable \in SUBSET Variants
    /\ open \in BOOLEAN

TransactionInit ==
    /\ StockInit
    /\ running = {}
    /\ sellable = Variants
    /\ open = TRUE

-----------------------------------------------------------------------------
\* The checks of each transaction.  They are made on the snapshot, and nothing is
\* written when one fails: a transaction that runs has passed them.
\* Mutant: whatever was not cancelled may still be edited, cancelled or confirmed.
RequireUncancelled(r) == receipt[r].status # "CANCELLED"

RequireDraft(r) == receipt[r].status = "DRAFT"

InSale(items) == open /\ DOMAIN items \subseteq sellable

Expected(items, expected) == \A v \in DOMAIN items : onHand[v] = expected

Accepted(t) ==
    CASE t.op = "CREATE" -> InSale(t.items)
      [] t.op = "EDIT" -> RequireDraft(t.on) /\ DOMAIN t.items \subseteq sellable
      [] t.op = "CANCEL" -> RequireDraft(t.on)
      [] t.op = "CONFIRM" -> RequireDraft(t.on) /\ t.items # NoLines /\ InSale(t.items)
      [] t.op = "RAISE" -> InSale(t.items) /\ Expected(t.items, t.expected)
      [] t.op = "LOWER" ->
             /\ InSale(t.items) /\ Expected(t.items, t.expected)
             /\ Covered(onHand, t.items)
      [] t.op = "DEDUCT" -> InSale(t.items) /\ Covered(onHand, t.items)
      [] t.op = "RESTORE" -> Covered(held, t.items)

Started(conn, op, r, items, expected, attempt) ==
    [conn |-> conn, op |-> op, on |-> r, items |-> IF op = "CONFIRM" THEN receipt[r].items ELSE items,
     seen |-> onHand, expected |-> expected, attempt |-> attempt, changed |-> {}, read |-> {}]

Free == {c \in Connections : \A t \in running : t.conn # c}

Begin(op, r, items, expected) ==
    \E c \in Free :
        LET t == Started(c, op, r, items, expected, 1) IN
        /\ Accepted(t)
        /\ running' = running \cup {t}
        /\ UNCHANGED <<stockVars, sellable, open>>

StockRows(t) == {"STOCK"} \X (IF t.op \in {"CREATE", "EDIT", "CANCEL"} THEN {} ELSE DOMAIN t.items)

ReadSet(t) ==
    StockRows(t) \cup (IF t.on = NoReceipt THEN {} ELSE {<<"HEAD", t.on>>, <<"LINES", t.on>>})

WriteSet(t) ==
    StockRows(t) \cup
    CASE t.op = "CREATE" -> {<<"HEAD", t.on>>, <<"LINES", t.on>>}
      [] t.op = "EDIT" -> {<<"LINES", t.on>>}
      [] t.op \in {"CANCEL", "CONFIRM"} -> {<<"HEAD", t.on>>}
      [] OTHER -> {}

\* Mutants: the default isolation of the database; snapshots without the check of
\* what was read.
ReadCommitted(t) == TRUE

SnapshotIsolation(t) == WriteSet(t) \cap t.changed = {}

\* What the database lets commit at SERIALIZABLE.
Serializable(t) ==
    /\ WriteSet(t) \cap t.changed = {}
    /\ ReadSet(t) \cap t.changed = {} \/ WriteSet(t) \cap t.read = {}

-----------------------------------------------------------------------------
\* A commit matters to those still running that read or write the same rows.
After(u, t) ==
    [u EXCEPT !.changed = @ \cup (WriteSet(t) \cap (ReadSet(u) \cup WriteSet(u))),
              !.read = @ \cup (ReadSet(t) \cap WriteSet(u))]

Commit(t) ==
    /\ Serializable(t)
    /\ running' = {After(u, t) : u \in running \ {t}}
    /\ UNCHANGED <<sellable, open>>

SetReceipt(r, status, items) ==
    receipt' = [receipt EXCEPT ![r] = [status |-> status, items |-> items]]

CommitCreate(t) ==
    /\ t.op = "CREATE" /\ Commit(t)
    /\ SetReceipt(t.on, "DRAFT", t.items)
    /\ UNCHANGED <<onHand, held, ledger>>

\* updateDraft: the lines are replaced, the status is not written.
CommitEdit(t) ==
    /\ t.op = "EDIT" /\ Commit(t)
    /\ SetReceipt(t.on, receipt[t.on].status, t.items)
    /\ UNCHANGED <<onHand, held, ledger>>

CommitCancel(t) ==
    /\ t.op = "CANCEL" /\ Commit(t)
    /\ SetReceipt(t.on, "CANCELLED", receipt[t.on].items)
    /\ UNCHANGED <<onHand, held, ledger>>

\* confirm: the lines that were read are added, the lines are not written.
CommitConfirm(t) ==
    /\ t.op = "CONFIRM" /\ Commit(t)
    /\ SetReceipt(t.on, "CONFIRMED", receipt[t.on].items)
    /\ Move(t.seen, t.items, t.on)
    /\ UNCHANGED held

CommitRaise(t) ==
    /\ t.op = "RAISE" /\ Commit(t)
    /\ Move(t.seen, t.items, NoReceipt)
    /\ UNCHANGED <<receipt, held>>

CommitLower(t) ==
    /\ t.op = "LOWER" /\ Commit(t)
    /\ Move(t.seen, Negated(t.items), NoReceipt)
    /\ UNCHANGED <<receipt, held>>

CommitDeduct(t) ==
    /\ t.op = "DEDUCT" /\ Commit(t)
    /\ Move(t.seen, Negated(t.items), NoReceipt)
    /\ held' = [v \in Variants |-> held[v] + Of(t.items, v)]
    /\ UNCHANGED receipt

CommitRestore(t) ==
    /\ t.op = "RESTORE" /\ Commit(t)
    /\ Move(t.seen, t.items, NoReceipt)
    /\ held' = [v \in Variants |-> held[v] - Of(t.items, v)]
    /\ UNCHANGED receipt

\* A conflict (P2034): begin again with a new snapshot, unless its checks fail
\* now or this was the last attempt.
Retry(t) ==
    LET again == Started(t.conn, t.op, t.on, t.items, t.expected, t.attempt + 1) IN
    /\ t.changed # {}
    /\ running' = (running \ {t}) \cup
           (IF t.attempt < MaxAttempts /\ Accepted(again) THEN {again} ELSE {})
    /\ UNCHANGED <<stockVars, sellable, open>>

\* updateThreshold writes the row of the stock and not its quantity.
UpdateThreshold(v) ==
    /\ ledger[v] # <<>>
    /\ running' = {[t EXCEPT !.changed = @ \cup ({<<"STOCK", v>>} \cap StockRows(t))] : t \in running}
    /\ UNCHANGED <<stockVars, sellable, open>>

\* The catalog takes variants out of sale or back; a branch closes or reopens.
ToggleSellable(v) ==
    /\ sellable' = IF v \in sellable THEN sellable \ {v} ELSE sellable \cup {v}
    /\ UNCHANGED <<stockVars, running, open>>

ToggleBranch ==
    /\ open' = ~open
    /\ UNCHANGED <<stockVars, running, sellable>>

-----------------------------------------------------------------------------
\* A receipt gets a new id when it is created, and is named by it afterwards.
CreateRequest(r) ==
    /\ receipt[r].status = "NONE"
    /\ \A t \in running : t.on # r
    /\ \E items \in Lines : Begin("CREATE", r, items, 0)

ReceiptRequest(r) ==
    /\ receipt[r].status # "NONE"
    /\ \/ \E items \in Lines : Begin("EDIT", r, items, 0)
       \/ Begin("CANCEL", r, NoLines, 0)
       \/ Begin("CONFIRM", r, NoLines, 0)

OrderRequest ==
    \E items \in Lines \ {NoLines}, op \in OrderOps : Begin(op, NoReceipt, items, 0)

\* An adjustment names the quantity that its form was opened with.
AdjustRequest(v) ==
    \E n \in Quantities, op \in AdjustOps :
        Begin(op, NoReceipt, [w \in {v} |-> n], onHand[v])

Request ==
    \/ \E r \in Receipts : CreateRequest(r) \/ ReceiptRequest(r)
    \/ OrderRequest
    \/ \E v \in Variants : AdjustRequest(v)

Finish(t) ==
    \/ CommitCreate(t)
    \/ CommitEdit(t)
    \/ CommitCancel(t)
    \/ CommitConfirm(t)
    \/ CommitRaise(t)
    \/ CommitLower(t)
    \/ CommitDeduct(t)
    \/ CommitRestore(t)
    \/ Retry(t)

TransactionNext ==
    \/ Request
    \/ \E t \in running : Finish(t)
    \/ \E v \in Variants : UpdateThreshold(v) \/ ToggleSellable(v)
    \/ ToggleBranch

TransactionSpec == TransactionInit /\ [][TransactionNext]_transactionVars

-----------------------------------------------------------------------------
\* However the transactions run at once, the stock changes as if each had been
\* one step: no receipt is counted twice, with lines that were replaced while it
\* was confirmed, or edited after it was.
ActsAtomically == StockSpec
=============================================================================
