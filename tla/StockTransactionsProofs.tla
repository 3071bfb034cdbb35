------------------------ MODULE StockTransactionsProofs ------------------------
(***************************************************************************)
(* Proofs about stock, for any receipts, variants and quantities, and for  *)
(* any number of transactions that run at once.  First StockReceipts: its  *)
(* three properties are inductive together, and what Move needs is that    *)
(* the quantities it arrives at are not below zero.  Then                  *)
(* StockTransactions: the stock that is kept by transactions implements    *)
(* the stock of StockReceipts, so what is proved of that holds here too.   *)
(***************************************************************************)
EXTENDS StockTransactions, TLAPS

\* The chain of one variant's movements.
Chain(quantity, movements) ==
    /\ quantity = IF movements = <<>> THEN 0 ELSE movements[Len(movements)].after
    /\ \A i \in DOMAIN movements :
           /\ movements[i].after = movements[i].before + movements[i].change
           /\ movements[i].after >= 0
           /\ movements[i].before = IF i = 1 THEN 0 ELSE movements[i - 1].after

\* A receipt against the movements of a variant that have it as their source.
Booked(row, v, movements, r) ==
    LET of == {i \in DOMAIN movements : movements[i].source = r} IN
    IF row.status = "CONFIRMED" /\ v \in DOMAIN row.items
    THEN \E i \in DOMAIN movements : of = {i} /\ movements[i].change = row.items[v]
    ELSE of = {}

StockInv ==
    /\ StockTypeOK
    /\ \A v \in Variants : Chain(onHand[v], ledger[v])
    /\ \A r \in Receipts, v \in Variants : Booked(receipt[r], v, ledger[v], r)

-----------------------------------------------------------------------------
(* Lines. *)

LEMMA LinesType ==
    ASSUME NEW items \in Lines
    PROVE  DOMAIN items \subseteq Variants /\ \A v \in DOMAIN items : items[v] \in Nat \ {0}
BY ReceiptsAssumption DEF Lines

LEMMA NoLinesType == NoLines \in Lines
<1>1. NoLines \in [{} -> Quantities]
  BY DEF NoLines
<1>2. {} \in SUBSET Variants
  OBVIOUS
<1> QED
  BY <1>1, <1>2 DEF Lines

-----------------------------------------------------------------------------
(* One movement more. *)

LEMMA ChainGrows ==
    ASSUME NEW movements \in Seq(Movement), NEW quantity \in Nat, Chain(quantity, movements),
           NEW change \in Int, quantity + change >= 0, NEW source \in Receipts \cup {NoReceipt}
    PROVE  LET m == Recorded(quantity, change, source) IN
           /\ m \in Movement
           /\ Append(movements, m) \in Seq(Movement)
           /\ Chain(quantity + change, Append(movements, m))
<1> DEFINE m == Recorded(quantity, change, source)
           more == Append(movements, m)
           n == Len(movements)
<1>1. /\ m \in Movement /\ m.after = quantity + change /\ m.before = quantity
      /\ m.change = change
  BY DEF Recorded, Movement
<1> HIDE DEF m
<1>2. /\ n \in Nat /\ more \in Seq(Movement) /\ Len(more) = n + 1 /\ more[n + 1] = m
      /\ \A i \in 1..n : more[i] = movements[i]
      /\ DOMAIN movements = 1..n /\ DOMAIN more = 1..(n + 1)
  BY <1>1
<1>3. more # <<>>
  BY <1>2
<1>4. quantity = IF n = 0 THEN 0 ELSE movements[n].after
  BY <1>2 DEF Chain
<1> HIDE DEF more, n
<1>5. ASSUME NEW i \in 1..(n + 1)
      PROVE  /\ more[i].after = more[i].before + more[i].change
             /\ more[i].after >= 0
             /\ more[i].before = IF i = 1 THEN 0 ELSE more[i - 1].after
  <2>1. CASE i = n + 1
    BY <1>1, <1>2, <1>4, <2>1
  <2>2. CASE i \in 1..n
    <3>1. i # 1 => i - 1 \in 1..n
      BY <1>2, <2>2
    <3>2. /\ movements[i].after = movements[i].before + movements[i].change
          /\ movements[i].after >= 0
          /\ movements[i].before = IF i = 1 THEN 0 ELSE movements[i - 1].after
      BY <1>2, <2>2 DEF Chain
    <3> QED
      BY <1>2, <2>2, <3>1, <3>2
  <2> QED
    BY <1>2, <2>1, <2>2
<1>6. quantity + change = more[Len(more)].after
  BY <1>1, <1>2
<1>7. Chain(quantity + change, more)
  BY <1>2, <1>3, <1>5, <1>6 DEF Chain
<1> QED
  BY <1>1, <1>2, <1>7 DEF m, more

\* The movements with one source, when a movement is added.
LEMMA SourcesGrow ==
    ASSUME NEW movements \in Seq(Movement), NEW m \in Movement, NEW r
    PROVE  LET of == {i \in DOMAIN movements : movements[i].source = r}
               after == {i \in DOMAIN Append(movements, m) : Append(movements, m)[i].source = r}
           IN /\ m.source # r => after = of
              /\ m.source = r => after = of \cup {Len(movements) + 1}
              /\ Append(movements, m)[Len(movements) + 1] = m
              /\ Len(movements) + 1 \in DOMAIN Append(movements, m)
              /\ \A i \in DOMAIN movements :
                     /\ i \in DOMAIN Append(movements, m)
                     /\ Append(movements, m)[i] = movements[i]
<1> DEFINE more == Append(movements, m)
           n == Len(movements)
<1>1. /\ n \in Nat /\ Len(more) = n + 1 /\ more[n + 1] = m
      /\ \A i \in 1..n : more[i] = movements[i]
      /\ DOMAIN movements = 1..n /\ DOMAIN more = 1..(n + 1)
  OBVIOUS
<1> HIDE DEF more, n
<1>2. {i \in 1..(n + 1) : more[i].source = r} =
          {i \in 1..n : movements[i].source = r} \cup {i \in {n + 1} : m.source = r}
  BY <1>1
<1> QED
  BY <1>1, <1>2 DEF more, n

\* A receipt is booked as it was when the movement has another source.
LEMMA BookedElsewhere ==
    ASSUME NEW movements \in Seq(Movement), NEW m \in Movement, NEW r, NEW row, NEW v,
           m.source # r, Booked(row, v, movements, r)
    PROVE  Booked(row, v, Append(movements, m), r)
<1> DEFINE more == Append(movements, m)
<1>1. /\ {i \in DOMAIN more : more[i].source = r} = {i \in DOMAIN movements : movements[i].source = r}
      /\ \A i \in DOMAIN movements : i \in DOMAIN more /\ more[i] = movements[i]
  BY SourcesGrow
<1> HIDE DEF more
<1>2. Booked(row, v, more, r)
  BY <1>1 DEF Booked
<1> QED
  BY <1>2 DEF more

-----------------------------------------------------------------------------
(* Moves. *)

\* A move keeps the types and the chains.
LEMMA MoveKeeps ==
    ASSUME StockInv, NEW change, DOMAIN change \subseteq Variants,
           \A v \in DOMAIN change : change[v] \in Int /\ onHand[v] + change[v] >= 0,
           NEW source \in Receipts \cup {NoReceipt}, Move(onHand, change, source)
    PROVE  /\ onHand' \in [Variants -> Nat]
           /\ ledger' \in [Variants -> Seq(Movement)]
           /\ \A v \in Variants : Chain(onHand'[v], ledger'[v])
           /\ \A v \in Variants :
                  IF v \in DOMAIN change
                  THEN /\ Recorded(onHand[v], change[v], source) \in Movement
                       /\ ledger'[v] = Append(ledger[v], Recorded(onHand[v], change[v], source))
                  ELSE ledger'[v] = ledger[v]
<1>1. onHand \in [Variants -> Nat] /\ ledger \in [Variants -> Seq(Movement)]
  BY DEF StockInv, StockTypeOK
<1>2. ASSUME NEW v \in Variants
      PROVE  /\ onHand'[v] \in Nat /\ ledger'[v] \in Seq(Movement)
             /\ Chain(onHand'[v], ledger'[v])
             /\ IF v \in DOMAIN change
                THEN /\ Recorded(onHand[v], change[v], source) \in Movement
                     /\ ledger'[v] = Append(ledger[v], Recorded(onHand[v], change[v], source))
                ELSE ledger'[v] = ledger[v]
  <2>1. Chain(onHand[v], ledger[v]) /\ onHand[v] \in Nat /\ ledger[v] \in Seq(Movement)
    BY <1>1 DEF StockInv
  <2>2. CASE v \in DOMAIN change
    <3>1. /\ onHand'[v] = onHand[v] + change[v]
          /\ ledger'[v] = Append(ledger[v], Recorded(onHand[v], change[v], source))
      BY <2>2 DEF Move
    <3>2. change[v] \in Int /\ onHand[v] + change[v] >= 0
      BY <2>2
    <3>3. onHand[v] + change[v] \in Nat
      BY <2>1, <3>2
    <3> QED
      BY <2>1, <2>2, <3>1, <3>2, <3>3, ChainGrows
  <2>3. CASE v \notin DOMAIN change
    <3>1. onHand'[v] = onHand[v] /\ ledger'[v] = ledger[v]
      BY <2>3 DEF Move
    <3> QED
      BY <2>1, <2>3, <3>1
  <2> QED
    BY <2>2, <2>3
<1>3. /\ onHand' = [v \in Variants |-> onHand'[v]]
      /\ ledger' = [v \in Variants |-> ledger'[v]]
  BY DEF Move
<1> QED
  BY <1>2, <1>3

\* A move of no receipt.
LEMMA PlainMoveKeeps ==
    ASSUME StockInv, NEW change, DOMAIN change \subseteq Variants,
           \A v \in DOMAIN change : change[v] \in Int /\ onHand[v] + change[v] >= 0,
           Move(onHand, change, NoReceipt), receipt' = receipt, held' \in [Variants -> Nat]
    PROVE  StockInv'
<1>1. /\ onHand' \in [Variants -> Nat]
      /\ ledger' \in [Variants -> Seq(Movement)]
      /\ \A v \in Variants : Chain(onHand'[v], ledger'[v])
  BY MoveKeeps
<1>2. ASSUME NEW r \in Receipts, NEW v \in Variants
      PROVE  Booked(receipt'[r], v, ledger'[v], r)
  <2>1. Booked(receipt[r], v, ledger[v], r) /\ ledger[v] \in Seq(Movement)
    BY DEF StockInv, StockTypeOK
  <2>2. CASE v \notin DOMAIN change
    BY <2>1, <2>2, MoveKeeps
  <2>3. CASE v \in DOMAIN change
    <3> DEFINE m == Recorded(onHand[v], change[v], NoReceipt)
    <3>1. m \in Movement /\ ledger'[v] = Append(ledger[v], m)
      BY <2>3, MoveKeeps
    <3>2. m.source # r
      BY ReceiptsAssumption DEF Recorded
    <3> HIDE DEF m
    <3> QED
      BY <2>1, <3>1, <3>2, BookedElsewhere
  <2> QED
    BY <2>2, <2>3
<1>3. StockTypeOK'
  BY <1>1 DEF StockInv, StockTypeOK
<1> QED
  BY <1>1, <1>2, <1>3 DEF StockInv

LEMMA HeldMore ==
    ASSUME StockInv, NEW items \in Lines, held' = [v \in Variants |-> held[v] + Of(items, v)]
    PROVE  held' \in [Variants -> Nat]
BY LinesType DEF StockInv, StockTypeOK, Of

LEMMA HeldLess ==
    ASSUME StockInv, NEW items \in Lines, Covered(held, items),
           held' = [v \in Variants |-> held[v] - Of(items, v)]
    PROVE  held' \in [Variants -> Nat]
<1>1. ASSUME NEW v \in Variants PROVE held[v] - Of(items, v) \in Nat
  <2>1. held[v] \in Nat
    BY DEF StockInv, StockTypeOK
  <2>2. CASE v \in DOMAIN items
    BY <2>1, <2>2, LinesType DEF Covered, Of
  <2>3. CASE v \notin DOMAIN items
    BY <2>1, <2>3 DEF Of
  <2> QED
    BY <2>2, <2>3
<1> QED
  BY <1>1

LEMMA UpKeeps ==
    ASSUME StockInv, NEW items \in Lines, Move(onHand, items, NoReceipt),
           receipt' = receipt, held' \in [Variants -> Nat]
    PROVE  StockInv'
<1>1. DOMAIN items \subseteq Variants
  BY LinesType
<1>2. \A v \in DOMAIN items : items[v] \in Int /\ onHand[v] + items[v] >= 0
  BY LinesType DEF StockInv, StockTypeOK
<1> QED
  BY <1>1, <1>2, PlainMoveKeeps

LEMMA DownKeeps ==
    ASSUME StockInv, NEW items \in Lines, Covered(onHand, items),
           Move(onHand, Negated(items), NoReceipt),
           receipt' = receipt, held' \in [Variants -> Nat]
    PROVE  StockInv'
<1> DEFINE change == Negated(items)
<1>1. DOMAIN change = DOMAIN items /\ \A v \in DOMAIN items : change[v] = -items[v]
  BY DEF Negated
<1>2. ASSUME NEW v \in DOMAIN change
      PROVE  change[v] \in Int /\ onHand[v] + change[v] >= 0
  <2>1. items[v] \in Nat /\ onHand[v] \in Nat /\ onHand[v] >= items[v]
    BY <1>1, LinesType DEF Covered, StockInv, StockTypeOK
  <2> QED
    BY <1>1, <2>1
<1>3. Move(onHand, change, NoReceipt) /\ DOMAIN change \subseteq Variants
  BY <1>1, LinesType
<1> HIDE DEF change
<1> QED
  BY <1>2, <1>3, PlainMoveKeeps

-----------------------------------------------------------------------------
(* The operations. *)

\* A receipt that is not and does not become confirmed is written.
LEMMA ReceiptWrite ==
    ASSUME StockInv, NEW r \in Receipts, receipt[r].status # "CONFIRMED",
           NEW status \in Statuses \ {"CONFIRMED"}, NEW items \in Lines,
           receipt' = [receipt EXCEPT ![r] = [status |-> status, items |-> items]],
           UNCHANGED <<onHand, held, ledger>>
    PROVE  StockInv'
<1>1. StockTypeOK'
  BY DEF StockInv, StockTypeOK
<1>2. ASSUME NEW x \in Receipts, NEW v \in Variants
      PROVE  Booked(receipt'[x], v, ledger'[v], x)
  <2>1. Booked(receipt[x], v, ledger[v], x)
    BY DEF StockInv
  <2>2. CASE x = r
    <3>1. receipt'[x].status # "CONFIRMED"
      BY <2>2 DEF StockInv, StockTypeOK
    <3> QED
      BY <2>1, <2>2, <3>1 DEF Booked
  <2>3. CASE x # r
    BY <2>1, <2>3 DEF StockInv, StockTypeOK
  <2> QED
    BY <2>2, <2>3
<1> QED
  BY <1>1, <1>2 DEF StockInv

LEMMA DraftStepKeeps ==
    ASSUME StockInv, NEW r \in Receipts,
           \/ \E items \in Lines : CreateReceipt(r, items) \/ EditReceipt(r, items)
           \/ CancelReceipt(r)
    PROVE  StockInv'
<1>1. receipt[r].items \in Lines
  BY DEF StockInv, StockTypeOK
<1> QED
  BY <1>1, ReceiptWrite DEF CreateReceipt, EditReceipt, CancelReceipt, Statuses

LEMMA ConfirmReceiptKeeps ==
    ASSUME StockInv, NEW r \in Receipts, ConfirmReceipt(r)
    PROVE  StockInv'
<1> DEFINE items == receipt[r].items
<1>1. receipt[r] \in [status: Statuses, items: Lines] /\ items \in Lines
  BY DEF StockInv, StockTypeOK
<1>2. /\ receipt[r].status = "DRAFT" /\ held' = held /\ Move(onHand, items, r)
      /\ receipt' = [receipt EXCEPT ![r] = [status |-> "CONFIRMED", items |-> items]]
  BY DEF ConfirmReceipt
<1> HIDE DEF items
<1>3. \A v \in DOMAIN items : items[v] \in Int /\ onHand[v] + items[v] >= 0
  BY <1>1, LinesType DEF StockInv, StockTypeOK
<1>4. DOMAIN items \subseteq Variants
  BY <1>1, LinesType
<1>5. /\ onHand' \in [Variants -> Nat]
      /\ ledger' \in [Variants -> Seq(Movement)]
      /\ \A v \in Variants : Chain(onHand'[v], ledger'[v])
      /\ \A v \in Variants :
             IF v \in DOMAIN items
             THEN /\ Recorded(onHand[v], items[v], r) \in Movement
                  /\ ledger'[v] = Append(ledger[v], Recorded(onHand[v], items[v], r))
             ELSE ledger'[v] = ledger[v]
  BY <1>2, <1>3, <1>4, MoveKeeps
<1>6. receipt'[r] = [status |-> "CONFIRMED", items |-> items]
      /\ \A x \in Receipts \ {r} : receipt'[x] = receipt[x]
  BY <1>2 DEF StockInv, StockTypeOK
<1>7. ASSUME NEW x \in Receipts, NEW v \in Variants
      PROVE  Booked(receipt'[x], v, ledger'[v], x)
  <2>1. Booked(receipt[x], v, ledger[v], x) /\ ledger[v] \in Seq(Movement)
    BY DEF StockInv, StockTypeOK
  <2>2. CASE v \notin DOMAIN items
    <3>1. ledger'[v] = ledger[v]
      BY <1>5, <2>2
    <3>2. CASE x = r
      BY <1>2, <1>6, <2>1, <2>2, <3>1, <3>2 DEF Booked
    <3>3. CASE x # r
      BY <1>6, <2>1, <3>1, <3>3
    <3> QED
      BY <3>2, <3>3
  <2>3. CASE v \in DOMAIN items
    <3> DEFINE m == Recorded(onHand[v], items[v], r)
               more == Append(ledger[v], m)
    <3>1. m \in Movement /\ ledger'[v] = more
      BY <1>5, <2>3
    <3>2. m.source = r /\ m.change = items[v]
      BY DEF Recorded
    <3> HIDE DEF m
    <3>3. CASE x = r
      <4>1. {i \in DOMAIN ledger[v] : ledger[v][i].source = r} = {}
        BY <1>2, <2>1, <3>3 DEF Booked
      <4>2. /\ {i \in DOMAIN more : more[i].source = r} =
                   {i \in DOMAIN ledger[v] : ledger[v][i].source = r} \cup {Len(ledger[v]) + 1}
            /\ more[Len(ledger[v]) + 1] = m /\ Len(ledger[v]) + 1 \in DOMAIN more
        BY <2>1, <3>1, <3>2, SourcesGrow
      <4> HIDE DEF more
      <4>3. {i \in DOMAIN more : more[i].source = r} = {Len(ledger[v]) + 1}
        BY <4>1, <4>2
      <4> QED
        BY <1>6, <2>3, <3>1, <3>2, <3>3, <4>2, <4>3 DEF Booked
    <3>4. CASE x # r
      BY <1>6, <2>1, <3>1, <3>2, <3>4, BookedElsewhere
    <3> QED
      BY <3>3, <3>4
  <2> QED
    BY <2>2, <2>3
<1>8. StockTypeOK'
  BY <1>1, <1>2, <1>5 DEF StockInv, StockTypeOK, Statuses
<1> QED
  BY <1>5, <1>7, <1>8 DEF StockInv

LEMMA QuantityStepKeeps ==
    ASSUME StockInv, NEW items \in Lines,
           Raise(items) \/ Lower(items) \/ Deduct(items) \/ Restore(items)
    PROVE  StockInv'
<1>1. held \in [Variants -> Nat]
  BY DEF StockInv, StockTypeOK
<1>2. CASE Raise(items)
  BY <1>1, <1>2, UpKeeps DEF Raise
<1>3. CASE Lower(items)
  BY <1>1, <1>3, DownKeeps DEF Lower
<1>4. CASE Deduct(items)
  BY <1>4, HeldMore, DownKeeps DEF Deduct
<1>5. CASE Restore(items)
  BY <1>5, HeldLess, UpKeeps DEF Restore
<1> QED
  BY <1>2, <1>3, <1>4, <1>5

-----------------------------------------------------------------------------
LEMMA StockInitHolds == ASSUME StockInit PROVE StockInv
<1>1. StockTypeOK
  BY NoLinesType DEF StockInit, StockTypeOK, Statuses
<1>2. \A v \in Variants : Chain(onHand[v], ledger[v])
  BY DEF StockInit, Chain
<1>3. \A r \in Receipts, v \in Variants : Booked(receipt[r], v, ledger[v], r)
  BY DEF StockInit, Booked
<1> QED
  BY <1>1, <1>2, <1>3 DEF StockInv

LEMMA StockNextKeeps == ASSUME StockInv, [StockNext]_stockVars PROVE StockInv'
<1>1. CASE UNCHANGED stockVars
  BY <1>1 DEF stockVars, StockInv, StockTypeOK
<1>2. CASE StockNext
  BY <1>2, DraftStepKeeps, ConfirmReceiptKeeps, QuantityStepKeeps DEF StockNext
<1> QED
  BY <1>1, <1>2

LEMMA StockInvImplies == ASSUME StockInv PROVE LedgerChains /\ ReceivedOnce
BY DEF StockInv, LedgerChains, ReceivedOnce, Chain, Booked, MovementsOf

\* The types: nothing that is on hand or held is ever below zero.
THEOREM StockTypeCorrect == StockSpec => []StockTypeOK
<1>1. StockSpec => []StockInv
  BY StockInitHolds, StockNextKeeps, PTL DEF StockSpec
<1>2. StockInv => StockTypeOK
  BY DEF StockInv
<1> QED
  BY <1>1, <1>2, PTL

\* The movements of a variant tell what is on hand, without a gap.
THEOREM LedgerStaysChained == StockSpec => []LedgerChains
<1>1. StockSpec => []StockInv
  BY StockInitHolds, StockNextKeeps, PTL DEF StockSpec
<1> QED
  BY <1>1, StockInvImplies, PTL

\* A receipt is received once when it is confirmed, with the lines it shows, and
\* never otherwise.
THEOREM ReceiptsReceivedOnce == StockSpec => []ReceivedOnce
<1>1. StockSpec => []StockInv
  BY StockInitHolds, StockNextKeeps, PTL DEF StockSpec
<1> QED
  BY <1>1, StockInvImplies, PTL

-----------------------------------------------------------------------------
(* Transactions.  The invariant (UpToDate) says what a running transaction  *)
(* may still rely on: what it read holds unless the row is marked as        *)
(* changed, and a row of its own receipt is only changed by a transaction   *)
(* that also read what it will write, which is the pair of conflicts the    *)
(* database refuses.                                                        *)

RowOf(r) == <<"HEAD", r>>
LinesOf(r) == <<"LINES", r>>
StockOf(v) == <<"STOCK", v>>

StockOps == OrderOps \cup AdjustOps \cup {"CONFIRM"}
DraftOps == {"EDIT", "CANCEL", "CONFIRM"}

\* The fields of a transaction that are settled when it begins.
Settled(t) ==
    /\ t.op \in Ops
    /\ t.items \in Lines
    /\ t.op \in ReceiptOps => t.on \in Receipts
    /\ t.op \notin ReceiptOps => t.on = NoReceipt
    /\ t.op = "CONFIRM" => t.items # NoLines
    /\ t.op \in {"LOWER", "DEDUCT"} => Covered(t.seen, t.items)

StockUpToDate(t) ==
    t.op \in StockOps =>
        \A v \in DOMAIN t.items : StockOf(v) \notin t.changed =>
            /\ t.seen[v] = onHand[v]
            /\ t.op = "RESTORE" => held[v] >= t.items[v]

ReceiptUpToDate(t) ==
    /\ t.op = "CREATE" => receipt[t.on].status = "NONE"
    /\ t.op \in DraftOps /\ RowOf(t.on) \notin t.changed => receipt[t.on].status = "DRAFT"
    /\ t.op = "CONFIRM" /\ LinesOf(t.on) \notin t.changed => receipt[t.on].items = t.items

\* Whoever changed the one row of the receipt had read the other.
Crossed(t) ==
    /\ t.op = "EDIT" /\ RowOf(t.on) \in t.changed => LinesOf(t.on) \in t.read
    /\ t.op = "CONFIRM" /\ LinesOf(t.on) \in t.changed => RowOf(t.on) \in t.read

UpToDate(t) == Settled(t) /\ StockUpToDate(t) /\ ReceiptUpToDate(t) /\ Crossed(t)

\* A receipt that is being created is no other transaction's.
CreatedAlone ==
    \A t, u \in running : t.op = "CREATE" /\ t # u => u.on # t.on

TransactionInv ==
    /\ StockInv
    /\ running \in SUBSET Transaction
    /\ sellable \in SUBSET Variants
    /\ open \in BOOLEAN
    /\ \A t \in running : UpToDate(t)
    /\ CreatedAlone

-----------------------------------------------------------------------------
(* Rows. *)

LEMMA RowsDiffer ==
    ASSUME NEW r, NEW s, NEW v, NEW w
    PROVE  /\ RowOf(r) # LinesOf(s) /\ RowOf(r) # StockOf(v) /\ LinesOf(r) # StockOf(v)
           /\ (RowOf(r) = RowOf(s)) <=> (r = s)
           /\ (LinesOf(r) = LinesOf(s)) <=> (r = s)
           /\ (StockOf(v) = StockOf(w)) <=> (v = w)
BY DEF RowOf, LinesOf, StockOf

\* What each transaction reads and writes.
LEMMA StockRowsOf ==
    ASSUME NEW t, Settled(t)
    PROVE  /\ t.op \in StockOps => StockRows(t) = {StockOf(v) : v \in DOMAIN t.items}
           /\ t.op \notin StockOps => StockRows(t) = {}
<1>1. t.op \in StockOps <=> t.op \notin {"CREATE", "EDIT", "CANCEL"}
  BY DEF Settled, StockOps, Ops, ReceiptOps, OrderOps, AdjustOps
<1>2. \A S : {"STOCK"} \X S = {<<"STOCK", v>> : v \in S}
  OBVIOUS
<1> QED
  BY <1>1, <1>2 DEF StockRows, StockOf

LEMMA RowsOfReceipt ==
    ASSUME NEW t, Settled(t), NEW r
    PROVE  /\ RowOf(r) \in ReadSet(t) <=> t.on = r /\ t.op \in ReceiptOps
           /\ LinesOf(r) \in ReadSet(t) <=> t.on = r /\ t.op \in ReceiptOps
           /\ RowOf(r) \in WriteSet(t) <=> t.on = r /\ t.op \in {"CREATE", "CANCEL", "CONFIRM"}
           /\ LinesOf(r) \in WriteSet(t) <=> t.on = r /\ t.op \in {"CREATE", "EDIT"}
<1>1. RowOf(r) \notin StockRows(t) /\ LinesOf(r) \notin StockRows(t)
  BY StockRowsOf, RowsDiffer
<1>2. (t.on = NoReceipt) <=> t.op \notin ReceiptOps
  BY ReceiptsAssumption DEF Settled
<1>3. t.op \in ReceiptOps <=> t.op \in {"CREATE", "EDIT", "CANCEL", "CONFIRM"}
  BY DEF ReceiptOps
<1>4. ReadSet(t) = StockRows(t) \cup (IF t.on = NoReceipt THEN {} ELSE {RowOf(t.on), LinesOf(t.on)})
  BY DEF ReadSet, RowOf, LinesOf
<1>5. WriteSet(t) = StockRows(t) \cup
          (IF t.op = "CREATE" THEN {RowOf(t.on), LinesOf(t.on)}
           ELSE IF t.op = "EDIT" THEN {LinesOf(t.on)}
           ELSE IF t.op \in {"CANCEL", "CONFIRM"} THEN {RowOf(t.on)} ELSE {})
  BY DEF WriteSet, RowOf, LinesOf
<1> QED
  BY <1>1, <1>2, <1>3, <1>4, <1>5, RowsDiffer

LEMMA StockRowsAreBoth ==
    ASSUME NEW t
    PROVE  StockRows(t) \subseteq ReadSet(t) /\ StockRows(t) \subseteq WriteSet(t)
BY DEF ReadSet, WriteSet

-----------------------------------------------------------------------------
(* The operations of StockReceipts that commits implement. *)

\* What a transaction that may commit knows.
LEMMA CommitKnows ==
    ASSUME TransactionInv, NEW t \in running, Serializable(t)
    PROVE  /\ t.op \in StockOps => \A v \in DOMAIN t.items :
                  /\ t.seen[v] = onHand[v]
                  /\ t.op = "RESTORE" => held[v] >= t.items[v]
           /\ t.op \in DraftOps => receipt[t.on].status = "DRAFT"
           /\ t.op = "CONFIRM" => receipt[t.on].items = t.items
<1>1. UpToDate(t) /\ Settled(t)
  BY DEF TransactionInv, UpToDate
<1>2. WriteSet(t) \cap t.changed = {}
  BY DEF Serializable
<1>3. ASSUME t.op \in StockOps, NEW v \in DOMAIN t.items PROVE StockOf(v) \notin t.changed
  BY <1>1, <1>2, <1>3, StockRowsOf, StockRowsAreBoth
<1>4. ASSUME t.op \in DraftOps PROVE RowOf(t.on) \notin t.changed
  <2>1. t.op \in ReceiptOps
    BY <1>4 DEF DraftOps, ReceiptOps
  <2>2. CASE t.op \in {"CANCEL", "CONFIRM"}
    BY <1>1, <1>2, <2>1, <2>2, RowsOfReceipt
  <2>3. CASE t.op = "EDIT"
    <3>1. SUFFICES ASSUME RowOf(t.on) \in t.changed PROVE FALSE
      OBVIOUS
    <3>2. LinesOf(t.on) \in t.read
      BY <1>1, <2>3, <3>1 DEF UpToDate, Crossed
    <3>3. RowOf(t.on) \in ReadSet(t) /\ LinesOf(t.on) \in WriteSet(t)
      BY <1>1, <2>1, <2>3, RowsOfReceipt
    <3> QED
      BY <3>1, <3>2, <3>3 DEF Serializable
  <2> QED
    BY <1>4, <2>2, <2>3 DEF DraftOps
<1>5. ASSUME t.op = "CONFIRM" PROVE LinesOf(t.on) \notin t.changed
  <2>1. SUFFICES ASSUME LinesOf(t.on) \in t.changed PROVE FALSE
    OBVIOUS
  <2>2. RowOf(t.on) \in t.read
    BY <1>1, <1>5, <2>1 DEF UpToDate, Crossed
  <2>3. LinesOf(t.on) \in ReadSet(t) /\ RowOf(t.on) \in WriteSet(t)
    BY <1>1, <1>5, RowsOfReceipt DEF ReceiptOps
  <2> QED
    BY <2>1, <2>2, <2>3 DEF Serializable
<1> QED
  BY <1>1, <1>3, <1>4, <1>5 DEF UpToDate, StockUpToDate, ReceiptUpToDate

\* Moving from what was seen is moving from what is there.
LEMMA MoveFromSeen ==
    ASSUME NEW seen, NEW change, NEW source, Move(seen, change, source),
           \A v \in DOMAIN change : seen[v] = onHand[v]
    PROVE  Move(onHand, change, source)
<1>1. onHand' = [v \in Variants |-> IF v \in DOMAIN change THEN onHand[v] + change[v] ELSE onHand[v]]
  BY DEF Move
<1>2. ledger' = [v \in Variants |-> IF v \in DOMAIN change
                                   THEN Append(ledger[v], Recorded(onHand[v], change[v], source))
                                   ELSE ledger[v]]
  BY DEF Move
<1> QED
  BY <1>1, <1>2 DEF Move

LEMMA CreateImplements ==
    ASSUME TransactionInv, NEW t \in running, CommitCreate(t)
    PROVE  t.on \in Receipts /\ t.items \in Lines /\ CreateReceipt(t.on, t.items)
BY DEF TransactionInv, UpToDate, Settled, ReceiptUpToDate, CommitCreate, SetReceipt, CreateReceipt,
       ReceiptOps

LEMMA EditImplements ==
    ASSUME TransactionInv, NEW t \in running, CommitEdit(t)
    PROVE  t.on \in Receipts /\ t.items \in Lines /\ EditReceipt(t.on, t.items)
<1>1. t.on \in Receipts /\ t.items \in Lines
  BY DEF TransactionInv, UpToDate, Settled, CommitEdit, ReceiptOps
<1>2. receipt[t.on].status = "DRAFT"
  BY CommitKnows DEF CommitEdit, Commit, DraftOps
<1> QED
  BY <1>1, <1>2 DEF CommitEdit, SetReceipt, EditReceipt

LEMMA CancelImplements ==
    ASSUME TransactionInv, NEW t \in running, CommitCancel(t)
    PROVE  t.on \in Receipts /\ CancelReceipt(t.on)
<1>1. t.on \in Receipts
  BY DEF TransactionInv, UpToDate, Settled, CommitCancel, ReceiptOps
<1>2. receipt[t.on].status = "DRAFT"
  BY CommitKnows DEF CommitCancel, Commit, DraftOps
<1> QED
  BY <1>1, <1>2 DEF CommitCancel, SetReceipt, CancelReceipt

LEMMA ConfirmImplements ==
    ASSUME TransactionInv, NEW t \in running, CommitConfirm(t)
    PROVE  t.on \in Receipts /\ ConfirmReceipt(t.on)
<1>1. t.on \in Receipts /\ t.items # NoLines
  BY DEF TransactionInv, UpToDate, Settled, CommitConfirm, ReceiptOps
<1>2. /\ receipt[t.on].status = "DRAFT" /\ receipt[t.on].items = t.items
      /\ \A v \in DOMAIN t.items : t.seen[v] = onHand[v]
  BY CommitKnows DEF CommitConfirm, Commit, DraftOps, StockOps
<1>3. Move(onHand, t.items, t.on)
  BY <1>2, MoveFromSeen DEF CommitConfirm
<1> QED
  BY <1>1, <1>2, <1>3 DEF CommitConfirm, SetReceipt, ConfirmReceipt

LEMMA QuantityImplements ==
    ASSUME TransactionInv, NEW t \in running,
           CommitRaise(t) \/ CommitLower(t) \/ CommitDeduct(t) \/ CommitRestore(t)
    PROVE  /\ t.items \in Lines
           /\ Raise(t.items) \/ Lower(t.items) \/ Deduct(t.items) \/ Restore(t.items)
<1>1. Settled(t) /\ t.items \in Lines
  BY DEF TransactionInv, UpToDate, Settled
<1>2. /\ t.op \in StockOps /\ Serializable(t)
      /\ t.op \in {"RAISE", "LOWER", "DEDUCT", "RESTORE"}
  BY DEF CommitRaise, CommitLower, CommitDeduct, CommitRestore, Commit, StockOps, OrderOps, AdjustOps
<1>3. \A v \in DOMAIN t.items : t.seen[v] = onHand[v] /\ (t.op = "RESTORE" => held[v] >= t.items[v])
  BY <1>2, CommitKnows
<1>4. t.op \in {"LOWER", "DEDUCT"} => Covered(onHand, t.items)
  BY <1>1, <1>3 DEF Settled, Covered
<1>5. \A v \in DOMAIN Negated(t.items) : t.seen[v] = onHand[v]
  BY <1>3 DEF Negated
<1>6. CASE CommitRaise(t)
  BY <1>1, <1>3, <1>6, MoveFromSeen DEF CommitRaise, Raise
<1>7. CASE CommitLower(t)
  <2>1. Move(onHand, Negated(t.items), NoReceipt)
    BY <1>5, <1>7, MoveFromSeen DEF CommitLower
  <2> QED
    BY <1>1, <1>4, <1>7, <2>1 DEF CommitLower, Lower
<1>8. CASE CommitDeduct(t)
  <2>1. Move(onHand, Negated(t.items), NoReceipt)
    BY <1>5, <1>8, MoveFromSeen DEF CommitDeduct
  <2> QED
    BY <1>1, <1>4, <1>8, <2>1 DEF CommitDeduct, Deduct
<1>9. CASE CommitRestore(t)
  <2>1. Move(onHand, t.items, NoReceipt) /\ Covered(held, t.items)
    BY <1>3, <1>9, MoveFromSeen DEF CommitRestore, Covered
  <2> QED
    BY <1>1, <1>9, <2>1 DEF CommitRestore, Restore
<1> QED
  BY <1>6, <1>7, <1>8, <1>9

CommitStep(t) ==
    \/ CommitCreate(t) \/ CommitEdit(t) \/ CommitCancel(t) \/ CommitConfirm(t)
    \/ CommitRaise(t) \/ CommitLower(t) \/ CommitDeduct(t) \/ CommitRestore(t)

\* Every commit is a step of the stock.
LEMMA CommitImplements ==
    ASSUME TransactionInv, NEW t \in running, CommitStep(t)
    PROVE  StockNext
<1>1. CASE CommitCreate(t)
  BY <1>1, CreateImplements DEF StockNext
<1>2. CASE CommitEdit(t)
  BY <1>2, EditImplements DEF StockNext
<1>3. CASE CommitCancel(t)
  BY <1>3, CancelImplements DEF StockNext
<1>4. CASE CommitConfirm(t)
  BY <1>4, ConfirmImplements DEF StockNext
<1>5. CASE CommitRaise(t) \/ CommitLower(t) \/ CommitDeduct(t) \/ CommitRestore(t)
  BY <1>5, QuantityImplements DEF StockNext
<1> QED
  BY <1>1, <1>2, <1>3, <1>4, <1>5 DEF CommitStep

-----------------------------------------------------------------------------
(* A transaction that begins, and one that begins again. *)

LEMMA AcceptedMeans ==
    ASSUME NEW t, Accepted(t), t.op \in Ops
    PROVE  /\ t.op \in DraftOps => receipt[t.on].status = "DRAFT"
           /\ t.op = "CONFIRM" => t.items # NoLines
           /\ t.op \in {"LOWER", "DEDUCT"} => Covered(onHand, t.items)
           /\ t.op = "RESTORE" => Covered(held, t.items)
BY DEF Accepted, DraftOps, RequireDraft

LEMMA StartedFields ==
    ASSUME NEW conn, NEW op, NEW r, NEW items, NEW expected, NEW attempt
    PROVE  LET t == Started(conn, op, r, items, expected, attempt) IN
           /\ t.conn = conn /\ t.op = op /\ t.on = r
           /\ t.items = IF op = "CONFIRM" THEN receipt[r].items ELSE items
           /\ t.seen = onHand /\ t.expected = expected /\ t.attempt = attempt
           /\ t.changed = {} /\ t.read = {}
BY DEF Started

LEMMA StartedType ==
    ASSUME StockInv, NEW conn \in Connections, NEW op \in Ops, NEW items \in Lines,
           NEW r \in Receipts \cup {NoReceipt}, op \in ReceiptOps => r \in Receipts,
           NEW expected \in Nat, NEW attempt \in 1..MaxAttempts
    PROVE  Started(conn, op, r, items, expected, attempt) \in Transaction
<1>1. onHand \in [Variants -> Nat]
  BY DEF StockInv, StockTypeOK
<1>2. (IF op = "CONFIRM" THEN receipt[r].items ELSE items) \in Lines
  BY DEF StockInv, StockTypeOK, ReceiptOps
<1> QED
  BY <1>1, <1>2 DEF Started, Transaction

LEMMA StartedUpToDate ==
    ASSUME StockInv, NEW conn \in Connections, NEW op \in Ops, NEW items \in Lines, NEW r,
           op \in ReceiptOps => r \in Receipts, op \notin ReceiptOps => r = NoReceipt,
           op = "CREATE" => receipt[r].status = "NONE",
           NEW expected, NEW attempt,
           Accepted(Started(conn, op, r, items, expected, attempt))
    PROVE  UpToDate(Started(conn, op, r, items, expected, attempt))
<1> DEFINE t == Started(conn, op, r, items, expected, attempt)
<1>1. /\ t.op = op /\ t.on = r /\ t.seen = onHand /\ t.changed = {} /\ t.read = {}
      /\ t.items = IF op = "CONFIRM" THEN receipt[r].items ELSE items
  BY StartedFields
<1>2. Accepted(t)
  OBVIOUS
<1> HIDE DEF t
<1>3. /\ op \in DraftOps => receipt[r].status = "DRAFT"
      /\ op = "CONFIRM" => t.items # NoLines
      /\ op \in {"LOWER", "DEDUCT"} => Covered(onHand, t.items)
      /\ op = "RESTORE" => Covered(held, t.items)
  BY <1>1, <1>2, AcceptedMeans
<1>4. t.items \in Lines
  BY <1>1 DEF StockInv, StockTypeOK, ReceiptOps
<1>5. Settled(t)
  BY <1>1, <1>3, <1>4 DEF Settled
<1>6. StockUpToDate(t)
  BY <1>1, <1>3 DEF StockUpToDate, Covered
<1>7. ReceiptUpToDate(t) /\ Crossed(t)
  BY <1>1, <1>3 DEF ReceiptUpToDate, Crossed
<1>8. UpToDate(t)
  BY <1>5, <1>6, <1>7 DEF UpToDate
<1> QED
  BY <1>8 DEF t

\* The transactions change and the stock does not.
LEMMA RunningWrite ==
    ASSUME TransactionInv, UNCHANGED <<stockVars, sellable, open>>,
           running' \in SUBSET Transaction, \A t \in running' : UpToDate(t),
           \A t, u \in running' : t.op = "CREATE" /\ t # u => u.on # t.on
    PROVE  TransactionInv'
<1>1. UNCHANGED <<receipt, onHand, held, ledger>>
  BY DEF stockVars
<1>2. StockInv'
  BY <1>1 DEF TransactionInv, StockInv, StockTypeOK
<1>3. \A t \in running' : UpToDate(t)'
  BY <1>1 DEF UpToDate, Settled, StockUpToDate, ReceiptUpToDate, Crossed, Covered
<1> QED
  BY <1>2, <1>3 DEF TransactionInv, CreatedAlone

LEMMA BeginKeeps ==
    ASSUME TransactionInv, NEW op \in Ops, NEW items \in Lines,
           NEW r \in Receipts \cup {NoReceipt}, NEW expected \in Nat,
           op \in ReceiptOps => r \in Receipts, op \notin ReceiptOps => r = NoReceipt,
           op = "CREATE" => receipt[r].status = "NONE" /\ \A u \in running : u.on # r,
           op # "CREATE" /\ r \in Receipts => receipt[r].status # "NONE",
           Begin(op, r, items, expected)
    PROVE  TransactionInv'
<1>1. PICK c \in Connections :
          /\ Accepted(Started(c, op, r, items, expected, 1))
          /\ running' = running \cup {Started(c, op, r, items, expected, 1)}
          /\ UNCHANGED <<stockVars, sellable, open>>
  BY DEF Begin, Free
<1> DEFINE t == Started(c, op, r, items, expected, 1)
<1>2. StockInv /\ 1 \in 1..MaxAttempts
  BY TransactionsAssumption DEF TransactionInv
<1>3. t \in Transaction
  BY <1>2, StartedType
<1>4. UpToDate(t)
  BY <1>1, <1>2, StartedUpToDate
<1>5. t.op = op /\ t.on = r
  BY StartedFields
<1>6. running' = running \cup {t}
  BY <1>1
<1> HIDE DEF t
<1>7. \A u \in running : UpToDate(u) /\ u \in Transaction
  BY DEF TransactionInv
<1>8. ASSUME NEW u \in running, u.op = "CREATE" PROVE r # u.on
  <2>1. u.on \in Receipts /\ receipt[u.on].status = "NONE"
    BY <1>7, <1>8 DEF UpToDate, Settled, ReceiptUpToDate, ReceiptOps
  <2> QED
    BY <2>1
<1>9. \A x, u \in running' : x.op = "CREATE" /\ x # u => u.on # x.on
  BY <1>5, <1>6, <1>8 DEF TransactionInv, CreatedAlone
<1> QED
  BY <1>1, <1>3, <1>4, <1>6, <1>7, <1>9, RunningWrite

LEMMA RequestKeeps ==
    ASSUME TransactionInv, Request
    PROVE  TransactionInv'
<1>1. onHand \in [Variants -> Nat] /\ NoLines \in Lines
  BY NoLinesType DEF TransactionInv, StockInv, StockTypeOK
<1>2. ASSUME NEW r \in Receipts, CreateRequest(r) PROVE TransactionInv'
  BY <1>2, BeginKeeps DEF CreateRequest, Ops, ReceiptOps
<1>3. ASSUME NEW r \in Receipts, ReceiptRequest(r) PROVE TransactionInv'
  BY <1>1, <1>3, BeginKeeps DEF ReceiptRequest, Ops, ReceiptOps
<1>4. CASE OrderRequest
  <2>1. \A op \in OrderOps : op \in Ops /\ op \notin ReceiptOps /\ op # "CREATE"
    BY DEF OrderOps, Ops, ReceiptOps
  <2> QED
    BY <1>4, <2>1, ReceiptsAssumption, BeginKeeps DEF OrderRequest
<1>5. ASSUME NEW v \in Variants, AdjustRequest(v) PROVE TransactionInv'
  <2>1. \A op \in AdjustOps : op \in Ops /\ op \notin ReceiptOps /\ op # "CREATE"
    BY DEF AdjustOps, Ops, ReceiptOps
  <2>2. \A n \in Quantities : [w \in {v} |-> n] \in Lines
    <3>1. {v} \in SUBSET Variants
      OBVIOUS
    <3>2. \A n \in Quantities : [w \in {v} |-> n] \in [{v} -> Quantities]
      OBVIOUS
    <3> QED
      BY <3>1, <3>2 DEF Lines
  <2>3. onHand[v] \in Nat
    BY <1>1
  <2> QED
    BY <1>5, <2>1, <2>2, <2>3, ReceiptsAssumption, BeginKeeps DEF AdjustRequest
<1> QED
  BY <1>2, <1>3, <1>4, <1>5 DEF Request

LEMMA RetryKeeps ==
    ASSUME TransactionInv, NEW t \in running, Retry(t)
    PROVE  TransactionInv'
<1> DEFINE again == Started(t.conn, t.op, t.on, t.items, t.expected, t.attempt + 1)
<1>1. StockInv /\ t \in Transaction /\ UpToDate(t) /\ Settled(t)
  BY DEF TransactionInv, UpToDate
<1>2. /\ t.conn \in Connections /\ t.op \in Ops /\ t.items \in Lines /\ t.expected \in Nat
      /\ t.on \in Receipts \cup {NoReceipt} /\ t.attempt \in 1..MaxAttempts
  BY <1>1 DEF Transaction
<1>3. /\ UNCHANGED <<stockVars, sellable, open>>
      /\ running' = (running \ {t}) \cup
             (IF t.attempt < MaxAttempts /\ Accepted(again) THEN {again} ELSE {})
  BY DEF Retry
<1>4. /\ t.op \in ReceiptOps => t.on \in Receipts
      /\ t.op \notin ReceiptOps => t.on = NoReceipt
      /\ t.op = "CREATE" => receipt[t.on].status = "NONE"
  BY <1>1 DEF UpToDate, Settled, ReceiptUpToDate
<1>5. t.attempt < MaxAttempts => again \in Transaction
  <2>1. t.attempt < MaxAttempts => t.attempt + 1 \in 1..MaxAttempts
    BY <1>2, TransactionsAssumption
  <2> QED
    BY <1>1, <1>2, <1>4, <2>1, StartedType
<1>6. Accepted(again) => UpToDate(again)
  BY <1>1, <1>2, <1>4, StartedUpToDate
<1>7. again.op = t.op /\ again.on = t.on
  BY StartedFields
<1> HIDE DEF again
<1>8. running' \subseteq (running \ {t}) \cup {again}
  BY <1>3
<1>9. /\ running' \in SUBSET Transaction
      /\ \A u \in running' : UpToDate(u)
  BY <1>3, <1>5, <1>6 DEF TransactionInv
<1>10. \A x, u \in running' : x.op = "CREATE" /\ x # u => u.on # x.on
  BY <1>7, <1>8 DEF TransactionInv, CreatedAlone
<1> QED
  BY <1>3, <1>9, <1>10, RunningWrite

-----------------------------------------------------------------------------
(* A commit, to those that are still running. *)

LEMMA RowsType ==
    ASSUME NEW t \in Transaction, Settled(t)
    PROVE  ReadSet(t) \cup WriteSet(t) \subseteq Rows
<1>1. DOMAIN t.items \subseteq Variants
  BY LinesType DEF Settled
<1>2. StockRows(t) \subseteq Rows
  BY <1>1 DEF StockRows, Rows
<1>3. t.op \in ReceiptOps => <<"HEAD", t.on>> \in Rows /\ <<"LINES", t.on>> \in Rows
  BY DEF Settled, Rows
<1>4. ReadSet(t) \subseteq Rows
  BY <1>2, <1>3 DEF ReadSet, Settled
<1>5. WriteSet(t) \subseteq Rows
  BY <1>2, <1>3 DEF WriteSet, ReceiptOps
<1> QED
  BY <1>4, <1>5

LEMMA AfterFields ==
    ASSUME NEW u \in Transaction, NEW t
    PROVE  LET a == After(u, t) IN
           /\ a.conn = u.conn /\ a.op = u.op /\ a.on = u.on /\ a.items = u.items
           /\ a.seen = u.seen /\ a.expected = u.expected /\ a.attempt = u.attempt
           /\ a.changed = u.changed \cup (WriteSet(t) \cap (ReadSet(u) \cup WriteSet(u)))
           /\ a.read = u.read \cup (ReadSet(t) \cap WriteSet(u))
BY DEF After, Transaction

LEMMA AfterType ==
    ASSUME NEW u \in Transaction, Settled(u), NEW t
    PROVE  After(u, t) \in Transaction
<1>1. ReadSet(u) \cup WriteSet(u) \subseteq Rows
  BY RowsType
<1>2. /\ u.changed \cup (WriteSet(t) \cap (ReadSet(u) \cup WriteSet(u))) \in SUBSET Rows
      /\ u.read \cup (ReadSet(t) \cap WriteSet(u)) \in SUBSET Rows
  BY <1>1 DEF Transaction
<1> DEFINE C == u.changed \cup (WriteSet(t) \cap (ReadSet(u) \cup WriteSet(u)))
           R == u.read \cup (ReadSet(t) \cap WriteSet(u))
<1>3. After(u, t) = [u EXCEPT !.changed = C, !.read = R]
  BY DEF After
<1>4. C \in SUBSET Rows /\ R \in SUBSET Rows
  BY <1>2
<1> HIDE DEF C, R
<1> QED
  BY <1>3, <1>4 DEF Transaction

\* Quantities and receipts whose rows a commit does not write stay.
LEMMA CommitLeaves ==
    ASSUME TransactionInv, NEW t \in running, CommitStep(t)
    PROVE  /\ \A v \in Variants : StockOf(v) \notin WriteSet(t) =>
                  onHand'[v] = onHand[v] /\ held'[v] = held[v]
           /\ \A r \in Receipts : RowOf(r) \notin WriteSet(t) =>
                  receipt'[r].status = receipt[r].status
           /\ \A r \in Receipts : LinesOf(r) \notin WriteSet(t) =>
                  receipt'[r].items = receipt[r].items
<1>1. Settled(t) /\ DOMAIN t.items \subseteq Variants
  BY LinesType DEF TransactionInv, UpToDate, Settled
<1>2. receipt \in [Receipts -> [status: Statuses, items: Lines]] /\ held \in [Variants -> Nat]
  BY DEF TransactionInv, StockInv, StockTypeOK
<1>3. \A v \in Variants : t.op \in StockOps /\ StockOf(v) \notin WriteSet(t) => v \notin DOMAIN t.items
  BY <1>1, StockRowsOf, StockRowsAreBoth
<1>4. \A v : v \notin DOMAIN t.items => Of(t.items, v) = 0
  BY DEF Of
<1>5. DOMAIN Negated(t.items) = DOMAIN t.items
  BY DEF Negated
<1>6. t.op \in StockOps => /\ t.op # "CREATE" /\ t.op # "EDIT" /\ t.op # "CANCEL"
  BY DEF StockOps, OrderOps, AdjustOps
<1>7. ASSUME NEW v \in Variants, StockOf(v) \notin WriteSet(t)
      PROVE  onHand'[v] = onHand[v] /\ held'[v] = held[v]
  <2>1. CASE CommitCreate(t) \/ CommitEdit(t) \/ CommitCancel(t)
    BY <2>1 DEF CommitCreate, CommitEdit, CommitCancel
  <2>2. CASE CommitConfirm(t)
    BY <1>3, <1>7, <2>2 DEF CommitConfirm, Move, StockOps
  <2>3. CASE CommitRaise(t) \/ CommitLower(t)
    BY <1>3, <1>5, <1>7, <2>3 DEF CommitRaise, CommitLower, Move, StockOps, AdjustOps
  <2>4. CASE CommitDeduct(t) \/ CommitRestore(t)
    <3>1. v \notin DOMAIN t.items
      BY <1>3, <1>7, <2>4 DEF CommitDeduct, CommitRestore, StockOps, OrderOps
    <3>2. onHand'[v] = onHand[v]
      BY <1>5, <2>4, <3>1 DEF CommitDeduct, CommitRestore, Move
    <3>3. held'[v] = held[v]
      BY <1>2, <1>4, <2>4, <3>1 DEF CommitDeduct, CommitRestore
    <3> QED
      BY <3>2, <3>3
  <2> QED
    BY <2>1, <2>2, <2>3, <2>4 DEF CommitStep
<1>8. ASSUME NEW r \in Receipts
      PROVE  /\ RowOf(r) \notin WriteSet(t) => receipt'[r].status = receipt[r].status
             /\ LinesOf(r) \notin WriteSet(t) => receipt'[r].items = receipt[r].items
  <2>1. /\ RowOf(r) \in WriteSet(t) <=> t.on = r /\ t.op \in {"CREATE", "CANCEL", "CONFIRM"}
        /\ LinesOf(r) \in WriteSet(t) <=> t.on = r /\ t.op \in {"CREATE", "EDIT"}
    BY <1>1, RowsOfReceipt
  <2>2. CASE CommitCreate(t)
    BY <1>2, <2>1, <2>2 DEF CommitCreate, SetReceipt
  <2>3. CASE CommitEdit(t)
    BY <1>2, <2>1, <2>3 DEF CommitEdit, SetReceipt
  <2>4. CASE CommitCancel(t)
    BY <1>2, <2>1, <2>4 DEF CommitCancel, SetReceipt
  <2>5. CASE CommitConfirm(t)
    BY <1>2, <2>1, <2>5 DEF CommitConfirm, SetReceipt
  <2>6. CASE CommitRaise(t) \/ CommitLower(t) \/ CommitDeduct(t) \/ CommitRestore(t)
    BY <2>6 DEF CommitRaise, CommitLower, CommitDeduct, CommitRestore
  <2> QED
    BY <2>2, <2>3, <2>4, <2>5, <2>6 DEF CommitStep
<1> QED
  BY <1>7, <1>8

LEMMA AfterUpToDate ==
    ASSUME TransactionInv, NEW t \in running, CommitStep(t), NEW u \in running, u # t
    PROVE  UpToDate(After(u, t))'
<1> DEFINE a == After(u, t)
<1>1. u \in Transaction /\ UpToDate(u) /\ Settled(u) /\ Settled(t)
  BY DEF TransactionInv, UpToDate
<1>2. /\ a.op = u.op /\ a.on = u.on /\ a.items = u.items /\ a.seen = u.seen
      /\ a.changed = u.changed \cup (WriteSet(t) \cap (ReadSet(u) \cup WriteSet(u)))
      /\ a.read = u.read \cup (ReadSet(t) \cap WriteSet(u))
  BY <1>1, AfterFields
<1> HIDE DEF a
<1>3. Settled(a)'
  BY <1>1, <1>2 DEF Settled, Covered
<1>4. StockUpToDate(a)'
  <2>1. SUFFICES ASSUME u.op \in StockOps, NEW v \in DOMAIN u.items, StockOf(v) \notin a.changed
        PROVE  u.seen[v] = onHand'[v] /\ (u.op = "RESTORE" => held'[v] >= u.items[v])
    BY <1>2 DEF StockUpToDate, StockOf
  <2>2. v \in Variants
    BY <1>1, <2>1, LinesType DEF Settled
  <2>3. StockOf(v) \in WriteSet(u)
    BY <1>1, <2>1, StockRowsOf, StockRowsAreBoth
  <2>4. StockOf(v) \notin u.changed /\ StockOf(v) \notin WriteSet(t)
    BY <1>2, <2>1, <2>3
  <2>5. onHand'[v] = onHand[v] /\ held'[v] = held[v]
    BY <2>2, <2>4, CommitLeaves
  <2> QED
    BY <1>1, <2>1, <2>4, <2>5 DEF UpToDate, StockUpToDate
<1>5. ReceiptUpToDate(a)'
  <2>1. ASSUME u.op = "CREATE" PROVE receipt'[u.on].status = "NONE"
    <3>1. t.on # u.on /\ u.on \in Receipts
      BY <1>1, <2>1 DEF TransactionInv, CreatedAlone, Settled, ReceiptOps
    <3>2. RowOf(u.on) \notin WriteSet(t)
      BY <1>1, <3>1, RowsOfReceipt
    <3> QED
      BY <1>1, <2>1, <3>1, <3>2, CommitLeaves DEF UpToDate, ReceiptUpToDate
  <2>2. u.op \in DraftOps => u.op \in ReceiptOps /\ u.on \in Receipts
    BY <1>1 DEF Settled, ReceiptOps, DraftOps
  <2>3. ASSUME u.op \in DraftOps, RowOf(u.on) \notin a.changed PROVE receipt'[u.on].status = "DRAFT"
    <3>1. RowOf(u.on) \in ReadSet(u)
      BY <1>1, <2>2, <2>3, RowsOfReceipt
    <3>2. RowOf(u.on) \notin WriteSet(t) /\ RowOf(u.on) \notin u.changed
      BY <1>2, <2>3, <3>1
    <3> QED
      BY <1>1, <2>2, <2>3, <3>2, CommitLeaves DEF UpToDate, ReceiptUpToDate
  <2>4. ASSUME u.op = "CONFIRM", LinesOf(u.on) \notin a.changed PROVE receipt'[u.on].items = u.items
    <3>1. LinesOf(u.on) \in ReadSet(u) /\ u.on \in Receipts
      BY <1>1, <2>2, <2>4, RowsOfReceipt DEF DraftOps
    <3>2. LinesOf(u.on) \notin WriteSet(t) /\ LinesOf(u.on) \notin u.changed
      BY <1>2, <2>4, <3>1
    <3> QED
      BY <1>1, <2>4, <3>1, <3>2, CommitLeaves DEF UpToDate, ReceiptUpToDate
  <2> QED
    BY <1>2, <2>1, <2>3, <2>4 DEF ReceiptUpToDate, RowOf, LinesOf
<1>6. Crossed(a)'
  <2>1. ASSUME u.op = "EDIT", RowOf(u.on) \in a.changed PROVE LinesOf(u.on) \in a.read
    <3>1. CASE RowOf(u.on) \in u.changed
      BY <1>1, <1>2, <2>1, <3>1 DEF UpToDate, Crossed
    <3>2. CASE RowOf(u.on) \in WriteSet(t)
      <4>1. t.on = u.on /\ t.op \in ReceiptOps
        BY <1>1, <3>2, RowsOfReceipt DEF ReceiptOps
      <4>2. LinesOf(u.on) \in ReadSet(t) /\ LinesOf(u.on) \in WriteSet(u)
        BY <1>1, <2>1, <4>1, RowsOfReceipt
      <4> QED
        BY <1>2, <4>2
    <3> QED
      BY <1>2, <2>1, <3>1, <3>2
  <2>2. ASSUME u.op = "CONFIRM", LinesOf(u.on) \in a.changed PROVE RowOf(u.on) \in a.read
    <3>1. CASE LinesOf(u.on) \in u.changed
      BY <1>1, <1>2, <2>2, <3>1 DEF UpToDate, Crossed
    <3>2. CASE LinesOf(u.on) \in WriteSet(t)
      <4>1. t.on = u.on /\ t.op \in ReceiptOps
        BY <1>1, <3>2, RowsOfReceipt DEF ReceiptOps
      <4>2. RowOf(u.on) \in ReadSet(t) /\ RowOf(u.on) \in WriteSet(u)
        BY <1>1, <2>2, <4>1, RowsOfReceipt
      <4> QED
        BY <1>2, <4>2
    <3> QED
      BY <1>2, <2>2, <3>1, <3>2
  <2> QED
    BY <1>2, <2>1, <2>2 DEF Crossed, RowOf, LinesOf
<1>7. UpToDate(a)'
  BY <1>3, <1>4, <1>5, <1>6 DEF UpToDate
<1> QED
  BY <1>7 DEF a

LEMMA CommitKeeps ==
    ASSUME TransactionInv, NEW t \in running, CommitStep(t)
    PROVE  TransactionInv'
<1>1. StockInv'
  BY CommitImplements, StockNextKeeps DEF TransactionInv
<1>2. Commit(t)
  BY DEF CommitStep, CommitCreate, CommitEdit, CommitCancel, CommitConfirm, CommitRaise, CommitLower,
         CommitDeduct, CommitRestore
<1>3. running' = {After(u, t) : u \in running \ {t}} /\ sellable' = sellable /\ open' = open
  BY <1>2 DEF Commit
<1>4. \A u \in running : u \in Transaction /\ Settled(u)
  BY DEF TransactionInv, UpToDate
<1>5. running' \in SUBSET Transaction
  BY <1>3, <1>4, AfterType
<1>6. ASSUME NEW x \in running' PROVE UpToDate(x)'
  <2>1. PICK u \in running \ {t} : x = After(u, t)
    BY <1>3
  <2> QED
    BY <2>1, AfterUpToDate
<1>7. CreatedAlone'
  <2>1. SUFFICES ASSUME NEW x \in running', NEW y \in running', x.op = "CREATE", x # y
        PROVE  y.on # x.on
    BY DEF CreatedAlone
  <2>2. PICK u \in running \ {t}, w \in running \ {t} : x = After(u, t) /\ y = After(w, t)
    BY <1>3
  <2>3. x.op = u.op /\ x.on = u.on /\ y.on = w.on
    BY <1>4, <2>2, AfterFields
  <2> QED
    BY <2>1, <2>2, <2>3 DEF TransactionInv, CreatedAlone
<1> QED
  BY <1>1, <1>3, <1>5, <1>6, <1>7 DEF TransactionInv

-----------------------------------------------------------------------------
(* What changes neither a receipt nor a quantity. *)

\* A transaction that is told of a write to a stock it reads.
LEMMA MarkedUpToDate ==
    ASSUME NEW t \in Transaction, UpToDate(t), NEW S, S \subseteq StockRows(t)
    PROVE  LET a == [t EXCEPT !.changed = @ \cup S] IN
           a \in Transaction /\ UpToDate(a) /\ a.op = t.op /\ a.on = t.on
<1> DEFINE C == t.changed \cup S
           a == [t EXCEPT !.changed = C]
<1>1. C \in SUBSET Rows
  BY RowsType, StockRowsAreBoth DEF UpToDate, Transaction
<1>2. t.changed \subseteq C
  OBVIOUS
<1>3. \A r : RowOf(r) \notin StockRows(t) /\ LinesOf(r) \notin StockRows(t)
  BY StockRowsOf, RowsDiffer DEF UpToDate
<1>4. \A r : /\ RowOf(r) \in C <=> RowOf(r) \in t.changed
             /\ LinesOf(r) \in C <=> LinesOf(r) \in t.changed
  BY <1>3
<1> HIDE DEF C
<1>5. /\ a \in Transaction
      /\ a.op = t.op /\ a.on = t.on /\ a.items = t.items /\ a.seen = t.seen
      /\ a.changed = C /\ a.read = t.read
  BY <1>1 DEF Transaction
<1> HIDE DEF a
<1>6. Settled(a)
  BY <1>5 DEF UpToDate, Settled
<1>7. StockUpToDate(a)
  BY <1>2, <1>5 DEF UpToDate, StockUpToDate
<1>8. ReceiptUpToDate(a)
  BY <1>4, <1>5 DEF UpToDate, ReceiptUpToDate
<1>9. Crossed(a)
  BY <1>4, <1>5 DEF UpToDate, Crossed
<1>10. a \in Transaction /\ UpToDate(a) /\ a.op = t.op /\ a.on = t.on
  BY <1>5, <1>6, <1>7, <1>8, <1>9 DEF UpToDate
<1> QED
  BY <1>10 DEF a, C

LEMMA ThresholdKeeps ==
    ASSUME TransactionInv, NEW v \in Variants, UpdateThreshold(v)
    PROVE  TransactionInv'
<1> DEFINE Marked(t) == [t EXCEPT !.changed = @ \cup ({<<"STOCK", v>>} \cap StockRows(t))]
<1>1. running' = {Marked(t) : t \in running} /\ UNCHANGED <<stockVars, sellable, open>>
  BY DEF UpdateThreshold
<1>2. ASSUME NEW t \in running
      PROVE  Marked(t) \in Transaction /\ UpToDate(Marked(t)) /\ Marked(t).op = t.op /\ Marked(t).on = t.on
  BY MarkedUpToDate DEF TransactionInv
<1> HIDE DEF Marked
<1>3. running' \in SUBSET Transaction /\ \A x \in running' : UpToDate(x)
  BY <1>1, <1>2
<1>4. \A x, y \in running' : x.op = "CREATE" /\ x # y => y.on # x.on
  <2>1. SUFFICES ASSUME NEW x \in running', NEW y \in running', x.op = "CREATE", x # y
        PROVE  y.on # x.on
    OBVIOUS
  <2>2. PICK t \in running, u \in running : x = Marked(t) /\ y = Marked(u)
    BY <1>1
  <2>3. x.op = t.op /\ x.on = t.on /\ y.on = u.on
    BY <1>2, <2>2
  <2> QED
    BY <2>1, <2>2, <2>3 DEF TransactionInv, CreatedAlone
<1> QED
  BY <1>1, <1>3, <1>4, RunningWrite

\* The catalog and the branch: what was accepted stays accepted.
LEMMA SaleWrite ==
    ASSUME TransactionInv, UNCHANGED <<stockVars, running>>,
           sellable' \in SUBSET Variants, open' \in BOOLEAN
    PROVE  TransactionInv'
<1>1. UNCHANGED <<receipt, onHand, held, ledger, running>>
  BY DEF stockVars
<1>2. StockInv' /\ CreatedAlone'
  BY <1>1 DEF TransactionInv, StockInv, StockTypeOK, CreatedAlone
<1>3. \A t \in running' : UpToDate(t)'
  BY <1>1 DEF TransactionInv, UpToDate, Settled, StockUpToDate, ReceiptUpToDate, Crossed, Covered
<1> QED
  BY <1>1, <1>2, <1>3 DEF TransactionInv

-----------------------------------------------------------------------------
LEMMA TransactionInitHolds == ASSUME TransactionInit PROVE TransactionInv
BY StockInitHolds DEF TransactionInit, TransactionInv, CreatedAlone

LEMMA TransactionNextKeeps ==
    ASSUME TransactionInv, [TransactionNext]_transactionVars PROVE TransactionInv'
<1>1. CASE UNCHANGED transactionVars
  BY <1>1, SaleWrite DEF transactionVars, stockVars, TransactionInv
<1>2. CASE Request
  BY <1>2, RequestKeeps
<1>3. ASSUME NEW t \in running, Finish(t) PROVE TransactionInv'
  BY <1>3, CommitKeeps, RetryKeeps DEF Finish, CommitStep
<1>4. ASSUME NEW v \in Variants, UpdateThreshold(v) PROVE TransactionInv'
  BY <1>4, ThresholdKeeps
<1>5. ASSUME NEW v \in Variants, ToggleSellable(v) PROVE TransactionInv'
  BY <1>5, SaleWrite DEF ToggleSellable, TransactionInv
<1>6. CASE ToggleBranch
  BY <1>6, SaleWrite DEF ToggleBranch, TransactionInv
<1> QED
  BY <1>1, <1>2, <1>3, <1>4, <1>5, <1>6 DEF TransactionNext

\* A step of the transactions is a step of the stock, or leaves it.
LEMMA TransactionStepImplements ==
    ASSUME TransactionInv, [TransactionNext]_transactionVars PROVE [StockNext]_stockVars
<1>1. CASE UNCHANGED transactionVars
  BY <1>1 DEF transactionVars, stockVars
<1>2. ASSUME NEW op, NEW r, NEW items, NEW expected, Begin(op, r, items, expected)
      PROVE  UNCHANGED stockVars
  BY <1>2 DEF Begin, stockVars
<1>3. CASE Request
  <2>1. ASSUME NEW r \in Receipts, CreateRequest(r) \/ ReceiptRequest(r) PROVE UNCHANGED stockVars
    BY <1>2, <2>1 DEF CreateRequest, ReceiptRequest
  <2>2. CASE OrderRequest
    BY <1>2, <2>2 DEF OrderRequest
  <2>3. ASSUME NEW v \in Variants, AdjustRequest(v) PROVE UNCHANGED stockVars
    BY <1>2, <2>3 DEF AdjustRequest
  <2> QED
    BY <1>3, <2>1, <2>2, <2>3 DEF Request
<1>4. ASSUME NEW t \in running, Finish(t) PROVE [StockNext]_stockVars
  <2>1. CASE CommitStep(t)
    BY <2>1, CommitImplements
  <2>2. CASE Retry(t)
    BY <2>2 DEF Retry
  <2> QED
    BY <1>4, <2>1, <2>2 DEF Finish, CommitStep
<1>5. ASSUME NEW v \in Variants, UpdateThreshold(v) \/ ToggleSellable(v) PROVE UNCHANGED stockVars
  BY <1>5 DEF UpdateThreshold, ToggleSellable
<1>6. CASE ToggleBranch
  BY <1>6 DEF ToggleBranch
<1> QED
  BY <1>1, <1>3, <1>4, <1>5, <1>6 DEF TransactionNext

\* The inductive invariant.
THEOREM TransactionInvariance == TransactionSpec => []TransactionInv
BY TransactionInitHolds, TransactionNextKeeps, PTL DEF TransactionSpec

\* The types, of the stock and of every transaction that runs.
THEOREM TransactionsTypeCorrect == TransactionSpec => []TransactionTypeOK
<1>1. TransactionInv => TransactionTypeOK
  BY DEF TransactionInv, StockInv, TransactionTypeOK
<1> QED
  BY <1>1, TransactionInvariance, PTL

\* Transactions that run at once change the stock as if each had been one step:
\* serializable isolation with the reads that the code makes is enough.
THEOREM TransactionsActAtomically == TransactionSpec => ActsAtomically
<1>1. TransactionInit => StockInit
  BY DEF TransactionInit
<1> QED
  BY <1>1, TransactionInvariance, TransactionStepImplements, PTL
     DEF TransactionSpec, ActsAtomically, StockSpec

\* So the movements tell what is on hand here too.
THEOREM TransactionsKeepLedger == TransactionSpec => []LedgerChains
<1>1. TransactionInv => LedgerChains
  BY StockInvImplies DEF TransactionInv
<1> QED
  BY <1>1, TransactionInvariance, PTL

\* And a receipt is received once, whatever ran while it was confirmed.
THEOREM TransactionsReceiveOnce == TransactionSpec => []ReceivedOnce
<1>1. TransactionInv => ReceivedOnce
  BY StockInvImplies DEF TransactionInv
<1> QED
  BY <1>1, TransactionInvariance, PTL
=============================================================================
