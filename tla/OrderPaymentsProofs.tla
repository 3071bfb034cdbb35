------------------------ MODULE OrderPaymentsProofs ------------------------
(***************************************************************************)
(* What holds of OrderPayments for every set of orders, variants and       *)
(* requests, every demand and every bound.                                 *)
(***************************************************************************)
EXTENDS MCOrderPayments, SumTheorems, TLAPS

-----------------------------------------------------------------------------
(* Rows and tables *)

\* Writing one row of a table keeps the table's type.
LEMMA SetRow ==
    ASSUME NEW S, NEW T, NEW f \in [S -> T], NEW x \in S, NEW y \in T
    PROVE  [f EXCEPT ![x] = y] \in [S -> T]
  OBVIOUS

LEMMA SetAttempt ==
    ASSUME NEW S, NEW N, NEW T, NEW f \in [S -> [N -> T]],
           NEW x \in S, NEW n \in N, NEW y \in T
    PROVE  [f EXCEPT ![x][n] = y] \in [S -> [N -> T]]
  OBVIOUS

\* The edits the handlers make to an order row and to an attempt row.
LEMMA OrderEdit ==
    ASSUME NEW r \in OrderRow, NEW s \in OrderStatus, NEW b \in BOOLEAN
    PROVE  /\ [r EXCEPT !.status = s] \in OrderRow
           /\ [r EXCEPT !.status = s, !.restored = b] \in OrderRow
           /\ [r EXCEPT !.status = s, !.deducted = b] \in OrderRow
           /\ [r EXCEPT !.received = b] \in OrderRow
  BY DEF OrderRow

LEMMA AttemptEdit ==
    ASSUME NEW r \in AttemptRow, NEW s \in AttemptStatus, NEW b \in BOOLEAN
    PROVE  /\ [r EXCEPT !.status = s, !.released = b] \in AttemptRow
           /\ [r EXCEPT !.status = s, !.consumed = b] \in AttemptRow
           /\ [r EXCEPT !.released = b] \in AttemptRow
  BY DEF AttemptRow

LEMMA FreshRows ==
    /\ NoOrder \in OrderRow
    /\ NoAttempt \in AttemptRow
    /\ \A k \in Keys \cup Orders : NewAttempt(k) \in AttemptRow
  BY DEF NoOrder, NoAttempt, NewAttempt, OrderRow, AttemptRow, OrderStatus,
         AttemptStatus

-----------------------------------------------------------------------------
(* Stock *)

\* Taking an order's lines keeps shelves and ledger in range.
LEMMA DeductType ==
    ASSUME TypeOK, NEW o \in Orders, NEW n \in 0 .. MaxTries, DeductStock(o, n)
    PROVE  /\ stock' \in [Variants -> Nat]
           /\ moves' \in [Sources -> [taken : Nat, returned : Nat]]
  <1>1. \A v \in Variants : Demand[o][v] \in Nat /\ stock[v] \in Nat
    BY DemandAssumption DEF TypeOK
  <1>2. \A v \in Variants : stock[v] - Demand[o][v] \in Nat
    BY <1>1 DEF DeductStock
  <1>3. stock' \in [Variants -> Nat]
    BY <1>2 DEF DeductStock
  <1>4. moves[<<o, n>>] \in [taken : Nat, returned : Nat]
    BY DEF TypeOK, Sources
  <1>5. [moves[<<o, n>>] EXCEPT !.taken = @ + 1] \in [taken : Nat, returned : Nat]
    BY <1>4
  <1>6. moves' = [moves EXCEPT ![<<o, n>>] = [moves[<<o, n>>] EXCEPT !.taken = @ + 1]]
    BY DEF DeductStock
  <1>7. QED
    BY <1>3, <1>5, <1>6 DEF TypeOK, Sources

\* So does giving them back.
LEMMA RestoreType ==
    ASSUME TypeOK, NEW o \in Orders, NEW n \in 0 .. MaxTries, RestoreStock(o, n)
    PROVE  /\ stock' \in [Variants -> Nat]
           /\ moves' \in [Sources -> [taken : Nat, returned : Nat]]
  <1>1. \A v \in Variants : stock[v] + Demand[o][v] \in Nat
    BY DemandAssumption DEF TypeOK
  <1>2. stock' \in [Variants -> Nat]
    BY <1>1 DEF RestoreStock
  <1>3. moves[<<o, n>>] \in [taken : Nat, returned : Nat]
    BY DEF TypeOK, Sources
  <1>4. [moves[<<o, n>>] EXCEPT !.returned = @ + 1] \in [taken : Nat, returned : Nat]
    BY <1>3
  <1>5. moves' = [moves EXCEPT ![<<o, n>>] = [moves[<<o, n>>] EXCEPT !.returned = @ + 1]]
    BY DEF RestoreStock
  <1>6. QED
    BY <1>2, <1>4, <1>5 DEF TypeOK, Sources

\* An attempt number is a source's second half.
LEMMA TriesInRange == \A n \in Tries : n \in 0 .. MaxTries
  BY TriesAssumption DEF Tries

-----------------------------------------------------------------------------
(* Type correctness, one lemma per handler that writes more than one table  *)

LEMMA PlaceType ==
    ASSUME TypeOK, NEW o \in Orders, PlaceCod(o) \/ PlaceVnpay(o)
    PROVE  TypeOK'
  <1>1. CASE PlaceCod(o)
    <2>1. /\ stock' \in [Variants -> Nat]
          /\ moves' \in [Sources -> [taken : Nat, returned : Nat]]
      BY <1>1, DeductType, TriesAssumption DEF PlaceCod
    <2>2. [NoOrder EXCEPT !.method = "COD", !.status = "PENDING", !.deducted = TRUE]
            \in OrderRow
      BY DEF NoOrder, OrderRow, OrderStatus, Fulfilment
    <2>3. order' \in [Orders -> OrderRow]
      <3>1. order \in [Orders -> OrderRow]
        BY DEF TypeOK
      <3>2. QED
        BY <1>1, <2>2, <3>1, SetRow DEF PlaceCod
    <2>4. payment' \in [Orders -> PaymentStatus]
      BY <1>1 DEF PlaceCod, TypeOK, PaymentStatus
    <2>5. QED
      BY <1>1, <2>1, <2>3, <2>4 DEF PlaceCod, TypeOK
  <1>2. CASE PlaceVnpay(o)
    <2>1. 1 \in Tries /\ 1 \in 0 .. MaxTries
      BY TriesAssumption DEF Tries
    <2>2. /\ stock' \in [Variants -> Nat]
          /\ moves' \in [Sources -> [taken : Nat, returned : Nat]]
      BY <1>2, <2>1, DeductType DEF PlaceVnpay
    <2>3. [NoOrder EXCEPT !.method = "VNPAY", !.status = "PENDING_PAYMENT"] \in OrderRow
      BY DEF NoOrder, OrderRow, OrderStatus
    <2>4. order' \in [Orders -> OrderRow]
      <3>1. order \in [Orders -> OrderRow]
        BY DEF TypeOK
      <3>2. QED
        BY <1>2, <2>3, <3>1, SetRow DEF PlaceVnpay
    <2>5. attempt' \in [Orders -> [Tries -> AttemptRow]]
      <3>1. attempt \in [Orders -> [Tries -> AttemptRow]]
        BY DEF TypeOK
      <3>2. NewAttempt(o) \in AttemptRow
        BY FreshRows
      <3>3. QED
        BY <1>2, <2>1, <3>1, <3>2, SetAttempt DEF PlaceVnpay
    <2>6. payment' \in [Orders -> PaymentStatus]
      BY <1>2 DEF PlaceVnpay, TypeOK, PaymentStatus
    <2>7. QED
      BY <1>2, <2>2, <2>4, <2>5, <2>6 DEF PlaceVnpay, TypeOK
  <1>3. QED
    BY <1>1, <1>2

LEMMA ApplyType ==
    ASSUME TypeOK, NEW o \in Orders, NEW n \in Tries,
           ApplySuccessfulVnpayTransaction(o, n),
           answered' \subseteq Orders \X Tries
    PROVE  TypeOK'
  <1>1. order' \in [Orders -> OrderRow]
    <2>1. order \in [Orders -> OrderRow]
      BY DEF TypeOK
    <2>2. [order[o] EXCEPT !.status = "PENDING", !.deducted = TRUE] \in OrderRow
      BY <2>1, OrderEdit DEF OrderStatus, Fulfilment
    <2>3. order' = [order EXCEPT
                      ![o] = [order[o] EXCEPT !.status = "PENDING", !.deducted = TRUE]]
      BY <2>1 DEF ApplySuccessfulVnpayTransaction
    <2>4. QED
      BY <2>1, <2>2, <2>3, SetRow
  <1>2. attempt' \in [Orders -> [Tries -> AttemptRow]]
    <2>1. attempt \in [Orders -> [Tries -> AttemptRow]]
      BY DEF TypeOK
    <2>2. [attempt[o][n] EXCEPT !.status = "PAID", !.consumed = TRUE] \in AttemptRow
      <3>1. attempt[o][n] \in AttemptRow /\ "PAID" \in AttemptStatus
        BY <2>1 DEF AttemptStatus
      <3>2. QED
        BY <3>1, AttemptEdit
    <2>3. attempt' = [attempt EXCEPT
                        ![o][n] = [attempt[o][n] EXCEPT !.status = "PAID",
                                                        !.consumed = TRUE]]
      BY <2>1 DEF ApplySuccessfulVnpayTransaction
    <2>4. QED
      BY <2>1, <2>2, <2>3, SetAttempt
  <1>3. payment' \in [Orders -> PaymentStatus]
    BY DEF ApplySuccessfulVnpayTransaction, TypeOK, PaymentStatus
  <1>4. QED
    BY <1>1, <1>2, <1>3 DEF ApplySuccessfulVnpayTransaction, TypeOK

LEMMA FailType ==
    ASSUME TypeOK, NEW o \in Orders, NEW n \in Tries,
           NEW a \in AttemptStatus, NEW p \in PaymentStatus,
           FailPayment(o, n, a, p)
    PROVE  TypeOK'
  <1>1. /\ stock' \in [Variants -> Nat]
        /\ moves' \in [Sources -> [taken : Nat, returned : Nat]]
    <2>1. CASE RestoreStock(o, n)
      BY <2>1, RestoreType, TriesInRange
    <2>2. CASE UNCHANGED <<stock, moves>>
      BY <2>2 DEF TypeOK
    <2>3. QED
      BY <2>1, <2>2 DEF FailPayment, ReleaseReservedStock
  <1>2. attempt' \in [Orders -> [Tries -> AttemptRow]]
    <2> DEFINE b == attempt[o][n].released \/ ActiveHold(o, n)
    <2>1. attempt \in [Orders -> [Tries -> AttemptRow]]
      BY DEF TypeOK
    <2>2. b \in BOOLEAN
      OBVIOUS
    <2>3. attempt' = [attempt EXCEPT
                        ![o][n] = [attempt[o][n] EXCEPT !.status = a, !.released = b]]
      BY <2>1 DEF FailPayment
    <2> HIDE DEF b
    <2>4. [attempt[o][n] EXCEPT !.status = a, !.released = b] \in AttemptRow
      BY <2>1, <2>2, AttemptEdit
    <2>5. QED
      BY <2>1, <2>3, <2>4, SetAttempt
  <1>3. order' \in [Orders -> OrderRow]
    <2>1. order \in [Orders -> OrderRow]
      BY DEF TypeOK
    <2>2. [order[o] EXCEPT !.status = "PAYMENT_FAILED", !.restored = TRUE] \in OrderRow
      BY <2>1, OrderEdit DEF OrderStatus
    <2>3. order' = [order EXCEPT
                      ![o] = [order[o] EXCEPT !.status = "PAYMENT_FAILED",
                                              !.restored = TRUE]]
      BY <2>1 DEF FailPayment
    <2>4. QED
      BY <2>1, <2>2, <2>3, SetRow
  <1>4. payment' \in [Orders -> PaymentStatus]
    BY DEF FailPayment, TypeOK
  <1>5. QED
    BY <1>1, <1>2, <1>3, <1>4 DEF FailPayment, TypeOK

LEMMA CancelType ==
    ASSUME TypeOK, NEW o \in Orders, NEW A, CancelOrderInTransaction(o, A)
    PROVE  TypeOK'
  <1>1. /\ attempt' \in [Orders -> [Tries -> AttemptRow]]
        /\ stock' \in [Variants -> Nat]
        /\ moves' \in [Sources -> [taken : Nat, returned : Nat]]
    <2>1. ASSUME NEW n \in Tries, RestoreStock(o, n),
                 attempt' = [attempt EXCEPT ![o][n].released = TRUE]
          PROVE  /\ attempt' \in [Orders -> [Tries -> AttemptRow]]
                 /\ stock' \in [Variants -> Nat]
                 /\ moves' \in [Sources -> [taken : Nat, returned : Nat]]
      <3>1. attempt \in [Orders -> [Tries -> AttemptRow]]
        BY DEF TypeOK
      <3>2. [attempt[o][n] EXCEPT !.released = TRUE] \in AttemptRow
        <4>1. attempt[o][n] \in AttemptRow
          BY <3>1
        <4>2. QED
          BY <4>1 DEF AttemptRow
      <3>3. attempt' = [attempt EXCEPT
                          ![o][n] = [attempt[o][n] EXCEPT !.released = TRUE]]
        BY <2>1, <3>1
      <3>4. attempt' \in [Orders -> [Tries -> AttemptRow]]
        BY <3>1, <3>2, <3>3, SetAttempt
      <3>5. QED
        BY <2>1, <3>4, RestoreType, TriesInRange
    <2>2. ASSUME RestoreStock(o, 0), UNCHANGED attempt
          PROVE  /\ attempt' \in [Orders -> [Tries -> AttemptRow]]
                 /\ stock' \in [Variants -> Nat]
                 /\ moves' \in [Sources -> [taken : Nat, returned : Nat]]
      <3>1. 0 \in 0 .. MaxTries
        BY TriesAssumption
      <3>2. attempt' \in [Orders -> [Tries -> AttemptRow]]
        BY <2>2 DEF TypeOK
      <3>3. QED
        BY <2>2, <3>1, <3>2, RestoreType
    <2>3. ASSUME UNCHANGED <<stock, moves, attempt>>
          PROVE  /\ attempt' \in [Orders -> [Tries -> AttemptRow]]
                 /\ stock' \in [Variants -> Nat]
                 /\ moves' \in [Sources -> [taken : Nat, returned : Nat]]
      BY <2>3 DEF TypeOK
    <2>4. QED
      BY <2>1, <2>2, <2>3 DEF CancelOrderInTransaction
  <1>2. order' \in [Orders -> OrderRow]
    <2> DEFINE b == order[o].restored \/ ~NoActiveHold(o) \/ CodStockOut(o)
    <2>1. order \in [Orders -> OrderRow]
      BY DEF TypeOK
    <2>2. b \in BOOLEAN
      OBVIOUS
    <2>3. order' = [order EXCEPT
                      ![o] = [order[o] EXCEPT !.status = "CANCELLED", !.restored = b]]
      BY <2>1 DEF CancelOrderInTransaction
    <2> HIDE DEF b
    <2>4. [order[o] EXCEPT !.status = "CANCELLED", !.restored = b] \in OrderRow
      BY <2>1, <2>2, OrderEdit DEF OrderStatus
    <2>5. QED
      BY <2>1, <2>3, <2>4, SetRow
  <1>3. payment' \in [Orders -> PaymentStatus]
    BY DEF CancelOrderInTransaction, TypeOK, PaymentStatus
  <1>4. QED
    BY <1>1, <1>2, <1>3 DEF CancelOrderInTransaction, TypeOK

LEMMA RetryCreateType ==
    ASSUME TypeOK, NEW c \in Calls, RetryCreate(c)
    PROVE  TypeOK'
  <1> DEFINE o == call[c].order
  <1>1. /\ call[c] \in [order : Orders, key : Keys \cup Orders]
        /\ o \in Orders
        /\ call[c].key \in Keys \cup Orders
    <2>1. call[c] \in [order : Orders, key : Keys \cup Orders]
      BY DEF RetryCreate, TypeOK
    <2>2. QED
      BY <2>1
  <1>2. PICK n \in Tries :
          /\ DeductStock(o, n)
          /\ attempt' = [attempt EXCEPT ![o][n] = NewAttempt(call[c].key)]
    BY DEF RetryCreate
  <1>3. /\ payment' = [payment EXCEPT ![o] = "PENDING"]
        /\ order' = [order EXCEPT ![o].status = "PENDING_PAYMENT", ![o].restored = FALSE]
        /\ call' = [call EXCEPT ![c] = NoCall]
        /\ UNCHANGED <<cart, supply, outcome, answered>>
    BY DEF RetryCreate
  <1> HIDE DEF o
  <1>4. /\ stock' \in [Variants -> Nat]
        /\ moves' \in [Sources -> [taken : Nat, returned : Nat]]
    BY <1>1, <1>2, DeductType, TriesInRange
  <1>5. attempt' \in [Orders -> [Tries -> AttemptRow]]
    <2>1. attempt \in [Orders -> [Tries -> AttemptRow]]
      BY DEF TypeOK
    <2>2. NewAttempt(call[c].key) \in AttemptRow
      BY <1>1, FreshRows
    <2>3. QED
      BY <1>1, <1>2, <2>1, <2>2, SetAttempt
  <1>6. order' \in [Orders -> OrderRow]
    <2>1. order \in [Orders -> OrderRow]
      BY DEF TypeOK
    <2>2. [order[o] EXCEPT !.status = "PENDING_PAYMENT", !.restored = FALSE] \in OrderRow
      BY <1>1, <2>1, OrderEdit DEF OrderStatus
    <2>3. order' = [order EXCEPT
                      ![o] = [order[o] EXCEPT !.status = "PENDING_PAYMENT",
                                              !.restored = FALSE]]
      BY <1>3, <2>1
    <2>4. QED
      BY <1>1, <2>1, <2>2, <2>3, SetRow
  <1>7. payment' \in [Orders -> PaymentStatus]
    BY <1>1, <1>3 DEF TypeOK, PaymentStatus
  <1>8. call' \in [Calls -> {NoCall} \cup [order : Orders, key : Keys \cup Orders]]
    BY <1>3 DEF TypeOK
  <1>9. QED
    BY <1>3, <1>4, <1>5, <1>6, <1>7, <1>8 DEF TypeOK

LEMMA FulfilmentType ==
    ASSUME TypeOK, NEW o \in Orders, AdminTransition(o) \/ ConfirmReceived(o)
    PROVE  TypeOK'
  <1>1. order \in [Orders -> OrderRow]
    BY DEF TypeOK
  <1>2. CASE AdminTransition(o)
    <2> DEFINE target == NEXT_STATUS[order[o].status]
    <2>1. target \in OrderStatus
      BY <1>2 DEF AdminTransition, NEXT_STATUS, OrderStatus, Fulfilment
    <2>2. order' = [order EXCEPT ![o] = [order[o] EXCEPT !.status = target]]
      BY <1>1, <1>2 DEF AdminTransition
    <2>3. payment' \in [Orders -> PaymentStatus]
      BY <1>2 DEF AdminTransition, TypeOK, PaymentStatus
    <2> HIDE DEF target
    <2>4. [order[o] EXCEPT !.status = target] \in OrderRow
      BY <1>1, <2>1, OrderEdit
    <2>5. order' \in [Orders -> OrderRow]
      BY <1>1, <2>2, <2>4, SetRow
    <2>6. QED
      BY <1>2, <2>3, <2>5 DEF AdminTransition, TypeOK
  <1>3. CASE ConfirmReceived(o)
    <2>1. [order[o] EXCEPT !.received = TRUE] \in OrderRow
      <3>1. order[o] \in OrderRow /\ "NONE" \in OrderStatus
        BY <1>1 DEF OrderStatus
      <3>2. QED
        BY <3>1, OrderEdit
    <2>2. order' = [order EXCEPT ![o] = [order[o] EXCEPT !.received = TRUE]]
      BY <1>1, <1>3 DEF ConfirmReceived
    <2>3. order' \in [Orders -> OrderRow]
      BY <1>1, <2>1, <2>2, SetRow
    <2>4. QED
      BY <1>3, <2>3 DEF ConfirmReceived, TypeOK
  <1>4. QED
    BY <1>2, <1>3

-----------------------------------------------------------------------------
(* Every step keeps the types *)

LEMMA InitType == Init => TypeOK
  <1> SUFFICES ASSUME Init PROVE TypeOK
    OBVIOUS
  <1>1. order \in [Orders -> OrderRow] /\ attempt \in [Orders -> [Tries -> AttemptRow]]
    BY FreshRows DEF Init
  <1>2. stock \in [Variants -> Nat] /\ supply \in [Variants -> Int]
    BY StockAssumption DEF Init
  <1>3. moves \in [Sources -> [taken : Nat, returned : Nat]]
    BY DEF Init
  <1>4. QED
    BY <1>1, <1>2, <1>3 DEF Init, TypeOK, PaymentStatus, Outcomes

LEMMA OrderStepType ==
    ASSUME TypeOK, NEW o \in Orders, OrderStep(o)
    PROVE  TypeOK'
  <1>1. CASE PlaceCod(o) \/ PlaceVnpay(o)
    BY <1>1, PlaceType
  <1>2. CASE CustomerCancel(o) \/ AdminCancel(o)
    BY <1>2, CancelType DEF CustomerCancel, AdminCancel
  <1>3. CASE AdminTransition(o) \/ ConfirmReceived(o)
    BY <1>3, FulfilmentType
  <1>4. QED
    BY <1>1, <1>2, <1>3 DEF OrderStep

LEMMA AttemptStepType ==
    ASSUME TypeOK, NEW o \in Orders, NEW n \in Tries, AttemptStep(o, n)
    PROVE  TypeOK'
  <1>1. ASSUME NEW d \in Outcomes, ProviderDecides(o, n, d)
        PROVE  TypeOK'
    <2>1. outcome \in [Orders -> [Tries -> Outcomes]]
      BY DEF TypeOK
    <2>2. outcome' \in [Orders -> [Tries -> Outcomes]]
      BY <1>1, <2>1, SetAttempt DEF ProviderDecides
    <2>3. QED
      BY <1>1, <2>2 DEF ProviderDecides, TypeOK
  <1>2. CASE IpnSuccess(o, n)
    <2>1. answered' \subseteq Orders \X Tries
      BY <1>2 DEF IpnSuccess, TypeOK
    <2>2. QED
      BY <1>2, <2>1, ApplyType DEF IpnSuccess
  <1>3. CASE IpnSuccessNotApplied(o, n)
    BY <1>3 DEF IpnSuccessNotApplied, TypeOK
  <1>4. CASE ReturnSuccess(o, n)
    <2>1. answered' \subseteq Orders \X Tries
      BY <1>4 DEF ReturnSuccess, TypeOK
    <2>2. QED
      BY <1>4, <2>1, ApplyType DEF ReturnSuccess
  <1>5. CASE IpnFailure(o, n) \/ ExpirePayment(o, n)
    <2>1. /\ {"FAILED", "CANCELLED", "EXPIRED"} \subseteq AttemptStatus
          /\ {"FAILED", "CANCELLED", "EXPIRED"} \subseteq PaymentStatus
      BY DEF AttemptStatus, PaymentStatus
    <2>2. QED
      BY <1>5, <2>1, FailType DEF IpnFailure, ExpirePayment
  <1>6. QED
    BY <1>1, <1>2, <1>3, <1>4, <1>5 DEF AttemptStep

LEMMA RetryStepType ==
    ASSUME TypeOK, NEW c \in Calls, RetryStep(c)
    PROVE  TypeOK'
  <1>1. ASSUME NEW o \in Orders, NEW k \in Keys \cup {o}, RetryRead(c, o, k)
        PROVE  TypeOK'
    BY <1>1 DEF RetryRead, TypeOK
  <1>2. CASE RetryCreate(c)
    BY <1>2, RetryCreateType
  <1>3. CASE RetryEnd(c)
    BY <1>3 DEF RetryEnd, TypeOK
  <1>4. QED
    BY <1>1, <1>2, <1>3 DEF RetryStep

LEMMA AdjustType ==
    ASSUME TypeOK, NEW v \in Variants, NEW q \in 0 .. MaxStock, AdjustQuantity(v, q)
    PROVE  TypeOK'
  BY StockAssumption DEF AdjustQuantity, TypeOK

LEMMA NextType == TypeOK /\ [Next]_vars => TypeOK'
  <1> SUFFICES ASSUME TypeOK, [Next]_vars PROVE TypeOK'
    OBVIOUS
  <1>1. CASE UNCHANGED vars
    BY <1>1 DEF vars, TypeOK
  <1>2. CASE Next
    BY <1>2, OrderStepType, AttemptStepType, RetryStepType, AdjustType DEF Next
  <1>3. QED
    BY <1>1, <1>2

\* In every behaviour all tables hold rows the schema allows; in particular no
\* shelf ever goes below zero (deductStock's guarded decrement).
THEOREM TypeCorrect == Spec => []TypeOK
  BY InitType, NextType, PTL DEF Spec

-----------------------------------------------------------------------------
(* The inductive invariant.  Ledger, pending attempt, hold and paid attempt  *)
(* are tied to each other, so none of them is inductive alone; what they     *)
(* need besides is that rows nobody wrote are blank and that goods of a COD  *)
(* order that were given back are not given back again: their order carries  *)
(* the restored timestamp, or waits for a payment and so has another hold to *)
(* release.                                                                  *)

BlankOf(o) ==
    /\ order[o].status = "NONE" =>
         /\ order[o].method = "NONE"
         /\ \A n \in Tries : attempt[o][n].status = "NONE"
    /\ \A n \in Tries : attempt[o][n].status = "NONE" =>
         ~attempt[o][n].released /\ ~attempt[o][n].consumed

CodReturnOf(o) ==
    order[o].method = "COD" /\ moves[<<o, 0>>].returned = 1 =>
        order[o].restored \/ order[o].status = "PENDING_PAYMENT"

OrderInv(o) ==
    /\ BlankOf(o) /\ CodReturnOf(o)
    /\ LedgerOf(o) /\ PendingOf(o) /\ HoldOf(o) /\ PaidOf(o)

CallInv == \A c \in Calls : call[c] # NoCall => order[call[c].order].status # "NONE"

IInv == TypeOK /\ CallInv /\ \A o \in Orders : OrderInv(o)

-----------------------------------------------------------------------------
(* What each handler does to the rows of its order, and to no other order   *)

Untouched(p) ==
    /\ order'[p] = order[p]
    /\ payment'[p] = payment[p]
    /\ attempt'[p] = attempt[p]
    /\ outcome'[p] = outcome[p]
    /\ \A m \in 0 .. MaxTries : moves'[<<p, m>>] = moves[<<p, m>>]

LEMMA Frame ==
    ASSUME NEW p \in Orders, OrderInv(p), Untouched(p)
    PROVE  OrderInv(p)'
  <1>1. moves'[<<p, 0>>] = moves[<<p, 0>>]
    BY TriesAssumption DEF Untouched
  <1>2. \A n \in Tries : moves'[<<p, n>>] = moves[<<p, n>>]
    BY TriesInRange DEF Untouched
  <1>3. BlankOf(p)'
    BY DEF OrderInv, BlankOf, Untouched
  <1>4. CodReturnOf(p)'
    BY <1>1 DEF OrderInv, CodReturnOf, Untouched
  <1>5. LedgerOf(p)'
    BY <1>1, <1>2 DEF OrderInv, LedgerOf, Untouched
  <1>6. PendingOf(p)'
    BY DEF OrderInv, PendingOf, Untouched, ActiveHold
  <1>7. HoldOf(p)'
    BY DEF OrderInv, HoldOf, Untouched, ActiveHold, NoActiveHold
  <1>8. PaidOf(p)'
    BY DEF OrderInv, PaidOf, Untouched
  <1>9. QED
    BY <1>3, <1>4, <1>5, <1>6, <1>7, <1>8 DEF OrderInv

LEMMA DeductMoves ==
    ASSUME TypeOK, NEW o \in Orders, NEW n \in 0 .. MaxTries, DeductStock(o, n)
    PROVE  /\ moves'[<<o, n>>].taken = moves[<<o, n>>].taken + 1
           /\ moves'[<<o, n>>].returned = moves[<<o, n>>].returned
           /\ \A p \in Orders, m \in 0 .. MaxTries :
                p # o \/ m # n => moves'[<<p, m>>] = moves[<<p, m>>]
  <1>1. moves \in [Sources -> [taken : Nat, returned : Nat]]
    BY DEF TypeOK
  <1>2. QED
    BY <1>1 DEF DeductStock, Sources

LEMMA RestoreMoves ==
    ASSUME TypeOK, NEW o \in Orders, NEW n \in 0 .. MaxTries, RestoreStock(o, n)
    PROVE  /\ moves'[<<o, n>>].taken = moves[<<o, n>>].taken
           /\ moves'[<<o, n>>].returned = moves[<<o, n>>].returned + 1
           /\ \A p \in Orders, m \in 0 .. MaxTries :
                p # o \/ m # n => moves'[<<p, m>>] = moves[<<p, m>>]
  <1>1. moves \in [Sources -> [taken : Nat, returned : Nat]]
    BY DEF TypeOK
  <1>2. QED
    BY <1>1 DEF RestoreStock, Sources

LEMMA PlaceCodInv ==
    ASSUME IInv, NEW o \in Orders, PlaceCod(o)
    PROVE  \A p \in Orders : OrderInv(p)'
  <1> USE DEF IInv
  <1>1. /\ order'[o].method = "COD" /\ order'[o].status = "PENDING"
        /\ payment'[o] = "UNPAID" /\ attempt' = attempt /\ outcome' = outcome
        /\ \A p \in Orders \ {o} : order'[p] = order[p] /\ payment'[p] = payment[p]
    BY DEF PlaceCod, TypeOK, NoOrder
  <1>2. /\ moves'[<<o, 0>>].taken = moves[<<o, 0>>].taken + 1
        /\ moves'[<<o, 0>>].returned = moves[<<o, 0>>].returned
        /\ \A p \in Orders, m \in 0 .. MaxTries :
             p # o \/ m # 0 => moves'[<<p, m>>] = moves[<<p, m>>]
    <2>1. TypeOK /\ 0 \in 0 .. MaxTries /\ DeductStock(o, 0)
      BY TriesAssumption DEF PlaceCod
    <2>2. QED
      BY <2>1, DeductMoves
  <1>3. \A p \in Orders \ {o} : OrderInv(p)'
    BY <1>1, <1>2, Frame DEF Untouched
  <1>4. /\ order[o].method = "NONE"
        /\ \A n \in Tries : attempt[o][n].status = "NONE"
    BY DEF PlaceCod, OrderInv, BlankOf
  <1>5. BlankOf(o)'
    BY <1>1, <1>4 DEF BlankOf, OrderInv
  <1>6. moves[<<o, 0>>].taken = 0 /\ moves[<<o, 0>>].returned = 0
    <2>1. moves[<<o, 0>>].returned \in Nat
      BY TriesAssumption DEF TypeOK, Sources
    <2>2. QED
      BY <1>4, <2>1 DEF OrderInv, LedgerOf
  <1>7. CodReturnOf(o)'
    BY <1>2, <1>6 DEF CodReturnOf
  <1>8. LedgerOf(o)'
    <2>1. \A n \in Tries : moves'[<<o, n>>] = moves[<<o, n>>]
      BY <1>2, TriesInRange DEF Tries
    <2>2. QED
      BY <1>1, <1>2, <1>6, <2>1 DEF OrderInv, LedgerOf
  <1>9. PendingOf(o)' /\ HoldOf(o)' /\ PaidOf(o)'
    BY <1>1, <1>4 DEF PendingOf, HoldOf, PaidOf, ActiveHold, NoActiveHold
  <1>10. QED
    BY <1>3, <1>5, <1>7, <1>8, <1>9 DEF OrderInv

LEMMA PlaceVnpayInv ==
    ASSUME IInv, NEW o \in Orders, PlaceVnpay(o)
    PROVE  \A p \in Orders : OrderInv(p)'
  <1> USE DEF IInv
  <1>1. TypeOK /\ 1 \in Tries /\ 1 \in 0 .. MaxTries /\ 0 \in 0 .. MaxTries
    BY TriesAssumption DEF Tries
  <1>2. /\ order'[o].method = "VNPAY" /\ order'[o].status = "PENDING_PAYMENT"
        /\ payment'[o] = "PENDING" /\ outcome' = outcome
        /\ \A p \in Orders \ {o} : /\ order'[p] = order[p]
                                   /\ payment'[p] = payment[p]
                                   /\ attempt'[p] = attempt[p]
    BY DEF PlaceVnpay, TypeOK, NoOrder
  <1>3. /\ attempt'[o][1].status = "PENDING"
        /\ ~attempt'[o][1].released /\ ~attempt'[o][1].consumed
        /\ \A m \in Tries \ {1} : attempt'[o][m] = attempt[o][m]
    BY <1>1 DEF PlaceVnpay, TypeOK, NewAttempt, NoAttempt
  <1>4. /\ moves'[<<o, 1>>].taken = moves[<<o, 1>>].taken + 1
        /\ moves'[<<o, 1>>].returned = moves[<<o, 1>>].returned
        /\ \A p \in Orders, m \in 0 .. MaxTries :
             p # o \/ m # 1 => moves'[<<p, m>>] = moves[<<p, m>>]
    BY <1>1, DeductMoves DEF PlaceVnpay
  <1>5. \A p \in Orders \ {o} : OrderInv(p)'
    BY <1>2, <1>4, Frame DEF Untouched
  <1>6. /\ order[o].method = "NONE"
        /\ \A n \in Tries : /\ attempt[o][n].status = "NONE"
                            /\ ~attempt[o][n].released /\ ~attempt[o][n].consumed
    BY DEF PlaceVnpay, OrderInv, BlankOf
  <1>7. BlankOf(o)'
    BY <1>2, <1>3, <1>6 DEF BlankOf
  <1>8. CodReturnOf(o)'
    BY <1>2 DEF CodReturnOf
  <1>9. LedgerOf(o)'
    <2>1. \A n \in Tries \ {1} : moves'[<<o, n>>] = moves[<<o, n>>]
      BY <1>4, TriesInRange
    <2>2. moves'[<<o, 0>>] = moves[<<o, 0>>]
      BY <1>1, <1>4
    <2>3. LedgerOf(o)
      BY DEF OrderInv
    <2>4. QED
      BY <1>1, <1>2, <1>3, <1>4, <1>6, <2>1, <2>2, <2>3 DEF LedgerOf
  <1>10. PendingOf(o)'
    BY <1>1, <1>2, <1>3, <1>6 DEF PendingOf, ActiveHold
  <1>11. HoldOf(o)' /\ PaidOf(o)'
    BY <1>1, <1>2, <1>3, <1>6 DEF HoldOf, PaidOf, ActiveHold, NoActiveHold
  <1>12. QED
    BY <1>5, <1>7, <1>8, <1>9, <1>10, <1>11 DEF OrderInv

LEMMA ApplyInv ==
    ASSUME IInv, NEW o \in Orders, NEW n \in Tries, Reported(o, n, "success"),
           ApplySuccessfulVnpayTransaction(o, n)
    PROVE  \A p \in Orders : OrderInv(p)'
  <1> USE DEF IInv
  <1>1. /\ order'[o].method = order[o].method /\ order'[o].status = "PENDING"
        /\ payment'[o] = "PAID" /\ outcome' = outcome /\ moves' = moves
        /\ \A p \in Orders \ {o} : /\ order'[p] = order[p]
                                   /\ payment'[p] = payment[p]
                                   /\ attempt'[p] = attempt[p]
    BY DEF ApplySuccessfulVnpayTransaction, TypeOK, OrderRow
  <1>2. /\ attempt'[o][n].status = "PAID" /\ attempt'[o][n].consumed
        /\ attempt'[o][n].released = attempt[o][n].released
        /\ \A m \in Tries \ {n} : attempt'[o][m] = attempt[o][m]
    BY DEF ApplySuccessfulVnpayTransaction, TypeOK, AttemptRow
  <1>3. \A p \in Orders \ {o} : OrderInv(p)'
    BY <1>1, Frame DEF Untouched
  <1>4. /\ attempt[o][n].status = "PENDING" /\ ~attempt[o][n].released
        /\ order[o].method = "VNPAY" /\ outcome[o][n] = "success"
        /\ \A m \in Tries \ {n} : attempt[o][m].status # "PAID"
    BY DEF ApplySuccessfulVnpayTransaction, MayApply, Reported, Superseded, ActiveHold
  <1>5. BlankOf(o)' /\ CodReturnOf(o)'
    <2>1. BlankOf(o)'
      BY <1>1, <1>2 DEF BlankOf, OrderInv
    <2>2. CodReturnOf(o)'
      BY <1>1, <1>4 DEF CodReturnOf
    <2>3. QED
      BY <2>1, <2>2
  <1>6. LedgerOf(o)'
    BY <1>1, <1>2, <1>4 DEF LedgerOf, OrderInv
  <1>7. PendingOf(o)' /\ HoldOf(o)'
    BY <1>1, <1>2, <1>4 DEF PendingOf, HoldOf, ActiveHold, NoActiveHold, OrderInv
  <1>8. PaidOf(o)'
    BY <1>1, <1>2, <1>4 DEF PaidOf, OrderInv
  <1>9. QED
    BY <1>3, <1>5, <1>6, <1>7, <1>8 DEF OrderInv

LEMMA FailInv ==
    ASSUME IInv, NEW o \in Orders, NEW n \in Tries, attempt[o][n].status = "PENDING",
           NEW a \in {"FAILED", "CANCELLED", "EXPIRED"},
           NEW p \in {"FAILED", "CANCELLED", "EXPIRED"},
           FailPayment(o, n, a, p)
    PROVE  \A q \in Orders : OrderInv(q)'
  <1> USE DEF IInv
  <1>1. /\ order'[o].method = order[o].method /\ order'[o].status = "PAYMENT_FAILED"
        /\ order'[o].restored /\ payment'[o] = p /\ outcome' = outcome
        /\ \A q \in Orders \ {o} : /\ order'[q] = order[q]
                                   /\ payment'[q] = payment[q]
                                   /\ attempt'[q] = attempt[q]
    BY DEF FailPayment, TypeOK, OrderRow
  <1>2. /\ attempt'[o][n].status = a
        /\ attempt'[o][n].consumed = attempt[o][n].consumed
        /\ attempt'[o][n].released = (attempt[o][n].released \/ ActiveHold(o, n))
        /\ \A m \in Tries \ {n} : attempt'[o][m] = attempt[o][m]
    BY DEF FailPayment, TypeOK, AttemptRow
  <1>3. /\ attempt'[o][n].status # "NONE" /\ attempt'[o][n].status # "PENDING"
        /\ attempt'[o][n].status # "PAID"
    BY <1>2
  <1>4. attempt[o][n].released \in BOOLEAN /\ attempt[o][n].consumed \in BOOLEAN
    BY DEF TypeOK, AttemptRow
  <1>5. /\ \A q \in Orders \ {o} : \A m \in 0 .. MaxTries :
             moves'[<<q, m>>] = moves[<<q, m>>]
        /\ moves'[<<o, 0>>] = moves[<<o, 0>>]
        /\ \A m \in Tries \ {n} : moves'[<<o, m>>] = moves[<<o, m>>]
        /\ moves'[<<o, n>>].taken = moves[<<o, n>>].taken
        /\ moves'[<<o, n>>].returned = IF ActiveHold(o, n)
                                       THEN moves[<<o, n>>].returned + 1
                                       ELSE moves[<<o, n>>].returned
    <2>1. TypeOK /\ n \in 0 .. MaxTries /\ 0 \in 0 .. MaxTries /\ n # 0
      BY TriesAssumption DEF Tries
    <2>2. CASE ActiveHold(o, n)
      <3>1. RestoreStock(o, n)
        BY <2>2 DEF FailPayment, ReleaseReservedStock
      <3>2. QED
        BY <2>1, <2>2, <3>1, RestoreMoves, TriesInRange
    <2>3. CASE ~ActiveHold(o, n)
      BY <2>3 DEF FailPayment, ReleaseReservedStock
    <2>4. QED
      BY <2>2, <2>3
  <1>6. \A q \in Orders \ {o} : OrderInv(q)'
    BY <1>1, <1>5, Frame DEF Untouched
  <1>7. BlankOf(o)' /\ CodReturnOf(o)'
    <2>1. BlankOf(o)'
      BY <1>1, <1>2, <1>3 DEF BlankOf, OrderInv
    <2>2. CodReturnOf(o)'
      BY <1>1 DEF CodReturnOf
    <2>3. QED
      BY <2>1, <2>2
  <1>8. LedgerOf(o)'
    <2>1. LedgerOf(o)
      BY DEF OrderInv
    <2>2. CASE ActiveHold(o, n)
      <3>1. attempt'[o][n].released /\ ~attempt'[o][n].consumed
        BY <1>2, <1>4, <2>2 DEF ActiveHold
      <3>2. moves[<<o, n>>].returned = 0
        BY <2>1, <2>2 DEF LedgerOf, ActiveHold
      <3>3. QED
        BY <1>1, <1>2, <1>3, <1>5, <2>1, <2>2, <3>1, <3>2 DEF LedgerOf
    <2>3. CASE ~ActiveHold(o, n)
      <3>1. attempt'[o][n].released = attempt[o][n].released
        BY <1>2, <1>4, <2>3
      <3>2. QED
        BY <1>1, <1>2, <1>3, <1>5, <2>1, <2>3, <3>1 DEF LedgerOf
    <2>4. QED
      BY <2>2, <2>3
  <1>9. PendingOf(o)'
    BY <1>2, <1>3 DEF PendingOf, OrderInv
  <1>10. HoldOf(o)'
    <2>1. attempt'[o][n].released \/ attempt'[o][n].consumed
      BY <1>2, <1>4 DEF ActiveHold
    <2>2. QED
      BY <1>1, <1>2, <2>1 DEF HoldOf, ActiveHold, NoActiveHold, OrderInv
  <1>11. PaidOf(o)'
    BY <1>1, <1>2, <1>3 DEF PaidOf, OrderInv
  <1>12. QED
    BY <1>6, <1>7, <1>8, <1>9, <1>10, <1>11 DEF OrderInv

\* A cancellation of an order that waits, failed to be paid or is being prepared.
LEMMA CancelInv ==
    ASSUME IInv, NEW o \in Orders, NEW A, "CANCELLED" \notin A, "NONE" \notin A,
           CancelOrderInTransaction(o, A)
    PROVE  \A p \in Orders : OrderInv(p)'
  <1> USE DEF IInv
  <1>1. /\ order'[o].method = order[o].method /\ order'[o].status = "CANCELLED"
        /\ order'[o].restored = (order[o].restored \/ ~NoActiveHold(o) \/ CodStockOut(o))
        /\ outcome' = outcome
        /\ \A p \in Orders \ {o} : order'[p] = order[p] /\ payment'[p] = payment[p]
    BY DEF CancelOrderInTransaction, TypeOK, OrderRow
  <1>2. /\ payment[o] \in {"PENDING", "UNPAID"} => payment'[o] = "CANCELLED"
        /\ payment'[o] = "PAID" => payment[o] = "PAID"
    BY DEF CancelOrderInTransaction, TypeOK
  <1>3. order[o].status # "CANCELLED" /\ order[o].status # "NONE"
    BY DEF CancelOrderInTransaction
  <1>4. TypeOK /\ 0 \in 0 .. MaxTries /\ \A m \in Tries : m # 0 /\ m \in 0 .. MaxTries
    BY TriesAssumption DEF Tries
  <1>5. ASSUME NEW n \in Tries, HoldToRelease(o, n), RestoreStock(o, n),
               attempt' = [attempt EXCEPT ![o][n].released = TRUE]
        PROVE  \A p \in Orders : OrderInv(p)'
    <2>1. /\ attempt'[o][n].status = attempt[o][n].status
          /\ attempt'[o][n].consumed = attempt[o][n].consumed
          /\ attempt'[o][n].released
          /\ \A m \in Tries \ {n} : attempt'[o][m] = attempt[o][m]
          /\ \A p \in Orders \ {o} : attempt'[p] = attempt[p]
      BY <1>5 DEF TypeOK, AttemptRow
    <2>2. /\ moves'[<<o, n>>].taken = moves[<<o, n>>].taken
          /\ moves'[<<o, n>>].returned = moves[<<o, n>>].returned + 1
          /\ \A p \in Orders, m \in 0 .. MaxTries :
                p # o \/ m # n => moves'[<<p, m>>] = moves[<<p, m>>]
      BY <1>4, <1>5, RestoreMoves
    <2>3. \A p \in Orders \ {o} : OrderInv(p)'
      BY <1>1, <2>1, <2>2, Frame DEF Untouched
    <2>4. /\ attempt[o][n].status = "PENDING"
          /\ ~attempt[o][n].released /\ ~attempt[o][n].consumed
          /\ \A m \in Tries \ {n} : attempt[o][m].status # "PENDING"
          /\ payment[o] = "PENDING"
      <3>1. ActiveHold(o, n) /\ attempt[o][n].status = "PENDING"
        BY <1>5 DEF HoldToRelease, OrderInv, HoldOf
      <3>2. QED
        BY <1>3, <3>1 DEF ActiveHold, OrderInv, PendingOf
    <2>5. order'[o].restored
      BY <1>1, <1>5 DEF HoldToRelease, NoActiveHold
    <2>6. BlankOf(o)'
      BY <1>1, <2>1, <2>4 DEF BlankOf, OrderInv
    <2>7. CodReturnOf(o)'
      BY <2>5 DEF CodReturnOf
    <2>8. LedgerOf(o)'
      <3>1. LedgerOf(o)
        BY DEF OrderInv
      <3>2. moves'[<<o, 0>>] = moves[<<o, 0>>]
        BY <1>4, <2>2
      <3>3. \A m \in Tries \ {n} : moves'[<<o, m>>] = moves[<<o, m>>]
        BY <1>4, <2>2
      <3>4. QED
        BY <1>1, <2>1, <2>2, <2>4, <3>1, <3>2, <3>3 DEF LedgerOf
    <2>9. PendingOf(o)'
      BY <1>1, <1>2, <2>1, <2>4 DEF PendingOf
    <2>10. HoldOf(o)'
      BY <1>1, <2>1 DEF HoldOf, ActiveHold, OrderInv
    <2>11. PaidOf(o)'
      BY <1>1, <1>2, <2>1 DEF PaidOf, OrderInv
    <2>12. QED
      BY <2>3, <2>6, <2>7, <2>8, <2>9, <2>10, <2>11 DEF OrderInv
  <1>6. ASSUME NoActiveHold(o), attempt' = attempt,
               \/ CodStockOut(o) /\ RestoreStock(o, 0)
               \/ ~CodStockOut(o) /\ UNCHANGED moves
        PROVE  \A p \in Orders : OrderInv(p)'
    <2>1. /\ \A p \in Orders \ {o} : \A m \in 0 .. MaxTries :
               moves'[<<p, m>>] = moves[<<p, m>>]
          /\ \A m \in Tries : moves'[<<o, m>>] = moves[<<o, m>>]
          /\ moves'[<<o, 0>>].taken = moves[<<o, 0>>].taken
          /\ moves'[<<o, 0>>].returned = IF CodStockOut(o)
                                         THEN moves[<<o, 0>>].returned + 1
                                         ELSE moves[<<o, 0>>].returned
      <3>1. CASE CodStockOut(o)
        <4>1. RestoreStock(o, 0)
          BY <1>6, <3>1
        <4>2. QED
          BY <1>4, <3>1, <4>1, RestoreMoves
      <3>2. CASE ~CodStockOut(o)
        BY <1>6, <3>2
      <3>3. QED
        BY <3>1, <3>2
    <2>2. \A p \in Orders \ {o} : OrderInv(p)'
      BY <1>1, <1>6, <2>1, Frame DEF Untouched
    <2>3. \A n \in Tries : attempt[o][n].status # "PENDING"
      <3>1. order[o].status # "PENDING_PAYMENT"
        BY <1>6 DEF OrderInv, HoldOf
      <3>2. QED
        BY <1>3, <3>1 DEF OrderInv, PendingOf
    <2>4. moves[<<o, 0>>].taken \in Nat /\ moves[<<o, 0>>].returned \in Nat
      BY <1>4 DEF TypeOK, Sources
    <2>5. CodStockOut(o) => moves[<<o, 0>>].taken = 1 /\ moves[<<o, 0>>].returned = 0
      <3>1. SUFFICES ASSUME CodStockOut(o)
            PROVE  moves[<<o, 0>>].taken = 1 /\ moves[<<o, 0>>].returned = 0
        OBVIOUS
      <3>2. order[o].method = "COD" /\ ~order[o].restored
        BY <3>1 DEF CodStockOut
      <3>3. moves[<<o, 0>>].taken = 1 /\ moves[<<o, 0>>].returned <= 1
        BY <3>2 DEF OrderInv, LedgerOf
      <3>4. moves[<<o, 0>>].returned # 1
        BY <1>6, <3>2 DEF OrderInv, CodReturnOf, HoldOf
      <3>5. QED
        BY <2>4, <3>3, <3>4
    <2>6. BlankOf(o)'
      BY <1>1, <1>6 DEF BlankOf, OrderInv
    <2>7. CodReturnOf(o)'
      <3>1. CASE CodStockOut(o)
        BY <1>1, <3>1 DEF CodReturnOf
      <3>2. CASE ~CodStockOut(o)
        <4>1. CodReturnOf(o) /\ order[o].status # "PENDING_PAYMENT"
          BY <1>6 DEF OrderInv, HoldOf
        <4>2. moves'[<<o, 0>>].returned = moves[<<o, 0>>].returned
          BY <2>1, <3>2
        <4>3. QED
          BY <1>1, <4>1, <4>2 DEF CodReturnOf
      <3>3. QED
        BY <3>1, <3>2
    <2>8. LedgerOf(o)'
      <3>1. LedgerOf(o)
        BY DEF OrderInv
      <3>2. QED
        BY <1>1, <1>6, <2>1, <2>4, <2>5, <3>1 DEF LedgerOf
    <2>9. PendingOf(o)'
      BY <1>6, <2>3 DEF PendingOf
    <2>10. HoldOf(o)'
      BY <1>1, <1>6 DEF HoldOf, ActiveHold, OrderInv
    <2>11. PaidOf(o)'
      BY <1>1, <1>2, <1>6 DEF PaidOf, OrderInv
    <2>12. QED
      BY <2>2, <2>6, <2>7, <2>8, <2>9, <2>10, <2>11 DEF OrderInv
  <1>7. QED
    BY <1>5, <1>6 DEF CancelOrderInTransaction

LEMMA RetryCreateInv ==
    ASSUME IInv, NEW c \in Calls, RetryCreate(c)
    PROVE  \A p \in Orders : OrderInv(p)'
  <1> USE DEF IInv
  <1>1. PICK o \in Orders : o = call[c].order /\ order[o].status # "NONE"
    <2>1. call[c] \in [order : Orders, key : Keys \cup Orders]
      BY DEF RetryCreate, TypeOK
    <2>2. QED
      BY <2>1 DEF RetryCreate, CallInv
  <1>2. PICK n \in Tries :
          /\ NextTry(o, n)
          /\ DeductStock(o, n)
          /\ attempt' = [attempt EXCEPT ![o][n] = NewAttempt(call[c].key)]
    BY <1>1 DEF RetryCreate
  <1>3. /\ payment' = [payment EXCEPT ![o] = "PENDING"]
        /\ order' = [order EXCEPT ![o].status = "PENDING_PAYMENT", ![o].restored = FALSE]
        /\ \A m \in Tries : attempt[o][m].status # "PENDING"
        /\ outcome' = outcome
    BY <1>1 DEF RetryCreate, PendingChecked, NoPendingAttempt
  <1>4. /\ order'[o].method = order[o].method /\ order'[o].status = "PENDING_PAYMENT"
        /\ payment'[o] = "PENDING"
        /\ \A p \in Orders \ {o} : order'[p] = order[p] /\ payment'[p] = payment[p]
    BY <1>1, <1>3 DEF TypeOK, OrderRow
  <1>5. /\ attempt'[o][n].status = "PENDING"
        /\ ~attempt'[o][n].released /\ ~attempt'[o][n].consumed
        /\ \A m \in Tries \ {n} : attempt'[o][m] = attempt[o][m]
        /\ \A p \in Orders \ {o} : attempt'[p] = attempt[p]
    BY <1>1, <1>2 DEF TypeOK, NewAttempt, NoAttempt
  <1>6. /\ attempt[o][n].status = "NONE"
        /\ ~attempt[o][n].released /\ ~attempt[o][n].consumed
    BY <1>1, <1>2 DEF NextTry, OrderInv, BlankOf
  <1>7. TypeOK /\ 0 \in 0 .. MaxTries /\ \A m \in Tries : m # 0 /\ m \in 0 .. MaxTries
    BY TriesAssumption DEF Tries
  <1>8. /\ moves'[<<o, n>>].taken = moves[<<o, n>>].taken + 1
        /\ moves'[<<o, n>>].returned = moves[<<o, n>>].returned
        /\ \A p \in Orders, m \in 0 .. MaxTries :
             p # o \/ m # n => moves'[<<p, m>>] = moves[<<p, m>>]
    BY <1>1, <1>2, <1>7, DeductMoves
  <1>9. \A p \in Orders \ {o} : OrderInv(p)'
    BY <1>3, <1>4, <1>5, <1>8, Frame DEF Untouched
  <1>10. BlankOf(o)'
    BY <1>1, <1>4, <1>5 DEF BlankOf, OrderInv
  <1>11. CodReturnOf(o)'
    BY <1>4 DEF CodReturnOf
  <1>12. LedgerOf(o)'
    <2>1. LedgerOf(o)
      BY <1>1 DEF OrderInv
    <2>2. moves'[<<o, 0>>] = moves[<<o, 0>>]
      BY <1>1, <1>7, <1>8
    <2>3. \A m \in Tries \ {n} : moves'[<<o, m>>] = moves[<<o, m>>]
      BY <1>1, <1>7, <1>8
    <2>4. QED
      BY <1>4, <1>5, <1>6, <1>8, <2>1, <2>2, <2>3 DEF LedgerOf
  <1>13. PendingOf(o)'
    BY <1>3, <1>4, <1>5 DEF PendingOf, ActiveHold
  <1>14. HoldOf(o)'
    BY <1>1, <1>4, <1>5 DEF HoldOf, ActiveHold, NoActiveHold, OrderInv
  <1>15. PaidOf(o)'
    <2>1. PaidOf(o)
      BY <1>1 DEF OrderInv
    <2>2. \A m \in Tries : attempt'[o][m].status = "PAID" =>
             attempt'[o][m] = attempt[o][m] /\ attempt[o][m].status = "PAID"
      BY <1>5
    <2>3. QED
      BY <1>3, <1>4, <2>1, <2>2 DEF PaidOf
  <1>16. QED
    BY <1>9, <1>10, <1>11, <1>12, <1>13, <1>14, <1>15 DEF OrderInv

\* The branch works only on orders that no attempt is waiting for.
LEMMA FulfilmentInv ==
    ASSUME IInv, NEW o \in Orders, AdminTransition(o) \/ ConfirmReceived(o)
    PROVE  \A p \in Orders : OrderInv(p)'
  <1> USE DEF IInv
  <1>1. /\ order'[o].method = order[o].method
        /\ order'[o].restored = order[o].restored
        /\ \A p \in Orders \ {o} : order'[p] = order[p] /\ payment'[p] = payment[p]
    BY DEF AdminTransition, ConfirmReceived, TypeOK, OrderRow
  <1>2. UNCHANGED <<attempt, moves, outcome>>
    BY DEF AdminTransition, ConfirmReceived
  <1>3. order[o].status \in {"PENDING", "CONFIRMED", "PACKING", "SHIPPING"}
    BY DEF AdminTransition, ConfirmReceived, NEXT_STATUS
  <1>4. order'[o].status \in Fulfilment
    BY <1>3 DEF AdminTransition, ConfirmReceived, NEXT_STATUS, TypeOK, OrderRow, Fulfilment
  <1>5. payment'[o] = payment[o] \/ order[o].method = "COD"
    BY DEF AdminTransition, ConfirmReceived, TypeOK
  <1>6. \A p \in Orders \ {o} : OrderInv(p)'
    BY <1>1, <1>2, Frame DEF Untouched
  <1>7. \A n \in Tries : attempt[o][n].status # "PENDING"
    BY <1>3 DEF OrderInv, PendingOf
  <1>8. BlankOf(o)' /\ LedgerOf(o)'
    BY <1>1, <1>2, <1>4 DEF BlankOf, LedgerOf, OrderInv, Fulfilment
  <1>9. CodReturnOf(o)'
    BY <1>1, <1>2, <1>3 DEF CodReturnOf, OrderInv
  <1>10. PendingOf(o)' /\ HoldOf(o)'
    BY <1>2, <1>4, <1>7 DEF PendingOf, HoldOf, ActiveHold, OrderInv, Fulfilment
  <1>11. PaidOf(o)'
    BY <1>1, <1>2, <1>5 DEF PaidOf, OrderInv
  <1>12. QED
    BY <1>6, <1>8, <1>9, <1>10, <1>11 DEF OrderInv

\* VNPAY's own decision touches no row, and never that of a decided attempt.
LEMMA DecideInv ==
    ASSUME IInv, NEW o \in Orders, NEW n \in Tries, NEW d, ProviderDecides(o, n, d)
    PROVE  \A p \in Orders : OrderInv(p)'
  <1> USE DEF IInv
  <1>1. /\ UNCHANGED <<order, payment, attempt, moves>>
        /\ attempt[o][n].status # "PAID"
        /\ \A m \in Tries \ {n} : outcome'[o][m] = outcome[o][m]
        /\ \A p \in Orders \ {o} : outcome'[p] = outcome[p]
    BY DEF ProviderDecides, TypeOK
  <1>2. \A p \in Orders \ {o} : OrderInv(p)'
    BY <1>1, Frame DEF Untouched
  <1>3. BlankOf(o)' /\ CodReturnOf(o)' /\ LedgerOf(o)'
    BY <1>1 DEF OrderInv, BlankOf, CodReturnOf, LedgerOf
  <1>4. PendingOf(o)' /\ HoldOf(o)'
    BY <1>1 DEF OrderInv, PendingOf, HoldOf, ActiveHold, NoActiveHold
  <1>5. PaidOf(o)'
    BY <1>1 DEF OrderInv, PaidOf
  <1>6. QED
    BY <1>2, <1>3, <1>4, <1>5 DEF OrderInv

\* Steps that write no order, payment, attempt, movement or decision.
LEMMA QuietInv ==
    ASSUME IInv, UNCHANGED <<order, payment, attempt, outcome, moves>>
    PROVE  \A p \in Orders : OrderInv(p)'
  BY Frame DEF IInv, Untouched

-----------------------------------------------------------------------------
(* Every step keeps the inductive invariant *)

\* No handler makes an order row disappear, so a retry request keeps its order.
LEMMA CallStep == IInv /\ [Next]_vars => CallInv'
  <1> SUFFICES ASSUME IInv, [Next]_vars PROVE CallInv'
    OBVIOUS
  <1> USE DEF IInv
  <1>1. order \in [Orders -> OrderRow] /\
        call \in [Calls -> {NoCall} \cup [order : Orders, key : Keys \cup Orders]]
    BY DEF TypeOK
  <1>2. SUFFICES /\ \A p \in Orders :
                      order[p].status # "NONE" => order'[p].status # "NONE"
                 /\ \A c \in Calls :
                      \/ call'[c] = call[c] \/ call'[c] = NoCall
                      \/ \E o \in Orders : call'[c].order = o /\ order[o].status # "NONE"
    <2>1. \A c \in Calls : call[c] # NoCall => call[c].order \in Orders
      BY <1>1
    <2>2. QED
      BY <1>2, <2>1 DEF CallInv
  <1>3. ASSUME NEW o \in Orders, OrderStep(o)
        PROVE  call' = call /\ \A p \in Orders :
                 order[p].status # "NONE" => order'[p].status # "NONE"
    <2>1. CASE PlaceCod(o) \/ PlaceVnpay(o)
      BY <1>1, <2>1 DEF PlaceCod, PlaceVnpay
    <2>2. CASE CustomerCancel(o) \/ AdminCancel(o)
      BY <1>1, <2>2 DEF CustomerCancel, AdminCancel, CancelOrderInTransaction, OrderRow
    <2>3. CASE AdminTransition(o) \/ ConfirmReceived(o)
      BY <1>1, <2>3 DEF AdminTransition, ConfirmReceived, NEXT_STATUS, OrderRow
    <2>4. QED
      BY <1>3, <2>1, <2>2, <2>3 DEF OrderStep
  <1>4. ASSUME NEW o \in Orders, NEW n \in Tries, AttemptStep(o, n)
        PROVE  call' = call /\ \A p \in Orders :
                 order[p].status # "NONE" => order'[p].status # "NONE"
    <2>1. CASE \E d \in Outcomes : ProviderDecides(o, n, d)
      BY <2>1 DEF ProviderDecides
    <2>2. CASE IpnSuccess(o, n) \/ ReturnSuccess(o, n)
      BY <1>1, <2>2 DEF IpnSuccess, ReturnSuccess, ApplySuccessfulVnpayTransaction, OrderRow
    <2>3. CASE IpnSuccessNotApplied(o, n)
      BY <2>3 DEF IpnSuccessNotApplied
    <2>4. CASE IpnFailure(o, n) \/ ExpirePayment(o, n)
      BY <1>1, <2>4 DEF IpnFailure, ExpirePayment, FailPayment, OrderRow
    <2>5. QED
      BY <1>4, <2>1, <2>2, <2>3, <2>4 DEF AttemptStep
  <1>5. ASSUME NEW c \in Calls, RetryStep(c)
        PROVE  /\ \A p \in Orders :
                    order[p].status # "NONE" => order'[p].status # "NONE"
               /\ \A d \in Calls :
                    \/ call'[d] = call[d] \/ call'[d] = NoCall
                    \/ \E o \in Orders : call'[d].order = o /\ order[o].status # "NONE"
    <2>1. CASE \E o \in Orders : \E k \in Keys \cup {o} : RetryRead(c, o, k)
      BY <1>1, <2>1 DEF RetryRead
    <2>2. CASE RetryCreate(c)
      BY <1>1, <2>2 DEF RetryCreate, OrderRow
    <2>3. CASE RetryEnd(c)
      BY <1>1, <2>3 DEF RetryEnd
    <2>4. QED
      BY <1>5, <2>1, <2>2, <2>3 DEF RetryStep
  <1>6. ASSUME NEW v \in Variants, NEW q, AdjustQuantity(v, q)
        PROVE  UNCHANGED <<order, call>>
    BY <1>6 DEF AdjustQuantity
  <1>7. CASE UNCHANGED vars
    BY <1>7 DEF vars
  <1>8. CASE Next
    BY <1>3, <1>4, <1>5, <1>6, <1>8 DEF Next
  <1>9. QED
    BY <1>7, <1>8

LEMMA InitInv == Init => IInv
  <1> SUFFICES ASSUME Init PROVE IInv
    OBVIOUS
  <1>1. TypeOK
    BY InitType
  <1>2. CallInv
    BY DEF Init, CallInv
  <1>3. ASSUME NEW o \in Orders
        PROVE  OrderInv(o)
    <2>1. /\ order[o].status = "NONE" /\ order[o].method = "NONE"
          /\ payment[o] = "NONE"
          /\ \A n \in Tries : /\ attempt[o][n].status = "NONE"
                              /\ ~attempt[o][n].released /\ ~attempt[o][n].consumed
      BY DEF Init, NoOrder, NoAttempt
    <2>2. \A n \in 0 .. MaxTries : moves[<<o, n>>] = [taken |-> 0, returned |-> 0]
      BY DEF Init, Sources
    <2>3. BlankOf(o) /\ CodReturnOf(o) /\ PendingOf(o) /\ HoldOf(o) /\ PaidOf(o)
      BY <2>1 DEF BlankOf, CodReturnOf, PendingOf, HoldOf, PaidOf, ActiveHold
    <2>4. LedgerOf(o)
      <3>1. /\ moves[<<o, 0>>] = [taken |-> 0, returned |-> 0]
            /\ \A n \in Tries : moves[<<o, n>>] = [taken |-> 0, returned |-> 0]
        BY <2>2, TriesAssumption, TriesInRange
      <3>2. QED
        BY <2>1, <3>1 DEF LedgerOf
    <2>5. QED
      BY <2>3, <2>4 DEF OrderInv
  <1>4. QED
    BY <1>1, <1>2, <1>3 DEF IInv

LEMMA NextInv == IInv /\ [Next]_vars => IInv'
  <1> SUFFICES ASSUME IInv, [Next]_vars PROVE IInv'
    OBVIOUS
  <1>1. TypeOK' /\ CallInv'
    BY NextType, CallStep DEF IInv
  <1>2. ASSUME NEW o \in Orders, OrderStep(o)
        PROVE  \A p \in Orders : OrderInv(p)'
    <2>1. CASE PlaceCod(o)
      BY <2>1, PlaceCodInv
    <2>2. CASE PlaceVnpay(o)
      BY <2>2, PlaceVnpayInv
    <2>3. CASE CustomerCancel(o) \/ AdminCancel(o)
      <3>1. /\ {"CANCELLED", "NONE"} \cap CUSTOMER_CANCELLABLE_STATUSES = {}
            /\ {"CANCELLED", "NONE"} \cap ADMIN_CANCELLABLE_STATUSES = {}
        BY DEF CUSTOMER_CANCELLABLE_STATUSES, ADMIN_CANCELLABLE_STATUSES
      <3>2. QED
        BY <2>3, <3>1, CancelInv DEF CustomerCancel, AdminCancel
    <2>4. CASE AdminTransition(o) \/ ConfirmReceived(o)
      BY <2>4, FulfilmentInv
    <2>5. QED
      BY <1>2, <2>1, <2>2, <2>3, <2>4 DEF OrderStep
  <1>3. ASSUME NEW o \in Orders, NEW n \in Tries, AttemptStep(o, n)
        PROVE  \A p \in Orders : OrderInv(p)'
    <2>1. ASSUME NEW d \in Outcomes, ProviderDecides(o, n, d)
          PROVE  \A p \in Orders : OrderInv(p)'
      BY <2>1, DecideInv
    <2>2. CASE IpnSuccess(o, n) \/ ReturnSuccess(o, n)
      BY <2>2, ApplyInv DEF IpnSuccess, ReturnSuccess
    <2>3. CASE IpnSuccessNotApplied(o, n)
      BY <2>3, QuietInv DEF IpnSuccessNotApplied
    <2>4. CASE IpnFailure(o, n) \/ ExpirePayment(o, n)
      BY <2>4, FailInv DEF IpnFailure, ExpirePayment
    <2>5. QED
      BY <1>3, <2>1, <2>2, <2>3, <2>4 DEF AttemptStep
  <1>4. ASSUME NEW c \in Calls, RetryStep(c)
        PROVE  \A p \in Orders : OrderInv(p)'
    <2>1. CASE RetryCreate(c)
      BY <2>1, RetryCreateInv
    <2>2. CASE RetryEnd(c) \/ \E o \in Orders : \E k \in Keys \cup {o} : RetryRead(c, o, k)
      BY <2>2, QuietInv DEF RetryEnd, RetryRead
    <2>3. QED
      BY <1>4, <2>1, <2>2 DEF RetryStep
  <1>5. ASSUME NEW v \in Variants, NEW q, AdjustQuantity(v, q)
        PROVE  \A p \in Orders : OrderInv(p)'
    BY <1>5, QuietInv DEF AdjustQuantity
  <1>6. ASSUME UNCHANGED vars
        PROVE  \A p \in Orders : OrderInv(p)'
    BY <1>6, QuietInv DEF vars
  <1>7. ASSUME Next
        PROVE  \A p \in Orders : OrderInv(p)'
    BY <1>2, <1>3, <1>4, <1>5, <1>7 DEF Next
  <1>8. QED
    BY <1>1, <1>6, <1>7 DEF IInv

LEMMA Inductive == Spec => []IInv
  BY InitInv, NextInv, PTL DEF Spec

-----------------------------------------------------------------------------
(* What follows from it *)

\* In every behaviour the movement ledger and the rows agree: no attempt takes
\* its stock twice or gives it back twice, and what it sold it does not give back.
THEOREM LedgerCorrect == Spec => []LedgerMatchesRows
  <1>1. IInv => LedgerMatchesRows
    BY DEF IInv, OrderInv, LedgerMatchesRows
  <1>2. QED
    BY <1>1, Inductive, PTL

\* In every behaviour at most one attempt of a payment waits for VNPAY, and its
\* order waits with it or was cancelled and has released its stock.
THEOREM PendingCorrect == Spec => []PendingAttempt
  <1>1. IInv => PendingAttempt
    BY DEF IInv, OrderInv, PendingAttempt
  <1>2. QED
    BY <1>1, Inductive, PTL

\* In every behaviour stock is reserved only for an attempt that waits, and an
\* order that waits for its payment has stock reserved.
THEOREM HoldCorrect == Spec => []HoldHasOwner
  <1>1. IInv => HoldHasOwner
    BY DEF IInv, OrderInv, HoldHasOwner
  <1>2. QED
    BY <1>1, Inductive, PTL

\* In every behaviour an order has at most one paid attempt, VNPAY reported it
\* as successful, and a VNPAY payment is PAID only on the strength of it.
THEOREM PaidCorrect == Spec => []PaidIsBacked
  <1>1. IInv => PaidIsBacked
    BY DEF IInv, OrderInv, PaidIsBacked
  <1>2. QED
    BY <1>1, Inductive, PTL

\* A step leaves every ended attempt alone: the callbacks and the expiry end
\* only waiting attempts, a retry fills only an unused number, and a cancellation
\* releases only an attempt with a hold, which by HoldOf is waiting.
LEMMA EndedStep ==
    ASSUME IInv, Next, NEW p \in Orders, NEW m \in Tries,
           attempt[p][m].status \notin {"NONE", "PENDING"}
    PROVE  attempt'[p][m] = attempt[p][m]
  <1>1. attempt \in [Orders -> [Tries -> AttemptRow]]
    BY DEF IInv, TypeOK
  <1>2. ASSUME NEW o \in Orders, OrderStep(o)
        PROVE  attempt'[p][m] = attempt[p][m]
    <2>1. CASE PlaceCod(o) \/ AdminTransition(o) \/ ConfirmReceived(o)
      BY <2>1 DEF PlaceCod, AdminTransition, ConfirmReceived
    <2>2. CASE PlaceVnpay(o)
      <3>1. attempt[o][1].status = "NONE"
        <4>1. 1 \in Tries
          BY TriesAssumption DEF Tries
        <4>2. QED
          BY <2>2, <4>1 DEF PlaceVnpay, IInv, OrderInv, BlankOf
      <3>2. QED
        BY <1>1, <2>2, <3>1 DEF PlaceVnpay
    <2>3. ASSUME NEW A, CancelOrderInTransaction(o, A)
          PROVE  attempt'[p][m] = attempt[p][m]
      <3>1. ASSUME NEW n \in Tries, HoldToRelease(o, n),
                   attempt' = [attempt EXCEPT ![o][n].released = TRUE]
            PROVE  attempt'[p][m] = attempt[p][m]
        <4>1. attempt[o][n].status = "PENDING"
          BY <3>1 DEF HoldToRelease, IInv, OrderInv, HoldOf
        <4>2. QED
          BY <1>1, <3>1, <4>1
      <3>2. QED
        BY <2>3, <3>1 DEF CancelOrderInTransaction
    <2>4. QED
      BY <1>2, <2>1, <2>2, <2>3 DEF OrderStep, CustomerCancel, AdminCancel
  <1>3. ASSUME NEW o \in Orders, NEW n \in Tries, AttemptStep(o, n)
        PROVE  attempt'[p][m] = attempt[p][m]
    <2>1. CASE IpnSuccess(o, n) \/ ReturnSuccess(o, n)
      <3>1. /\ attempt[o][n].status = "PENDING"
            /\ attempt' = [attempt EXCEPT ![o][n].status = "PAID",
                                          ![o][n].consumed = TRUE]
        BY <2>1 DEF IpnSuccess, ReturnSuccess, ApplySuccessfulVnpayTransaction, MayApply
      <3>2. <<o, n>> # <<p, m>>
        BY <3>1
      <3>3. QED
        BY <1>1, <3>1, <3>2
    <2>2. CASE IpnFailure(o, n) \/ ExpirePayment(o, n)
      <3>1. attempt[o][n].status = "PENDING" /\ \E a, b :
              attempt' = [attempt EXCEPT ![o][n].status = a, ![o][n].released = b]
        <4>1. ASSUME NEW a, NEW q, FailPayment(o, n, a, q)
              PROVE  \E b : attempt' = [attempt EXCEPT ![o][n].status = a,
                                                       ![o][n].released = b]
          BY <4>1, Zenon DEF FailPayment
        <4>2. QED
          BY <2>2, <4>1 DEF IpnFailure, ExpirePayment
      <3>2. <<o, n>> # <<p, m>>
        BY <3>1
      <3>3. QED
        BY <1>1, <3>1, <3>2
    <2>3. CASE UNCHANGED attempt
      BY <2>3
    <2>4. QED
      BY <1>3, <2>1, <2>2, <2>3 DEF AttemptStep, IpnSuccessNotApplied, ProviderDecides
  <1>4. ASSUME NEW c \in Calls, RetryStep(c)
        PROVE  attempt'[p][m] = attempt[p][m]
    <2>1. CASE RetryCreate(c)
      <3>1. PICK n \in Tries :
              /\ attempt[call[c].order][n].status = "NONE"
              /\ attempt' = [attempt EXCEPT
                               ![call[c].order][n] = NewAttempt(call[c].key)]
        BY <2>1 DEF RetryCreate, NextTry
      <3>2. QED
        BY <1>1, <3>1
    <2>2. QED
      BY <1>4, <2>1 DEF RetryStep, RetryRead, RetryEnd
  <1>5. ASSUME NEW v \in Variants, NEW q, AdjustQuantity(v, q)
        PROVE  attempt'[p][m] = attempt[p][m]
    BY <1>5 DEF AdjustQuantity
  <1>6. QED
    BY <1>2, <1>3, <1>4, <1>5 DEF Next

\* In every behaviour an attempt that has ended stays as it ended.
THEOREM EndedCorrect == Spec => EndedAttemptIsFinal
  <1>1. IInv /\ [Next]_vars =>
          [\A o \in Orders, n \in Tries :
             attempt[o][n].status \notin {"NONE", "PENDING"} =>
                 attempt'[o][n] = attempt[o][n]]_vars
    BY EndedStep
  <1>2. QED
    BY <1>1, Inductive, PTL DEF Spec, EndedAttemptIsFinal

-----------------------------------------------------------------------------
(* Fulfilment.  Beside what IInv says, the goods of an attempt are consumed  *)
(* only when it is paid, no attempt of a COD order is ever paid, and an      *)
(* order that the branch works on is out of the cart and funded.             *)

FundedOf(o) ==
    /\ order[o].status # "NONE" => order[o].method \in {"COD", "VNPAY"}
    /\ \A n \in Tries :
         attempt[o][n].consumed =>
             attempt[o][n].status = "PAID" /\ order[o].method = "VNPAY"
    /\ order[o].status \in Fulfilment =>
         /\ o \notin cart
         /\ order[o].method = "VNPAY" => payment[o] = "PAID"
         /\ order[o].method = "COD" =>
              /\ moves[<<o, 0>>].returned = 0
              /\ payment[o] = IF order[o].status = "COMPLETED" THEN "PAID" ELSE "UNPAID"
         /\ order[o].status = "COMPLETED" => order[o].received

FundedInv == \A o \in Orders : FundedOf(o)

\* A row that a step leaves alone stays funded; no step fills the cart.
LEMMA FundedFrame ==
    ASSUME NEW p \in Orders, FundedOf(p), Untouched(p), cart' \subseteq cart
    PROVE  FundedOf(p)'
  <1>1. moves'[<<p, 0>>] = moves[<<p, 0>>]
    BY TriesAssumption DEF Untouched
  <1>2. QED
    BY <1>1 DEF FundedOf, Untouched

LEMMA PlaceFunded ==
    ASSUME IInv, FundedInv, NEW o \in Orders, PlaceCod(o) \/ PlaceVnpay(o)
    PROVE  FundedInv'
  <1> USE DEF IInv, FundedInv
  <1>1. /\ TypeOK /\ 0 \in 0 .. MaxTries /\ 1 \in 0 .. MaxTries /\ 1 \in Tries
        /\ order[o].status = "NONE"
        /\ \A n \in Tries : ~attempt[o][n].consumed /\ attempt[o][n].status = "NONE"
    BY TriesAssumption DEF Tries, PlaceCod, PlaceVnpay, OrderInv, BlankOf
  <1>2. CASE PlaceCod(o)
    <2>1. /\ order'[o].method = "COD" /\ order'[o].status = "PENDING"
          /\ payment'[o] = "UNPAID" /\ attempt' = attempt /\ outcome' = outcome
          /\ o \notin cart' /\ cart' \subseteq cart
          /\ \A p \in Orders \ {o} : order'[p] = order[p] /\ payment'[p] = payment[p]
      BY <1>2 DEF PlaceCod, TypeOK, NoOrder
    <2>2. /\ moves'[<<o, 0>>].returned = moves[<<o, 0>>].returned
          /\ \A p \in Orders \ {o}, m \in 0 .. MaxTries : moves'[<<p, m>>] = moves[<<p, m>>]
      BY <1>1, <1>2, DeductMoves DEF PlaceCod
    <2>3. \A p \in Orders \ {o} : FundedOf(p)'
      BY <2>1, <2>2, FundedFrame DEF Untouched
    <2>4. moves[<<o, 0>>].returned = 0
      <3>1. moves[<<o, 0>>].returned \in Nat
        BY <1>1 DEF TypeOK, Sources
      <3>2. moves[<<o, 0>>].returned <= 0
        BY <1>1 DEF OrderInv, BlankOf, LedgerOf
      <3>3. QED
        BY <3>1, <3>2
    <2>5. FundedOf(o)'
      BY <1>1, <2>1, <2>2, <2>4 DEF FundedOf
    <2>6. QED
      BY <2>3, <2>5
  <1>3. CASE PlaceVnpay(o)
    <2>1. /\ order'[o].method = "VNPAY" /\ order'[o].status = "PENDING_PAYMENT"
          /\ \A n \in Tries : ~attempt'[o][n].consumed
          /\ outcome' = outcome /\ cart' = cart
          /\ \A p \in Orders \ {o} : /\ order'[p] = order[p]
                                     /\ payment'[p] = payment[p]
                                     /\ attempt'[p] = attempt[p]
      BY <1>1, <1>3 DEF PlaceVnpay, TypeOK, NoOrder, NewAttempt, NoAttempt
    <2>2. \A p \in Orders \ {o}, m \in 0 .. MaxTries : moves'[<<p, m>>] = moves[<<p, m>>]
      BY <1>1, <1>3, DeductMoves DEF PlaceVnpay
    <2>3. \A p \in Orders \ {o} : FundedOf(p)'
      BY <2>1, <2>2, FundedFrame DEF Untouched
    <2>4. FundedOf(o)'
      BY <2>1 DEF FundedOf, Fulfilment
    <2>5. QED
      BY <2>3, <2>4
  <1>4. QED
    BY <1>2, <1>3

LEMMA ApplyFunded ==
    ASSUME IInv, FundedInv, NEW o \in Orders, NEW n \in Tries, Reported(o, n, "success"),
           ApplySuccessfulVnpayTransaction(o, n)
    PROVE  FundedInv'
  <1> USE DEF IInv, FundedInv
  <1>1. /\ order'[o].method = "VNPAY" /\ order'[o].status = "PENDING"
        /\ payment'[o] = "PAID" /\ outcome' = outcome /\ moves' = moves
        /\ o \notin cart' /\ cart' \subseteq cart
        /\ \A p \in Orders \ {o} : /\ order'[p] = order[p]
                                   /\ payment'[p] = payment[p]
                                   /\ attempt'[p] = attempt[p]
    BY DEF ApplySuccessfulVnpayTransaction, Reported, TypeOK, OrderRow
  <1>2. /\ attempt'[o][n].status = "PAID"
        /\ \A m \in Tries \ {n} : attempt'[o][m] = attempt[o][m]
    BY DEF ApplySuccessfulVnpayTransaction, TypeOK, AttemptRow
  <1>3. \A p \in Orders \ {o} : FundedOf(p)'
    BY <1>1, FundedFrame DEF Untouched
  <1>4. FundedOf(o)
    BY DEF FundedInv
  <1>5. order[o].method = "VNPAY"
    BY DEF Reported
  <1>6. \A m \in Tries : attempt'[o][m].consumed => attempt'[o][m].status = "PAID"
    BY <1>2, <1>4 DEF FundedOf
  <1>7. FundedOf(o)'
    BY <1>1, <1>6 DEF FundedOf
  <1>8. QED
    BY <1>3, <1>7

LEMMA FailFunded ==
    ASSUME IInv, FundedInv, NEW o \in Orders, NEW n \in Tries, attempt[o][n].status = "PENDING",
           NEW a, NEW q, FailPayment(o, n, a, q)
    PROVE  FundedInv'
  <1> USE DEF IInv, FundedInv
  <1>1. /\ order'[o].method = order[o].method /\ order'[o].status = "PAYMENT_FAILED"
        /\ outcome' = outcome /\ cart' = cart
        /\ \A p \in Orders \ {o} : /\ order'[p] = order[p]
                                   /\ payment'[p] = payment[p]
                                   /\ attempt'[p] = attempt[p]
    BY DEF FailPayment, TypeOK, OrderRow
  <1>2. /\ attempt'[o][n].consumed = attempt[o][n].consumed
        /\ \A m \in Tries \ {n} : attempt'[o][m] = attempt[o][m]
    BY DEF FailPayment, TypeOK, AttemptRow
  <1>3. \A p \in Orders \ {o}, m \in 0 .. MaxTries : moves'[<<p, m>>] = moves[<<p, m>>]
    <2>1. CASE RestoreStock(o, n)
      BY <2>1, RestoreMoves, TriesInRange
    <2>2. CASE UNCHANGED moves
      BY <2>2
    <2>3. QED
      BY <2>1, <2>2 DEF FailPayment, ReleaseReservedStock
  <1>4. \A p \in Orders \ {o} : FundedOf(p)'
    BY <1>1, <1>3, FundedFrame DEF Untouched
  <1>5. FundedOf(o)
    BY DEF FundedInv
  <1>6. order[o].status # "NONE" /\ ~attempt[o][n].consumed
    BY <1>5 DEF OrderInv, BlankOf, FundedOf
  <1>7. FundedOf(o)'
    <2>1. order'[o].method \in {"COD", "VNPAY"}
      BY <1>1, <1>5, <1>6 DEF FundedOf
    <2>2. \A m \in Tries : attempt'[o][m].consumed =>
             attempt'[o][m].status = "PAID" /\ order'[o].method = "VNPAY"
      BY <1>1, <1>2, <1>5, <1>6 DEF FundedOf
    <2>3. order'[o].status \notin Fulfilment
      BY <1>1 DEF Fulfilment
    <2>4. QED
      BY <2>1, <2>2, <2>3 DEF FundedOf
  <1>8. QED
    BY <1>4, <1>7

LEMMA CancelFunded ==
    ASSUME IInv, FundedInv, NEW o \in Orders, NEW A, "NONE" \notin A,
           CancelOrderInTransaction(o, A)
    PROVE  FundedInv'
  <1> USE DEF IInv, FundedInv
  <1>1. /\ order'[o].method = order[o].method /\ order'[o].status = "CANCELLED"
        /\ order[o].status # "NONE"
        /\ outcome' = outcome /\ cart' = cart
        /\ \A p \in Orders \ {o} : order'[p] = order[p] /\ payment'[p] = payment[p]
    BY DEF CancelOrderInTransaction, TypeOK, OrderRow
  <1>2. /\ \A m \in Tries : /\ attempt'[o][m].status = attempt[o][m].status
                            /\ attempt'[o][m].consumed = attempt[o][m].consumed
        /\ \A p \in Orders \ {o} : attempt'[p] = attempt[p]
    <2>1. ASSUME NEW n \in Tries, attempt' = [attempt EXCEPT ![o][n].released = TRUE]
          PROVE  <1>2
      BY <2>1 DEF TypeOK, AttemptRow
    <2>2. QED
      BY <2>1 DEF CancelOrderInTransaction
  <1>3. \A p \in Orders \ {o}, m \in 0 .. MaxTries : moves'[<<p, m>>] = moves[<<p, m>>]
    <2>1. ASSUME NEW n \in 0 .. MaxTries, RestoreStock(o, n)
          PROVE  <1>3
      BY <2>1, RestoreMoves
    <2>2. CASE UNCHANGED moves
      BY <2>2
    <2>3. 0 \in 0 .. MaxTries
      BY TriesAssumption
    <2>4. \/ \E n \in 0 .. MaxTries : RestoreStock(o, n)
          \/ UNCHANGED moves
      BY <2>3, TriesInRange DEF CancelOrderInTransaction
    <2>5. QED
      BY <2>1, <2>2, <2>4
  <1>4. \A p \in Orders \ {o} : FundedOf(p)'
    BY <1>1, <1>2, <1>3, FundedFrame DEF Untouched
  <1>5. FundedOf(o)'
    <2>1. FundedOf(o)
      BY DEF FundedInv
    <2>2. order'[o].method \in {"COD", "VNPAY"}
      BY <1>1, <2>1 DEF FundedOf
    <2>3. \A m \in Tries : attempt'[o][m].consumed =>
             attempt'[o][m].status = "PAID" /\ order'[o].method = "VNPAY"
      BY <1>1, <1>2, <2>1 DEF FundedOf
    <2>4. order'[o].status \notin Fulfilment
      BY <1>1 DEF Fulfilment
    <2>5. QED
      BY <2>2, <2>3, <2>4 DEF FundedOf
  <1>6. QED
    BY <1>4, <1>5

LEMMA RetryCreateFunded ==
    ASSUME IInv, FundedInv, NEW c \in Calls, RetryCreate(c)
    PROVE  FundedInv'
  <1> USE DEF IInv, FundedInv
  <1>1. PICK o \in Orders : o = call[c].order /\ order[o].status # "NONE"
    <2>1. call[c] \in [order : Orders, key : Keys \cup Orders]
      BY DEF RetryCreate, TypeOK
    <2>2. QED
      BY <2>1 DEF RetryCreate, CallInv
  <1>2. PICK n \in Tries :
          /\ DeductStock(o, n)
          /\ attempt' = [attempt EXCEPT ![o][n] = NewAttempt(call[c].key)]
    BY <1>1 DEF RetryCreate
  <1>3. /\ order'[o].method = order[o].method /\ order'[o].status = "PENDING_PAYMENT"
        /\ outcome' = outcome /\ cart' = cart
        /\ \A p \in Orders \ {o} : order'[p] = order[p] /\ payment'[p] = payment[p]
    BY <1>1 DEF RetryCreate, TypeOK, OrderRow
  <1>4. /\ ~attempt'[o][n].consumed
        /\ \A m \in Tries \ {n} : attempt'[o][m] = attempt[o][m]
        /\ \A p \in Orders \ {o} : attempt'[p] = attempt[p]
    BY <1>1, <1>2 DEF TypeOK, NewAttempt, NoAttempt
  <1>5. \A p \in Orders \ {o}, m \in 0 .. MaxTries : moves'[<<p, m>>] = moves[<<p, m>>]
    BY <1>2, DeductMoves, TriesInRange
  <1>6. \A p \in Orders \ {o} : FundedOf(p)'
    BY <1>3, <1>4, <1>5, FundedFrame DEF Untouched
  <1>7. FundedOf(o)'
    <2>1. FundedOf(o)
      BY DEF FundedInv
    <2>2. order'[o].method \in {"COD", "VNPAY"}
      BY <1>1, <1>3, <2>1 DEF FundedOf
    <2>3. \A m \in Tries : attempt'[o][m].consumed =>
             attempt'[o][m].status = "PAID" /\ order'[o].method = "VNPAY"
      BY <1>3, <1>4, <2>1 DEF FundedOf
    <2>4. order'[o].status \notin Fulfilment
      BY <1>3 DEF Fulfilment
    <2>5. QED
      BY <2>2, <2>3, <2>4 DEF FundedOf
  <1>8. QED
    BY <1>6, <1>7

LEMMA FulfilmentStepFunded ==
    ASSUME IInv, FundedInv, NEW o \in Orders, AdminTransition(o) \/ ConfirmReceived(o)
    PROVE  FundedInv'
  <1> USE DEF IInv, FundedInv
  <1>1. UNCHANGED <<attempt, moves, outcome, cart>>
    BY DEF AdminTransition, ConfirmReceived
  <1>2. /\ order[o] \in OrderRow
        /\ \A p \in Orders \ {o} : order'[p] = order[p] /\ payment'[p] = payment[p]
    BY DEF AdminTransition, ConfirmReceived, TypeOK
  <1>3. \A p \in Orders \ {o} : FundedOf(p)'
    BY <1>1, <1>2, FundedFrame DEF Untouched
  <1>4. /\ order'[o].method = order[o].method
        /\ order[o].status \in Fulfilment \ {"COMPLETED"}
        /\ order'[o].status \in Fulfilment
    BY DEF AdminTransition, ConfirmReceived, NEXT_STATUS, TypeOK, OrderRow, Fulfilment
  <1>5. CASE AdminTransition(o)
    <2>1. /\ order'[o].received = order[o].received
          /\ order'[o].status = "COMPLETED" => order[o].received
          /\ payment'[o] = IF /\ order'[o].status = "COMPLETED"
                              /\ order[o].method = "COD"
                              /\ payment[o] = "UNPAID"
                           THEN "PAID" ELSE payment[o]
      BY <1>5 DEF AdminTransition, TypeOK, OrderRow
    <2>2. FundedOf(o) /\ order[o].status # "NONE" /\ order[o].status # "COMPLETED"
      BY <1>4 DEF FundedInv, Fulfilment
    <2>3. \A n \in Tries : attempt'[o][n].consumed =>
             attempt'[o][n].status = "PAID" /\ order'[o].method = "VNPAY"
      BY <1>1, <1>4, <2>2 DEF FundedOf
    <2>4. /\ o \notin cart'
          /\ order'[o].method = "VNPAY" => payment'[o] = "PAID"
          /\ order'[o].status = "COMPLETED" => order'[o].received
      BY <1>1, <1>4, <2>1, <2>2 DEF FundedOf
    <2>5. order'[o].method = "COD" =>
            /\ moves'[<<o, 0>>].returned = 0
            /\ payment'[o] = IF order'[o].status = "COMPLETED" THEN "PAID" ELSE "UNPAID"
      BY <1>1, <1>4, <2>1, <2>2 DEF FundedOf
    <2>6. FundedOf(o)'
      BY <1>4, <2>2, <2>3, <2>4, <2>5 DEF FundedOf
    <2>7. QED
      BY <1>3, <2>6
  <1>6. CASE ConfirmReceived(o)
    <2>1. order'[o].status = "SHIPPING" /\ order[o].status = "SHIPPING" /\ payment' = payment
      BY <1>6 DEF ConfirmReceived, TypeOK, OrderRow
    <2>2. FundedOf(o)'
      BY <1>1, <1>4, <2>1 DEF FundedOf
    <2>3. QED
      BY <1>3, <2>2
  <1>7. QED
    BY <1>5, <1>6

\* Steps that write no order, payment, attempt, movement or cart line.
LEMMA QuietFunded ==
    ASSUME FundedInv, UNCHANGED <<order, payment, attempt, moves, cart>>
    PROVE  FundedInv'
  BY DEF FundedInv, FundedOf

LEMMA FundedStep == IInv /\ FundedInv /\ [Next]_vars => FundedInv'
  <1> SUFFICES ASSUME IInv, FundedInv, [Next]_vars PROVE FundedInv'
    OBVIOUS
  <1>1. ASSUME NEW o \in Orders, OrderStep(o)
        PROVE  FundedInv'
    <2>1. CASE PlaceCod(o) \/ PlaceVnpay(o)
      BY <2>1, PlaceFunded
    <2>2. CASE CustomerCancel(o) \/ AdminCancel(o)
      <3>1. "NONE" \notin CUSTOMER_CANCELLABLE_STATUSES \cup ADMIN_CANCELLABLE_STATUSES
        BY DEF CUSTOMER_CANCELLABLE_STATUSES, ADMIN_CANCELLABLE_STATUSES
      <3>2. QED
        BY <2>2, <3>1, CancelFunded DEF CustomerCancel, AdminCancel
    <2>3. CASE AdminTransition(o) \/ ConfirmReceived(o)
      BY <2>3, FulfilmentStepFunded
    <2>4. QED
      BY <1>1, <2>1, <2>2, <2>3 DEF OrderStep
  <1>2. ASSUME NEW o \in Orders, NEW n \in Tries, AttemptStep(o, n)
        PROVE  FundedInv'
    <2>1. CASE \E d \in Outcomes : ProviderDecides(o, n, d)
      BY <2>1, QuietFunded DEF ProviderDecides
    <2>2. CASE IpnSuccess(o, n) \/ ReturnSuccess(o, n)
      BY <2>2, ApplyFunded DEF IpnSuccess, ReturnSuccess
    <2>3. CASE IpnSuccessNotApplied(o, n)
      BY <2>3, QuietFunded DEF IpnSuccessNotApplied
    <2>4. CASE IpnFailure(o, n) \/ ExpirePayment(o, n)
      BY <2>4, FailFunded DEF IpnFailure, ExpirePayment
    <2>5. QED
      BY <1>2, <2>1, <2>2, <2>3, <2>4 DEF AttemptStep
  <1>3. ASSUME NEW c \in Calls, RetryStep(c)
        PROVE  FundedInv'
    <2>1. CASE RetryCreate(c)
      BY <2>1, RetryCreateFunded
    <2>2. CASE RetryEnd(c) \/ \E o \in Orders : \E k \in Keys \cup {o} : RetryRead(c, o, k)
      BY <2>2, QuietFunded DEF RetryEnd, RetryRead
    <2>3. QED
      BY <1>3, <2>1, <2>2 DEF RetryStep
  <1>4. ASSUME NEW v \in Variants, NEW q, AdjustQuantity(v, q)
        PROVE  FundedInv'
    BY <1>4, QuietFunded DEF AdjustQuantity
  <1>5. CASE UNCHANGED vars
    BY <1>5, QuietFunded DEF vars
  <1>6. QED
    BY <1>1, <1>2, <1>3, <1>4, <1>5 DEF Next

LEMMA FundedAlways == Spec => [](IInv /\ FundedInv)
  <1>1. ASSUME Init, NEW o \in Orders
        PROVE  FundedOf(o)
    <2>1. /\ order[o].status = "NONE"
          /\ \A n \in Tries : ~attempt[o][n].consumed
      BY <1>1 DEF Init, NoOrder, NoAttempt
    <2>2. QED
      BY <2>1 DEF FundedOf, Fulfilment
  <1>2. QED
    <2>1. Init => FundedInv
      BY <1>1 DEF FundedInv
    <2>2. QED
      BY <2>1, FundedStep, Inductive, PTL DEF Spec

\* Which goods of an order are off the shelf, read from its rows.
LEMMA OutstandingOf ==
    ASSUME IInv, NEW o \in Orders, NEW n \in Tries
    PROVE  /\ Outstanding(<<o, n>>) =
                IF ActiveHold(o, n) \/ attempt[o][n].consumed THEN 1 ELSE 0
           /\ attempt[o][n].consumed => attempt[o][n].status # "NONE"
  <1>1. LedgerOf(o) /\ BlankOf(o)
    BY DEF IInv, OrderInv
  <1>2. attempt[o][n].released \in BOOLEAN /\ attempt[o][n].consumed \in BOOLEAN
    BY DEF IInv, TypeOK, AttemptRow
  <1>3. QED
    BY <1>1, <1>2 DEF LedgerOf, BlankOf, Outstanding, ActiveHold

LEMMA OutstandingOfOrder ==
    ASSUME IInv, NEW o \in Orders
    PROVE  /\ order[o].method # "COD" => Outstanding(<<o, 0>>) = 0
           /\ order[o].method = "COD" =>
                Outstanding(<<o, 0>>) = 1 - moves[<<o, 0>>].returned
           /\ moves[<<o, 0>>].returned \in Nat
           /\ moves[<<o, 0>>].returned <= 1
  <1>1. LedgerOf(o)
    BY DEF IInv, OrderInv
  <1>2. moves[<<o, 0>>].returned \in Nat
    BY TriesAssumption DEF IInv, TypeOK, Sources
  <1>3. QED
    BY <1>1, <1>2 DEF LedgerOf, Outstanding

\* In every behaviour, whatever is retried and however requests overlap, the
\* branch works only on orders whose goods are off the shelf exactly once and
\* whose money is certain.
THEOREM FundedCorrect == Spec => []FulfilmentFunded
  <1>1. ASSUME IInv, FundedInv, NEW o \in Orders, order[o].status \in Fulfilment
        PROVE  \E s \in {o} \X (0 .. MaxTries) :
                 /\ Outstanding(s) = 1
                 /\ \A t \in ({o} \X (0 .. MaxTries)) \ {s} : Outstanding(t) = 0
    <2>1. /\ FundedOf(o) /\ PendingOf(o) /\ HoldOf(o) /\ PaidOf(o)
          /\ order[o].method \in {"COD", "VNPAY"}
      BY <1>1 DEF IInv, FundedInv, OrderInv, FundedOf, Fulfilment
    <2>2. \A n \in Tries : ~ActiveHold(o, n)
      BY <1>1, <2>1 DEF HoldOf, PendingOf, Fulfilment
    <2>3. 0 .. MaxTries = {0} \cup Tries
      BY TriesAssumption DEF Tries
    <2>4. CASE order[o].method = "COD"
      <3>1. Outstanding(<<o, 0>>) = 1
        BY <1>1, <2>1, <2>4, OutstandingOfOrder DEF FundedOf
      <3>2. \A n \in Tries : Outstanding(<<o, n>>) = 0
        BY <1>1, <2>1, <2>2, <2>4, OutstandingOf DEF FundedOf
      <3>3. QED
        BY <2>3, <3>1, <3>2
    <2>5. CASE order[o].method = "VNPAY"
      <3>1. PICK n \in Tries : attempt[o][n].status = "PAID"
        BY <1>1, <2>1, <2>5 DEF FundedOf, PaidOf
      <3>2. Outstanding(<<o, n>>) = 1
        BY <1>1, <2>1, <3>1, OutstandingOf DEF PaidOf
      <3>3. Outstanding(<<o, 0>>) = 0
        BY <1>1, <2>5, OutstandingOfOrder
      <3>4. \A m \in Tries \ {n} : Outstanding(<<o, m>>) = 0
        BY <1>1, <2>1, <2>2, <3>1, OutstandingOf DEF FundedOf, PaidOf
      <3>5. QED
        BY <2>3, <3>2, <3>3, <3>4
    <2>6. QED
      BY <2>1, <2>4, <2>5
  <1>2. IInv /\ FundedInv => FulfilmentFunded
    BY <1>1 DEF FulfilmentFunded, FundedInv, FundedOf
  <1>3. QED
    BY <1>2, FundedAlways, PTL

-----------------------------------------------------------------------------
(* What the offer adds.  When clients retry only what an order offers, one   *)
(* request at a time, a COD order never has an attempt, a request in flight  *)
(* is for a VNPAY order that nobody can pay before it ends, and the goods of *)
(* an order are consumed only where the branch works on it.                  *)

OneOffer == OfferedOnly /\ \A c, d \in Calls : c = d

OfferOf(o) ==
    /\ order[o].method = "COD" =>
         /\ \A n \in Tries : attempt[o][n].status = "NONE"
         /\ \/ order[o].status \in Fulfilment /\ order[o].deducted /\ ~order[o].restored
            \/ order[o].status = "CANCELLED" /\ moves[<<o, 0>>].returned = 1
    /\ \A n \in Tries : attempt[o][n].consumed => order[o].status \in Fulfilment

CallOffer ==
    \A c \in Calls : call[c] # NoCall =>
        /\ order[call[c].order].method = "VNPAY"
        /\ order[call[c].order].status \in {"PAYMENT_FAILED", "CANCELLED"}

OfferInv == CallOffer /\ \A o \in Orders : OfferOf(o)

LEMMA OfferFrame ==
    ASSUME NEW p \in Orders, OfferOf(p), Untouched(p)
    PROVE  OfferOf(p)'
  <1>1. moves'[<<p, 0>>] = moves[<<p, 0>>]
    BY TriesAssumption DEF Untouched
  <1>2. QED
    BY <1>1 DEF OfferOf, Untouched

\* A step that opens no request keeps the requests there are retryable, when it
\* leaves the method of a failed or cancelled VNPAY order alone and the order
\* failed or cancelled.
LEMMA CallOfferKept ==
    ASSUME TypeOK, CallOffer,
           \A c \in Calls : call'[c] = call[c] \/ call'[c] = NoCall,
           NEW o \in Orders, \A p \in Orders \ {o} : order'[p] = order[p],
           order[o].method = "VNPAY" /\ order[o].status \in {"PAYMENT_FAILED", "CANCELLED"}
             => /\ order'[o].method = "VNPAY"
                /\ order'[o].status \in {"PAYMENT_FAILED", "CANCELLED"}
    PROVE  CallOffer'
  <1>1. \A c \in Calls : call[c] # NoCall => call[c].order \in Orders
    BY DEF TypeOK
  <1>2. QED
    BY <1>1 DEF CallOffer

LEMMA PlaceOffer ==
    ASSUME IInv, FundedInv, OfferInv, NEW o \in Orders, PlaceCod(o) \/ PlaceVnpay(o)
    PROVE  OfferInv'
  <1> USE DEF IInv, OfferInv
  <1>1. /\ TypeOK /\ 0 \in 0 .. MaxTries /\ 1 \in 0 .. MaxTries /\ 1 \in Tries
        /\ order[o].status = "NONE"
        /\ \A n \in Tries : ~attempt[o][n].consumed /\ attempt[o][n].status = "NONE"
    BY TriesAssumption DEF Tries, PlaceCod, PlaceVnpay, OrderInv, BlankOf
  <1>2. /\ call' = call /\ outcome' = outcome
        /\ \A p \in Orders \ {o} : /\ order'[p] = order[p] /\ payment'[p] = payment[p]
                                   /\ attempt'[p] = attempt[p]
    BY DEF PlaceCod, PlaceVnpay, TypeOK
  <1>3. CallOffer'
    BY <1>1, <1>2, CallOfferKept
  <1>4. CASE PlaceCod(o)
    <2>1. /\ order'[o].method = "COD" /\ order'[o].status = "PENDING"
          /\ order'[o].deducted /\ ~order'[o].restored /\ attempt' = attempt
      BY <1>4 DEF PlaceCod, TypeOK, NoOrder
    <2>2. \A p \in Orders \ {o}, m \in 0 .. MaxTries : moves'[<<p, m>>] = moves[<<p, m>>]
      BY <1>1, <1>4, DeductMoves DEF PlaceCod
    <2>3. \A p \in Orders \ {o} : OfferOf(p)'
      BY <1>2, <2>2, OfferFrame DEF Untouched
    <2>4. OfferOf(o)'
      BY <1>1, <2>1 DEF OfferOf, Fulfilment
    <2>5. QED
      BY <1>3, <2>3, <2>4
  <1>5. CASE PlaceVnpay(o)
    <2>1. /\ order'[o].method = "VNPAY"
          /\ \A n \in Tries : ~attempt'[o][n].consumed
      BY <1>1, <1>5 DEF PlaceVnpay, TypeOK, NoOrder, NewAttempt, NoAttempt
    <2>2. \A p \in Orders \ {o}, m \in 0 .. MaxTries : moves'[<<p, m>>] = moves[<<p, m>>]
      BY <1>1, <1>5, DeductMoves DEF PlaceVnpay
    <2>3. \A p \in Orders \ {o} : OfferOf(p)'
      BY <1>2, <2>2, OfferFrame DEF Untouched
    <2>4. OfferOf(o)'
      BY <2>1 DEF OfferOf
    <2>5. QED
      BY <1>3, <2>3, <2>4
  <1>6. QED
    BY <1>4, <1>5

LEMMA ApplyOffer ==
    ASSUME IInv, FundedInv, OfferInv, NEW o \in Orders, NEW n \in Tries,
           Reported(o, n, "success"), ApplySuccessfulVnpayTransaction(o, n)
    PROVE  OfferInv'
  <1> USE DEF IInv, OfferInv
  <1>1. /\ order'[o].method = "VNPAY" /\ order'[o].status = "PENDING"
        /\ order[o].status = "PENDING_PAYMENT"
        /\ outcome' = outcome /\ moves' = moves /\ call' = call
        /\ \A p \in Orders \ {o} : /\ order'[p] = order[p]
                                   /\ payment'[p] = payment[p]
                                   /\ attempt'[p] = attempt[p]
    BY DEF ApplySuccessfulVnpayTransaction, MayApply, Reported, TypeOK, OrderRow
  <1>2. \A p \in Orders \ {o} : OfferOf(p)'
    BY <1>1, OfferFrame DEF Untouched
  <1>3. OfferOf(o)'
    BY <1>1 DEF OfferOf, Fulfilment
  <1>4. CallOffer'
    BY <1>1, CallOfferKept
  <1>5. QED
    BY <1>2, <1>3, <1>4

LEMMA FailOffer ==
    ASSUME IInv, FundedInv, OfferInv, NEW o \in Orders, NEW n \in Tries,
           attempt[o][n].status = "PENDING", NEW a, NEW q, FailPayment(o, n, a, q)
    PROVE  OfferInv'
  <1> USE DEF IInv, OfferInv
  <1>1. /\ order'[o].method = order[o].method /\ order'[o].status = "PAYMENT_FAILED"
        /\ outcome' = outcome /\ call' = call
        /\ \A p \in Orders \ {o} : /\ order'[p] = order[p]
                                   /\ payment'[p] = payment[p]
                                   /\ attempt'[p] = attempt[p]
    BY DEF FailPayment, TypeOK, OrderRow
  <1>2. \A m \in Tries : attempt'[o][m].consumed = attempt[o][m].consumed
    BY DEF FailPayment, TypeOK, AttemptRow
  <1>3. \A p \in Orders \ {o}, m \in 0 .. MaxTries : moves'[<<p, m>>] = moves[<<p, m>>]
    <2>1. CASE RestoreStock(o, n)
      BY <2>1, RestoreMoves, TriesInRange
    <2>2. CASE UNCHANGED moves
      BY <2>2
    <2>3. QED
      BY <2>1, <2>2 DEF FailPayment, ReleaseReservedStock
  <1>4. \A p \in Orders \ {o} : OfferOf(p)'
    BY <1>1, <1>3, OfferFrame DEF Untouched
  <1>5. OfferOf(o) /\ PendingOf(o)
    BY DEF OrderInv
  <1>6. order[o].method # "COD" /\ order[o].status \notin Fulfilment
    BY <1>5 DEF OfferOf, PendingOf, Fulfilment
  <1>7. OfferOf(o)'
    BY <1>1, <1>2, <1>5, <1>6 DEF OfferOf
  <1>8. CallOffer'
    BY <1>1, CallOfferKept
  <1>9. QED
    BY <1>4, <1>7, <1>8

LEMMA CancelOffer ==
    ASSUME IInv, FundedInv, OfferInv, NEW o \in Orders, NEW A,
           {"CANCELLED", "NONE"} \cap A = {}, CancelOrderInTransaction(o, A)
    PROVE  OfferInv'
  <1> USE DEF IInv, OfferInv
  <1>1. /\ order'[o].method = order[o].method /\ order'[o].status = "CANCELLED"
        /\ order[o].status \notin {"NONE", "CANCELLED"}
        /\ ~(order[o].method = "VNPAY" /\ payment[o] = "PAID")
        /\ outcome' = outcome /\ call' = call
        /\ \A p \in Orders \ {o} : order'[p] = order[p] /\ payment'[p] = payment[p]
    BY DEF CancelOrderInTransaction, TypeOK, OrderRow
  <1>2. /\ \A m \in Tries : /\ attempt'[o][m].status = attempt[o][m].status
                            /\ attempt'[o][m].consumed = attempt[o][m].consumed
        /\ \A p \in Orders \ {o} : attempt'[p] = attempt[p]
    <2>1. ASSUME NEW n \in Tries, attempt' = [attempt EXCEPT ![o][n].released = TRUE]
          PROVE  <1>2
      BY <2>1 DEF TypeOK, AttemptRow
    <2>2. QED
      BY <2>1 DEF CancelOrderInTransaction
  <1>3. TypeOK /\ 0 \in 0 .. MaxTries
    BY TriesAssumption
  <1>4. \A p \in Orders \ {o}, m \in 0 .. MaxTries : moves'[<<p, m>>] = moves[<<p, m>>]
    <2>1. ASSUME NEW n \in 0 .. MaxTries, RestoreStock(o, n)
          PROVE  <1>4
      BY <2>1, RestoreMoves
    <2>2. CASE UNCHANGED moves
      BY <2>2
    <2>3. \/ \E n \in 0 .. MaxTries : RestoreStock(o, n)
          \/ UNCHANGED moves
      BY <1>3, TriesInRange DEF CancelOrderInTransaction
    <2>4. QED
      BY <2>1, <2>2, <2>3
  <1>5. \A p \in Orders \ {o} : OfferOf(p)'
    BY <1>1, <1>2, <1>4, OfferFrame DEF Untouched
  <1>6. OfferOf(o) /\ FundedOf(o) /\ order[o].method \in {"COD", "VNPAY"}
    BY <1>1 DEF FundedInv, FundedOf
  <1>7. CASE order[o].method = "COD"
    <2>1. /\ \A n \in Tries : attempt[o][n].status = "NONE"
          /\ order[o].status \in Fulfilment /\ order[o].deducted /\ ~order[o].restored
      BY <1>1, <1>6, <1>7 DEF OfferOf
    <2>2. CodStockOut(o) /\ NoActiveHold(o) /\ \A n \in Tries : ~HoldToRelease(o, n)
      BY <1>7, <2>1 DEF CodStockOut, NoActiveHold, ActiveHold, HoldToRelease
    <2>3. RestoreStock(o, 0)
      BY <2>2 DEF CancelOrderInTransaction
    <2>4. moves[<<o, 0>>].returned = 0
      BY <1>6, <1>7, <2>1 DEF FundedOf
    <2>5. moves'[<<o, 0>>].returned = 1
      <3>1. moves'[<<o, 0>>].returned = moves[<<o, 0>>].returned + 1
        BY <1>3, <2>3, RestoreMoves
      <3>2. QED
        BY <2>4, <3>1
    <2>6. \A n \in Tries : ~attempt'[o][n].consumed
      BY <1>2, <2>1 DEF OrderInv, BlankOf
    <2>7. QED
      BY <1>1, <1>2, <1>5, <2>1, <2>5, <2>6, CallOfferKept DEF OfferOf
  <1>8. CASE order[o].method = "VNPAY"
    <2>1. \A n \in Tries : ~attempt[o][n].consumed
      BY <1>1, <1>6, <1>8 DEF OfferOf, FundedOf
    <2>2. OfferOf(o)'
      BY <1>1, <1>2, <1>8, <2>1 DEF OfferOf
    <2>3. CallOffer'
      BY <1>1, CallOfferKept
    <2>4. QED
      BY <1>5, <2>2, <2>3
  <1>9. QED
    BY <1>6, <1>7, <1>8

LEMMA RetryCreateOffer ==
    ASSUME OneOffer, IInv, FundedInv, OfferInv, NEW c \in Calls, RetryCreate(c)
    PROVE  OfferInv'
  <1> USE DEF IInv, OfferInv
  <1>1. PICK o \in Orders :
          /\ o = call[c].order
          /\ order[o].method = "VNPAY"
          /\ order[o].status \in {"PAYMENT_FAILED", "CANCELLED"}
    <2>1. call[c] \in [order : Orders, key : Keys \cup Orders]
      BY DEF RetryCreate, TypeOK
    <2>2. QED
      BY <2>1 DEF RetryCreate, CallOffer
  <1>2. PICK n \in Tries :
          /\ DeductStock(o, n)
          /\ attempt' = [attempt EXCEPT ![o][n] = NewAttempt(call[c].key)]
    BY <1>1 DEF RetryCreate
  <1>3. /\ order'[o].method = "VNPAY" /\ order'[o].status = "PENDING_PAYMENT"
        /\ outcome' = outcome
        /\ \A p \in Orders \ {o} : order'[p] = order[p] /\ payment'[p] = payment[p]
    BY <1>1 DEF RetryCreate, TypeOK, OrderRow
  <1>4. /\ ~attempt'[o][n].consumed
        /\ \A m \in Tries \ {n} : attempt'[o][m] = attempt[o][m]
        /\ \A p \in Orders \ {o} : attempt'[p] = attempt[p]
    BY <1>1, <1>2 DEF TypeOK, NewAttempt, NoAttempt
  <1>5. \A p \in Orders \ {o}, m \in 0 .. MaxTries : moves'[<<p, m>>] = moves[<<p, m>>]
    BY <1>2, DeductMoves, TriesInRange
  <1>6. \A p \in Orders \ {o} : OfferOf(p)'
    BY <1>3, <1>4, <1>5, OfferFrame DEF Untouched
  <1>7. \A m \in Tries : ~attempt[o][m].consumed
    BY <1>1 DEF OfferOf, Fulfilment
  <1>8. OfferOf(o)'
    BY <1>3, <1>4, <1>7 DEF OfferOf
  <1>9. \A d \in Calls : call'[d] = NoCall
    BY DEF RetryCreate, TypeOK, OneOffer
  <1>10. QED
    BY <1>6, <1>8, <1>9 DEF CallOffer

LEMMA RetryReadOffer ==
    ASSUME OneOffer, IInv, FundedInv, OfferInv, NEW c \in Calls, NEW o \in Orders, NEW k,
           RetryRead(c, o, k)
    PROVE  OfferInv'
  <1> USE DEF IInv, OfferInv
  <1>1. UNCHANGED <<order, payment, attempt, moves, outcome>>
    BY DEF RetryRead
  <1>2. \A p \in Orders : OfferOf(p)'
    BY <1>1 DEF OfferOf
  <1>3. order[o].method = "VNPAY" /\ order[o].status = "PAYMENT_FAILED"
    BY DEF RetryRead, OneOffer, RetryOffered
  <1>4. \A d \in Calls : call'[d].order = o
    BY DEF RetryRead, TypeOK, OneOffer
  <1>5. QED
    BY <1>1, <1>2, <1>3, <1>4 DEF CallOffer

LEMMA FulfilmentStepOffer ==
    ASSUME IInv, FundedInv, OfferInv, NEW o \in Orders, AdminTransition(o) \/ ConfirmReceived(o)
    PROVE  OfferInv'
  <1> USE DEF IInv, OfferInv
  <1>1. UNCHANGED <<attempt, moves, outcome, call>>
    BY DEF AdminTransition, ConfirmReceived
  <1>2. \A p \in Orders \ {o} : order'[p] = order[p] /\ payment'[p] = payment[p]
    BY DEF AdminTransition, ConfirmReceived, TypeOK
  <1>3. \A p \in Orders \ {o} : OfferOf(p)'
    BY <1>1, <1>2, OfferFrame DEF Untouched
  <1>4. /\ order'[o].method = order[o].method
        /\ order'[o].deducted = order[o].deducted
        /\ order'[o].restored = order[o].restored
        /\ order[o].status \in Fulfilment
        /\ order'[o].status \in Fulfilment
    BY DEF AdminTransition, ConfirmReceived, NEXT_STATUS, TypeOK, OrderRow, Fulfilment
  <1>5. OfferOf(o)'
    BY <1>1, <1>4 DEF OfferOf, Fulfilment
  <1>6. CallOffer'
    BY <1>1, <1>2, <1>4, CallOfferKept DEF Fulfilment
  <1>7. QED
    BY <1>3, <1>5, <1>6

LEMMA QuietOffer ==
    ASSUME OfferInv, IInv, UNCHANGED <<order, payment, attempt, moves>>,
           \A c \in Calls : call'[c] = call[c] \/ call'[c] = NoCall
    PROVE  OfferInv'
  BY DEF OfferInv, OfferOf, CallOffer

LEMMA OfferStep ==
    ASSUME OneOffer
    PROVE  IInv /\ FundedInv /\ OfferInv /\ [Next]_vars => OfferInv'
  <1> SUFFICES ASSUME IInv, FundedInv, OfferInv, [Next]_vars PROVE OfferInv'
    OBVIOUS
  <1>1. ASSUME NEW o \in Orders, OrderStep(o)
        PROVE  OfferInv'
    <2>1. CASE PlaceCod(o) \/ PlaceVnpay(o)
      BY <2>1, PlaceOffer
    <2>2. CASE CustomerCancel(o) \/ AdminCancel(o)
      <3>1. /\ {"CANCELLED", "NONE"} \cap CUSTOMER_CANCELLABLE_STATUSES = {}
            /\ {"CANCELLED", "NONE"} \cap ADMIN_CANCELLABLE_STATUSES = {}
        BY DEF CUSTOMER_CANCELLABLE_STATUSES, ADMIN_CANCELLABLE_STATUSES
      <3>2. QED
        BY <2>2, <3>1, CancelOffer DEF CustomerCancel, AdminCancel
    <2>3. CASE AdminTransition(o) \/ ConfirmReceived(o)
      BY <2>3, FulfilmentStepOffer
    <2>4. QED
      BY <1>1, <2>1, <2>2, <2>3 DEF OrderStep
  <1>2. ASSUME NEW o \in Orders, NEW n \in Tries, AttemptStep(o, n)
        PROVE  OfferInv'
    <2>1. CASE \E d \in Outcomes : ProviderDecides(o, n, d)
      BY <2>1, QuietOffer DEF ProviderDecides
    <2>2. CASE IpnSuccess(o, n) \/ ReturnSuccess(o, n)
      BY <2>2, ApplyOffer DEF IpnSuccess, ReturnSuccess
    <2>3. CASE IpnSuccessNotApplied(o, n)
      BY <2>3, QuietOffer DEF IpnSuccessNotApplied
    <2>4. CASE IpnFailure(o, n) \/ ExpirePayment(o, n)
      BY <2>4, FailOffer DEF IpnFailure, ExpirePayment
    <2>5. QED
      BY <1>2, <2>1, <2>2, <2>3, <2>4 DEF AttemptStep
  <1>3. ASSUME NEW c \in Calls, RetryStep(c)
        PROVE  OfferInv'
    <2>1. CASE RetryCreate(c)
      BY <2>1, RetryCreateOffer
    <2>2. CASE RetryEnd(c)
      <3>1. \A d \in Calls : call'[d] = call[d] \/ call'[d] = NoCall
        BY <2>2 DEF RetryEnd, IInv, TypeOK
      <3>2. QED
        BY <2>2, <3>1, QuietOffer DEF RetryEnd
    <2>3. CASE \E o \in Orders : \E k \in Keys \cup {o} : RetryRead(c, o, k)
      BY <2>3, RetryReadOffer
    <2>4. QED
      BY <1>3, <2>1, <2>2, <2>3 DEF RetryStep
  <1>4. ASSUME NEW v \in Variants, NEW q, AdjustQuantity(v, q)
        PROVE  OfferInv'
    BY <1>4, QuietOffer DEF AdjustQuantity
  <1>5. CASE UNCHANGED vars
    BY <1>5, QuietOffer DEF vars
  <1>6. QED
    BY <1>1, <1>2, <1>3, <1>4, <1>5 DEF Next

LEMMA OfferAlways ==
    ASSUME OneOffer
    PROVE  Spec => [](IInv /\ FundedInv /\ OfferInv)
  <1>1. ASSUME Init PROVE OfferInv
    <2>1. ASSUME NEW o \in Orders
          PROVE  order[o].method = "NONE" /\ \A n \in Tries : ~attempt[o][n].consumed
      BY <1>1 DEF Init, NoOrder, NoAttempt
    <2>2. \A c \in Calls : call[c] = NoCall
      BY <1>1 DEF Init
    <2>3. QED
      BY <2>1, <2>2 DEF OfferInv, OfferOf, CallOffer
  <1>2. IInv /\ FundedInv /\ OfferInv /\ [Next]_vars => OfferInv'
    BY OfferStep
  <1>3. QED
    BY <1>1, <1>2, FundedAlways, PTL DEF Spec

\* In every behaviour in which clients retry only what is offered, one request
\* at a time, no order has its goods taken off the shelf twice at once.
THEOREM NoDuplicateDeductionCorrect ==
    ASSUME OfferedOnly, \A c, d \in Calls : c = d
    PROVE  Spec => []NoDuplicateDeduction
  <1>1. OneOffer
    BY DEF OneOffer
  <1>2. ASSUME IInv, FundedInv, OfferInv, NEW o \in Orders,
               NEW m \in 0 .. MaxTries, NEW n \in 0 .. MaxTries,
               Outstanding(<<o, m>>) >= 1, Outstanding(<<o, n>>) >= 1
        PROVE  m = n /\ Outstanding(<<o, m>>) = 1
    <2>1. 0 .. MaxTries = {0} \cup Tries /\ 0 \notin Tries
      BY TriesAssumption DEF Tries
    <2>2. /\ OfferOf(o) /\ PendingOf(o) /\ HoldOf(o) /\ PaidOf(o)
          /\ FundedOf(o) /\ BlankOf(o)
      BY <1>2 DEF IInv, OfferInv, FundedInv, OrderInv
    <2>3. CASE order[o].method = "COD"
      <3>1. \A t \in Tries : Outstanding(<<o, t>>) = 0
        BY <1>2, <2>2, <2>3, OutstandingOf DEF OfferOf, BlankOf, ActiveHold
      <3>2. Outstanding(<<o, 0>>) = 1 - moves[<<o, 0>>].returned
            /\ moves[<<o, 0>>].returned \in Nat
        BY <1>2, <2>3, OutstandingOfOrder
      <3>3. QED
        BY <1>2, <2>1, <3>1, <3>2
    <2>4. CASE order[o].method # "COD"
      <3>1. Outstanding(<<o, 0>>) = 0
        BY <1>2, <2>4, OutstandingOfOrder
      <3>2. m \in Tries /\ n \in Tries
        BY <1>2, <2>1, <3>1
      <3>3. /\ ActiveHold(o, m) \/ attempt[o][m].consumed
            /\ ActiveHold(o, n) \/ attempt[o][n].consumed
            /\ Outstanding(<<o, m>>) = 1
        BY <1>2, <3>2, OutstandingOf
      <3>4. CASE attempt[o][m].consumed /\ attempt[o][n].consumed
        BY <2>2, <3>2, <3>3, <3>4 DEF FundedOf, PaidOf
      <3>5. CASE ActiveHold(o, m) /\ ActiveHold(o, n)
        BY <2>2, <3>2, <3>3, <3>5 DEF HoldOf, PendingOf
      <3>6. CASE \/ ActiveHold(o, m) /\ attempt[o][n].consumed
                 \/ ActiveHold(o, n) /\ attempt[o][m].consumed
        <4>1. order[o].status \in Fulfilment
          BY <2>2, <3>2, <3>6 DEF OfferOf
        <4>2. \E t \in Tries : attempt[o][t].status = "PENDING"
          BY <2>2, <3>2, <3>6 DEF HoldOf
        <4>3. QED
          BY <2>2, <4>1, <4>2 DEF PendingOf, Fulfilment
      <3>7. QED
        BY <3>3, <3>4, <3>5, <3>6
    <2>5. QED
      BY <2>3, <2>4
  <1>3. IInv /\ FundedInv /\ OfferInv => NoDuplicateDeduction
    BY <1>2 DEF NoDuplicateDeduction
  <1>4. Spec => [](IInv /\ FundedInv /\ OfferInv)
    BY <1>1, OfferAlways
  <1>5. QED
    BY <1>3, <1>4, PTL

\* In the same behaviours a cancelled order has given back all it took.
THEOREM CancelReturnsStockCorrect ==
    ASSUME OfferedOnly, \A c, d \in Calls : c = d
    PROVE  Spec => []CancelReturnsStock
  <1>1. OneOffer
    BY DEF OneOffer
  <1>2. ASSUME IInv, FundedInv, OfferInv, NEW o \in Orders, order[o].status = "CANCELLED",
               NEW n \in 0 .. MaxTries
        PROVE  Outstanding(<<o, n>>) = 0
    <2>1. n = 0 \/ n \in Tries
      BY TriesAssumption DEF Tries
    <2>2. OfferOf(o) /\ PendingOf(o) /\ HoldOf(o)
      BY <1>2 DEF IInv, OfferInv, OrderInv
    <2>3. Outstanding(<<o, 0>>) = 0
      BY <1>2, <2>2, OutstandingOfOrder DEF OfferOf, Fulfilment
    <2>4. ASSUME n \in Tries
          PROVE  ~ActiveHold(o, n) /\ ~attempt[o][n].consumed
      BY <1>2, <2>2, <2>4 DEF OfferOf, PendingOf, HoldOf, ActiveHold, Fulfilment
    <2>5. QED
      BY <1>2, <2>1, <2>3, <2>4, OutstandingOf
  <1>3. IInv /\ FundedInv /\ OfferInv => CancelReturnsStock
    BY <1>2 DEF CancelReturnsStock
  <1>4. Spec => [](IInv /\ FundedInv /\ OfferInv)
    BY <1>1, OfferAlways
  <1>5. QED
    BY <1>3, <1>4, PTL

-----------------------------------------------------------------------------
(* The promise to the warehouse.  A source's hold is read from its movements *)
(* and, for an attempt, from its consumed flag; every handler changes it for *)
(* at most one source.                                                       *)

Consumed(p, m) == m \in Tries /\ attempt[p][m].consumed

HoldRead(p, m) ==
    holdOf[<<p, m>>] = IF moves[<<p, m>>].taken = 0 THEN "none"
                       ELSE IF moves[<<p, m>>].returned > 0 THEN "returned"
                       ELSE IF Consumed(p, m) THEN "sold"
                       ELSE "taken"

LEMMA HoldReading ==
    ASSUME NEW p \in Orders, NEW m \in 0 .. MaxTries
    PROVE  HoldRead(p, m) /\ HoldRead(p, m)'
  <1>1. <<p, m>> \in Sources
    BY DEF Sources
  <1>2. HoldRead(p, m)
    BY <1>1 DEF HoldRead, holdOf, Consumed
  <1>3. HoldRead(p, m)'
    BY <1>1 DEF HoldRead, holdOf, Consumed
  <1>4. QED
    BY <1>2, <1>3

LEMMA HoldIsTable ==
    /\ holdOf = [s \in Sources |-> holdOf[s]]
    /\ holdOf' = [s \in Sources |-> holdOf'[s]]
  BY DEF holdOf

\* A step that changes the hold of one source only.
LEMMA HoldWritten ==
    ASSUME NEW o \in Orders, NEW n \in 0 .. MaxTries, NEW h,
           holdOf'[<<o, n>>] = h,
           \A p \in Orders, m \in 0 .. MaxTries :
             p # o \/ m # n => holdOf'[<<p, m>>] = holdOf[<<p, m>>]
    PROVE  holdOf' = [holdOf EXCEPT ![<<o, n>>] = h]
  <1>1. <<o, n>> \in Sources
    BY DEF Sources
  <1>2. \A s \in Sources : holdOf'[s] = IF s = <<o, n>> THEN h ELSE holdOf[s]
    BY DEF Sources
  <1>3. QED
    BY <1>1, <1>2, HoldIsTable

\* No other source's row is written.
OthersKept(o, n) ==
    \A p \in Orders, m \in 0 .. MaxTries : p # o \/ m # n =>
        /\ moves'[<<p, m>>] = moves[<<p, m>>]
        /\ Consumed(p, m)' = Consumed(p, m)

LEMMA OthersHold ==
    ASSUME NEW o, NEW n, OthersKept(o, n)
    PROVE  \A p \in Orders, m \in 0 .. MaxTries :
             p # o \/ m # n => holdOf'[<<p, m>>] = holdOf[<<p, m>>]
  BY HoldReading DEF OthersKept, HoldRead

LEMMA TakeHold ==
    ASSUME TypeOK, NEW o \in Orders, NEW n \in 0 .. MaxTries, DeductStock(o, n),
           moves[<<o, n>>].taken = 0, moves[<<o, n>>].returned = 0,
           ~Consumed(o, n)', OthersKept(o, n)
    PROVE  Holds!Take(<<o, n>>)
  <1>1. /\ moves'[<<o, n>>].taken = 1
        /\ moves'[<<o, n>>].returned = 0
    <2>1. /\ moves'[<<o, n>>].taken = moves[<<o, n>>].taken + 1
          /\ moves'[<<o, n>>].returned = moves[<<o, n>>].returned
      BY DeductMoves
    <2>2. QED
      BY <2>1
  <1>2. holdOf[<<o, n>>] = "none" /\ holdOf'[<<o, n>>] = "taken"
    BY <1>1, HoldReading DEF HoldRead
  <1>3. holdOf' = [holdOf EXCEPT ![<<o, n>>] = "taken"]
    BY <1>2, OthersHold, HoldWritten
  <1>4. NeedOf[<<o, n>>] = Demand[o]
    BY DEF NeedOf, Sources
  <1>5. QED
    BY <1>2, <1>3, <1>4 DEF Holds!Take, DeductStock

LEMMA GiveBackHold ==
    ASSUME TypeOK, NEW o \in Orders, NEW n \in 0 .. MaxTries, RestoreStock(o, n),
           moves[<<o, n>>].taken = 1, moves[<<o, n>>].returned = 0,
           ~Consumed(o, n), OthersKept(o, n)
    PROVE  Holds!GiveBack(<<o, n>>)
  <1>1. /\ moves'[<<o, n>>].taken = 1
        /\ moves'[<<o, n>>].returned = 1
    <2>1. /\ moves'[<<o, n>>].taken = moves[<<o, n>>].taken
          /\ moves'[<<o, n>>].returned = moves[<<o, n>>].returned + 1
      BY RestoreMoves
    <2>2. QED
      BY <2>1
  <1>2. holdOf[<<o, n>>] = "taken" /\ holdOf'[<<o, n>>] = "returned"
    BY <1>1, HoldReading DEF HoldRead
  <1>3. holdOf' = [holdOf EXCEPT ![<<o, n>>] = "returned"]
    BY <1>2, OthersHold, HoldWritten
  <1>4. NeedOf[<<o, n>>] = Demand[o]
    BY DEF NeedOf, Sources
  <1>5. QED
    BY <1>2, <1>3, <1>4 DEF Holds!GiveBack, RestoreStock

LEMMA SellHold ==
    ASSUME TypeOK, NEW o \in Orders, NEW n \in Tries, moves' = moves, stock' = stock,
           moves[<<o, n>>].taken = 1, moves[<<o, n>>].returned = 0,
           ~Consumed(o, n), Consumed(o, n)', OthersKept(o, n)
    PROVE  Holds!Sell(<<o, n>>)
  <1>1. n \in 0 .. MaxTries
    BY TriesInRange
  <1>2. holdOf[<<o, n>>] = "taken" /\ holdOf'[<<o, n>>] = "sold"
    BY <1>1, HoldReading DEF HoldRead
  <1>3. holdOf' = [holdOf EXCEPT ![<<o, n>>] = "sold"]
    BY <1>1, <1>2, OthersHold, HoldWritten
  <1>4. QED
    BY <1>2, <1>3 DEF Holds!Sell

\* A step that moves nothing and consumes nothing.
LEMMA KeepHold ==
    ASSUME moves' = moves,
           \A p \in Orders, m \in Tries : attempt'[p][m].consumed = attempt[p][m].consumed
    PROVE  holdOf' = holdOf
  <1>1. \A p \in Orders, m \in 0 .. MaxTries : holdOf'[<<p, m>>] = holdOf[<<p, m>>]
    BY HoldReading DEF HoldRead, Consumed
  <1>2. \A s \in Sources : holdOf'[s] = holdOf[s]
    BY <1>1 DEF Sources
  <1>3. QED
    BY <1>2, HoldIsTable

\* One step of the warehouse's specification, or none.
HoldStep == Holds!Next \/ UNCHANGED <<stock, holdOf>>

LEMMA SourceSteps ==
    ASSUME NEW o \in Orders, NEW n \in 0 .. MaxTries,
           Holds!Take(<<o, n>>) \/ Holds!Sell(<<o, n>>) \/ Holds!GiveBack(<<o, n>>)
    PROVE  HoldStep
  BY DEF HoldStep, Holds!Next, Sources

LEMMA PlaceHold ==
    ASSUME IInv, NEW o \in Orders, PlaceCod(o) \/ PlaceVnpay(o)
    PROVE  HoldStep
  <1> USE DEF IInv
  <1>1. /\ TypeOK /\ 0 \in 0 .. MaxTries /\ 1 \in 0 .. MaxTries /\ 1 \in Tries /\ 0 \notin Tries
        /\ order[o].method = "NONE"
        /\ \A n \in Tries : attempt[o][n].status = "NONE" /\ ~attempt[o][n].released
    BY TriesAssumption DEF Tries, PlaceCod, PlaceVnpay, OrderInv, BlankOf
  <1>2. /\ moves[<<o, 0>>].taken = 0 /\ moves[<<o, 0>>].returned = 0
        /\ moves[<<o, 1>>].taken = 0 /\ moves[<<o, 1>>].returned = 0
    <2>1. moves[<<o, 0>>].returned \in Nat /\ LedgerOf(o)
      BY <1>1 DEF TypeOK, Sources, OrderInv
    <2>2. QED
      BY <1>1, <2>1 DEF LedgerOf
  <1>3. CASE PlaceCod(o)
    <2>1. DeductStock(o, 0) /\ attempt' = attempt
      BY <1>3 DEF PlaceCod
    <2>2. OthersKept(o, 0) /\ ~Consumed(o, 0)'
      BY <1>1, <2>1, DeductMoves DEF OthersKept, Consumed
    <2>3. Holds!Take(<<o, 0>>)
      BY <1>1, <1>2, <2>1, <2>2, TakeHold
    <2>4. QED
      BY <1>1, <2>3, SourceSteps
  <1>4. CASE PlaceVnpay(o)
    <2>1. /\ DeductStock(o, 1)
          /\ ~attempt'[o][1].consumed
          /\ \A p \in Orders, m \in Tries : p # o \/ m # 1 => attempt'[p][m] = attempt[p][m]
      BY <1>1, <1>4 DEF PlaceVnpay, TypeOK, NewAttempt, NoAttempt
    <2>2. OthersKept(o, 1) /\ ~Consumed(o, 1)'
      BY <1>1, <2>1, DeductMoves DEF OthersKept, Consumed
    <2>3. Holds!Take(<<o, 1>>)
      BY <1>1, <1>2, <2>1, <2>2, TakeHold
    <2>4. QED
      BY <1>1, <2>3, SourceSteps
  <1>5. QED
    BY <1>3, <1>4

LEMMA ApplyHold ==
    ASSUME IInv, NEW o \in Orders, NEW n \in Tries, ApplySuccessfulVnpayTransaction(o, n)
    PROVE  HoldStep
  <1> USE DEF IInv
  <1>1. TypeOK /\ n \in 0 .. MaxTries
    BY TriesInRange
  <1>2. /\ stock' = stock /\ moves' = moves
        /\ attempt[o][n].status # "NONE"
        /\ ~attempt[o][n].released /\ ~attempt[o][n].consumed
        /\ attempt'[o][n].consumed
        /\ \A p \in Orders, m \in Tries : p # o \/ m # n => attempt'[p][m] = attempt[p][m]
    BY DEF ApplySuccessfulVnpayTransaction, MayApply, ActiveHold, TypeOK, AttemptRow
  <1>3. moves[<<o, n>>].taken = 1 /\ moves[<<o, n>>].returned = 0
    BY <1>2 DEF OrderInv, LedgerOf
  <1>4. OthersKept(o, n) /\ ~Consumed(o, n) /\ Consumed(o, n)'
    BY <1>2 DEF OthersKept, Consumed
  <1>5. Holds!Sell(<<o, n>>)
    BY <1>1, <1>2, <1>3, <1>4, SellHold
  <1>6. QED
    BY <1>1, <1>5, SourceSteps

\* The release of an attempt that holds stock.
LEMMA ReleaseHold ==
    ASSUME IInv, NEW o \in Orders, NEW n \in Tries, ActiveHold(o, n), RestoreStock(o, n),
           \A p \in Orders, m \in Tries : attempt'[p][m].consumed = attempt[p][m].consumed
    PROVE  HoldStep
  <1> USE DEF IInv
  <1>1. TypeOK /\ n \in 0 .. MaxTries
    BY TriesInRange
  <1>2. moves[<<o, n>>].taken = 1 /\ moves[<<o, n>>].returned = 0
    BY DEF OrderInv, LedgerOf, ActiveHold
  <1>3. OthersKept(o, n) /\ ~Consumed(o, n)
    BY <1>1, RestoreMoves DEF OthersKept, Consumed, ActiveHold
  <1>4. Holds!GiveBack(<<o, n>>)
    BY <1>1, <1>2, <1>3, GiveBackHold
  <1>5. QED
    BY <1>1, <1>4, SourceSteps

LEMMA FailHold ==
    ASSUME IInv, NEW o \in Orders, NEW n \in Tries, NEW a, NEW q, FailPayment(o, n, a, q)
    PROVE  HoldStep
  <1>1. \A p \in Orders, m \in Tries : attempt'[p][m].consumed = attempt[p][m].consumed
    BY DEF IInv, FailPayment, TypeOK, AttemptRow
  <1>2. CASE ActiveHold(o, n)
    BY <1>1, <1>2, ReleaseHold DEF FailPayment, ReleaseReservedStock
  <1>3. CASE ~ActiveHold(o, n)
    BY <1>1, <1>3, KeepHold DEF FailPayment, ReleaseReservedStock, HoldStep
  <1>4. QED
    BY <1>2, <1>3

LEMMA CancelHold ==
    ASSUME IInv, NEW o \in Orders, NEW A, CancelOrderInTransaction(o, A)
    PROVE  HoldStep
  <1> USE DEF IInv
  <1>1. TypeOK /\ 0 \in 0 .. MaxTries /\ 0 \notin Tries
    BY TriesAssumption DEF Tries
  <1>2. ASSUME NEW n \in Tries, HoldToRelease(o, n), RestoreStock(o, n),
               attempt' = [attempt EXCEPT ![o][n].released = TRUE]
        PROVE  HoldStep
    <2>1. \A p \in Orders, m \in Tries : attempt'[p][m].consumed = attempt[p][m].consumed
      BY <1>2 DEF TypeOK, AttemptRow
    <2>2. QED
      BY <1>2, <2>1, ReleaseHold DEF HoldToRelease
  <1>3. ASSUME NoActiveHold(o), CodStockOut(o), RestoreStock(o, 0), UNCHANGED attempt
        PROVE  HoldStep
    <2>1. moves[<<o, 0>>].taken = 1 /\ moves[<<o, 0>>].returned = 0
      <3>1. order[o].method = "COD" /\ ~order[o].restored
        BY <1>3 DEF CodStockOut
      <3>2. moves[<<o, 0>>].taken = 1 /\ moves[<<o, 0>>].returned <= 1
        BY <3>1 DEF OrderInv, LedgerOf
      <3>3. moves[<<o, 0>>].returned # 1
        BY <1>3, <3>1 DEF OrderInv, CodReturnOf, HoldOf
      <3>4. moves[<<o, 0>>].returned \in Nat
        BY <1>1 DEF TypeOK, Sources
      <3>5. QED
        BY <3>2, <3>3, <3>4
    <2>2. OthersKept(o, 0) /\ ~Consumed(o, 0)
      BY <1>1, <1>3, RestoreMoves DEF OthersKept, Consumed
    <2>3. Holds!GiveBack(<<o, 0>>)
      BY <1>1, <1>3, <2>1, <2>2, GiveBackHold
    <2>4. QED
      BY <1>1, <2>3, SourceSteps
  <1>4. ASSUME UNCHANGED <<stock, moves, attempt>>
        PROVE  HoldStep
    BY <1>4, KeepHold DEF HoldStep
  <1>5. QED
    BY <1>2, <1>3, <1>4 DEF CancelOrderInTransaction

LEMMA RetryCreateHold ==
    ASSUME IInv, NEW c \in Calls, RetryCreate(c)
    PROVE  HoldStep
  <1> USE DEF IInv
  <1>1. PICK o \in Orders : o = call[c].order
    <2>1. call[c] \in [order : Orders, key : Keys \cup Orders]
      BY DEF RetryCreate, TypeOK
    <2>2. QED
      BY <2>1
  <1>2. PICK n \in Tries :
          /\ attempt[o][n].status = "NONE"
          /\ DeductStock(o, n)
          /\ attempt' = [attempt EXCEPT ![o][n] = NewAttempt(call[c].key)]
    BY <1>1 DEF RetryCreate, NextTry
  <1>3. TypeOK /\ n \in 0 .. MaxTries
    BY TriesInRange
  <1>4. moves[<<o, n>>].taken = 0 /\ moves[<<o, n>>].returned = 0
    BY <1>2 DEF OrderInv, BlankOf, LedgerOf
  <1>5. /\ ~attempt'[o][n].consumed
        /\ \A p \in Orders, m \in Tries : p # o \/ m # n => attempt'[p][m] = attempt[p][m]
    BY <1>2 DEF TypeOK, NewAttempt, NoAttempt
  <1>6. OthersKept(o, n) /\ ~Consumed(o, n)'
    BY <1>2, <1>3, <1>5, DeductMoves DEF OthersKept, Consumed
  <1>7. Holds!Take(<<o, n>>)
    BY <1>2, <1>3, <1>4, <1>6, TakeHold
  <1>8. QED
    BY <1>3, <1>7, SourceSteps

LEMMA AdjustHold ==
    ASSUME TypeOK, TypeOK', NEW v \in Variants, NEW q, AdjustQuantity(v, q)
    PROVE  HoldStep
  <1>1. holdOf' = holdOf
    BY KeepHold DEF AdjustQuantity
  <1>2. /\ stock' \in [Variants -> Nat]
        /\ \A w \in Variants \ {v} : stock'[w] = stock[w]
    BY DEF AdjustQuantity, TypeOK
  <1>3. Holds!Recount(v)
    BY <1>1, <1>2 DEF Holds!Recount
  <1>4. QED
    BY <1>3 DEF HoldStep, Holds!Next

LEMMA QuietHold ==
    ASSUME UNCHANGED <<stock, moves, attempt>>
    PROVE  HoldStep
  BY KeepHold DEF HoldStep

LEMMA StepHolds == IInv /\ IInv' /\ [Next]_vars => [Holds!Next]_<<stock, holdOf>>
  <1> SUFFICES ASSUME IInv, IInv', [Next]_vars PROVE HoldStep
    BY DEF HoldStep
  <1>1. ASSUME NEW o \in Orders, OrderStep(o)
        PROVE  HoldStep
    <2>1. CASE PlaceCod(o) \/ PlaceVnpay(o)
      BY <2>1, PlaceHold
    <2>2. CASE CustomerCancel(o) \/ AdminCancel(o)
      BY <2>2, CancelHold DEF CustomerCancel, AdminCancel
    <2>3. CASE AdminTransition(o) \/ ConfirmReceived(o)
      BY <2>3, QuietHold DEF AdminTransition, ConfirmReceived
    <2>4. QED
      BY <1>1, <2>1, <2>2, <2>3 DEF OrderStep
  <1>2. ASSUME NEW o \in Orders, NEW n \in Tries, AttemptStep(o, n)
        PROVE  HoldStep
    <2>1. CASE \E d \in Outcomes : ProviderDecides(o, n, d)
      BY <2>1, QuietHold DEF ProviderDecides
    <2>2. CASE IpnSuccess(o, n) \/ ReturnSuccess(o, n)
      BY <2>2, ApplyHold DEF IpnSuccess, ReturnSuccess
    <2>3. CASE IpnSuccessNotApplied(o, n)
      BY <2>3, QuietHold DEF IpnSuccessNotApplied
    <2>4. CASE IpnFailure(o, n) \/ ExpirePayment(o, n)
      BY <2>4, FailHold DEF IpnFailure, ExpirePayment
    <2>5. QED
      BY <1>2, <2>1, <2>2, <2>3, <2>4 DEF AttemptStep
  <1>3. ASSUME NEW c \in Calls, RetryStep(c)
        PROVE  HoldStep
    <2>1. CASE RetryCreate(c)
      BY <2>1, RetryCreateHold
    <2>2. CASE RetryEnd(c) \/ \E o \in Orders : \E k \in Keys \cup {o} : RetryRead(c, o, k)
      BY <2>2, QuietHold DEF RetryEnd, RetryRead
    <2>3. QED
      BY <1>3, <2>1, <2>2 DEF RetryStep
  <1>4. ASSUME NEW v \in Variants, NEW q, AdjustQuantity(v, q)
        PROVE  HoldStep
    BY <1>4, AdjustHold DEF IInv
  <1>5. CASE UNCHANGED vars
    BY <1>5, QuietHold DEF vars
  <1>6. QED
    BY <1>1, <1>2, <1>3, <1>4, <1>5 DEF Next

\* Whatever the customers, the branch, VNPAY and the clock do, every order and
\* every attempt takes its goods once and sells them or returns them once.
THEOREM StockHoldsImplemented == Spec => ImplementsStockHolds
  <1>1. Init => Holds!Init
    <2> SUFFICES ASSUME Init PROVE Holds!Init
      OBVIOUS
    <2>1. stock \in [Variants -> Nat]
      BY StockAssumption DEF Init
    <2>2. holdOf = [s \in Sources |-> "none"]
      BY DEF Init, holdOf
    <2>3. QED
      BY <2>1, <2>2 DEF Holds!Init
  <1>2. IInv /\ IInv' /\ [Next]_vars => [Holds!Next]_(Holds!vars)
    BY StepHolds DEF Holds!vars
  <1>3. QED
    BY <1>1, <1>2, Inductive, PTL DEF Spec, ImplementsStockHolds, Holds!Spec

-----------------------------------------------------------------------------
(* What is off the shelf.  Requests and attempts are of VNPAY orders only,   *)
(* when clients retry only what is offered, so the restored mark of a COD    *)
(* order is set when its goods go back and never cleared.  Every step takes  *)
(* the goods of one row off the shelf, puts those of one row back, or none.  *)

VnpayOnly ==
    /\ \A c \in Calls : call[c] # NoCall => order[call[c].order].method = "VNPAY"
    /\ \A o \in Orders, n \in Tries :
           attempt[o][n].status # "NONE" => order[o].method = "VNPAY"

TakesAll(o) == \A v \in Variants : stock'[v] = stock[v] - Demand[o][v]
GivesAll(o) == \A v \in Variants : stock'[v] = stock[v] + Demand[o][v]

ShelfKept == CodOut' = CodOut /\ Held' = Held /\ stock' = stock
CodTaken(o) ==
    o \in Orders \ CodOut /\ CodOut' = CodOut \cup {o} /\ Held' = Held /\ TakesAll(o)
CodReturned(o) ==
    o \in CodOut /\ CodOut' = CodOut \ {o} /\ Held' = Held /\ GivesAll(o)
AttemptTaken(o, n) ==
    /\ <<o, n>> \in (Orders \X Tries) \ Held
    /\ Held' = Held \cup {<<o, n>>} /\ CodOut' = CodOut /\ TakesAll(o)
AttemptReturned(o, n) ==
    <<o, n>> \in Held /\ Held' = Held \ {<<o, n>>} /\ CodOut' = CodOut /\ GivesAll(o)

ShelfStep ==
    /\ supply' = supply
    /\ \/ ShelfKept
       \/ \E o \in Orders : CodTaken(o) \/ CodReturned(o)
       \/ \E o \in Orders, n \in Tries : AttemptTaken(o, n) \/ AttemptReturned(o, n)

CopiesOfOrders(v) == [o \in Orders |-> Demand[o][v]]
CopiesOfAttempts(v) == [s \in Orders \X Tries |-> Demand[s[1]][v]]

LEMMA FiniteRows ==
    ASSUME IsFiniteSet(Orders)
    PROVE  /\ IsFiniteSet(Orders \X Tries)
           /\ \A S \in SUBSET Orders : IsFiniteSet(S)
           /\ \A S \in SUBSET (Orders \X Tries) : IsFiniteSet(S)
  <1>1. IsFiniteSet(Tries)
    BY FS_Interval, TriesAssumption DEF Tries
  <1>2. IsFiniteSet(Orders \X Tries)
    BY <1>1, FS_Product
  <1>3. QED
    BY <1>2, FS_Subset

LEMMA CopiesType ==
    ASSUME NEW v \in Variants
    PROVE  /\ \A o \in Orders : CopiesOfOrders(v)[o] = Demand[o][v] /\ Demand[o][v] \in Int
           /\ \A s \in Orders \X Tries : /\ CopiesOfAttempts(v)[s] = Demand[s[1]][v]
                                         /\ CopiesOfAttempts(v)[s] \in Int
  BY DemandAssumption DEF CopiesOfOrders, CopiesOfAttempts

LEMMA CopiesAdd ==
    ASSUME IsFiniteSet(Orders), NEW v \in Variants,
           NEW S \in SUBSET Orders, NEW o \in Orders \ S
    PROVE  /\ SumFunctionOnSet(CopiesOfOrders(v), S) \in Int
           /\ SumFunctionOnSet(CopiesOfOrders(v), S \cup {o})
                = Demand[o][v] + SumFunctionOnSet(CopiesOfOrders(v), S)
  <1>1. IsFiniteSet(S) /\ \A p \in S \cup {o} : CopiesOfOrders(v)[p] \in Int
    BY FiniteRows, CopiesType
  <1>2. QED
    BY <1>1, SumType, SumAdd, CopiesType

LEMMA AttemptCopiesAdd ==
    ASSUME IsFiniteSet(Orders), NEW v \in Variants, NEW S \in SUBSET (Orders \X Tries),
           NEW o \in Orders, NEW n \in Tries, <<o, n>> \notin S
    PROVE  /\ SumFunctionOnSet(CopiesOfAttempts(v), S) \in Int
           /\ SumFunctionOnSet(CopiesOfAttempts(v), S \cup {<<o, n>>})
                = Demand[o][v] + SumFunctionOnSet(CopiesOfAttempts(v), S)
  <1>1. IsFiniteSet(S) /\ \A s \in S \cup {<<o, n>>} : CopiesOfAttempts(v)[s] \in Int
    BY FiniteRows, CopiesType
  <1>2. CopiesOfAttempts(v)[<<o, n>>] = Demand[o][v]
    BY CopiesType
  <1>3. PICK x : x = <<o, n>>
    OBVIOUS
  <1>4. SumFunctionOnSet(CopiesOfAttempts(v), S \cup {x})
          = CopiesOfAttempts(v)[x] + SumFunctionOnSet(CopiesOfAttempts(v), S)
    BY <1>1, <1>3, SumAdd
  <1>5. QED
    BY <1>1, <1>2, <1>3, <1>4, SumType

CodSum(v) == SumFunctionOnSet(CopiesOfOrders(v), CodOut)
HeldSum(v) == SumFunctionOnSet(CopiesOfAttempts(v), Held)

LEMMA AccountIs ==
    TimestampsAccountForStock <=> \A v \in Variants : stock[v] = supply[v] - CodSum(v) - HeldSum(v)
  BY DEF TimestampsAccountForStock, CodSum, HeldSum, CopiesOfOrders, CopiesOfAttempts

LEMMA SumsMove ==
    ASSUME IsFiniteSet(Orders), NEW v \in Variants
    PROVE  /\ CodSum(v) \in Int /\ HeldSum(v) \in Int
           /\ CodOut' = CodOut => CodSum(v)' = CodSum(v)
           /\ Held' = Held => HeldSum(v)' = HeldSum(v)
           /\ \A o \in Orders : CodTaken(o) => CodSum(v)' = CodSum(v) + Demand[o][v]
           /\ \A o \in Orders : CodReturned(o) => CodSum(v)' = CodSum(v) - Demand[o][v]
           /\ \A o \in Orders, n \in Tries :
                  /\ AttemptTaken(o, n) => HeldSum(v)' = HeldSum(v) + Demand[o][v]
                  /\ AttemptReturned(o, n) => HeldSum(v)' = HeldSum(v) - Demand[o][v]
  <1>1. CodOut \subseteq Orders /\ Held \subseteq Orders \X Tries
    BY DEF CodOut, Held
  <1>2. CodSum(v) \in Int /\ HeldSum(v) \in Int
    <2>1. /\ IsFiniteSet(CodOut) /\ \A p \in CodOut : CopiesOfOrders(v)[p] \in Int
          /\ IsFiniteSet(Held) /\ \A s \in Held : CopiesOfAttempts(v)[s] \in Int
      BY <1>1, FiniteRows, CopiesType
    <2>2. QED
      BY <2>1, SumType DEF CodSum, HeldSum
  <1>3. CodOut' = CodOut => CodSum(v)' = CodSum(v)
    BY DEF CodSum, CopiesOfOrders
  <1>4. Held' = Held => HeldSum(v)' = HeldSum(v)
    BY DEF HeldSum, CopiesOfAttempts
  <1>5. CodSum(v)' = SumFunctionOnSet(CopiesOfOrders(v), CodOut')
    BY DEF CodSum, CopiesOfOrders
  <1>6. HeldSum(v)' = SumFunctionOnSet(CopiesOfAttempts(v), Held')
    BY DEF HeldSum, CopiesOfAttempts
  <1>7. ASSUME NEW o \in Orders, CodTaken(o)
        PROVE  CodSum(v)' = CodSum(v) + Demand[o][v]
    <2>1. o \in Orders \ CodOut /\ CodOut' = CodOut \cup {o}
      BY <1>7 DEF CodTaken
    <2>2. QED
      BY <1>1, <1>2, <1>5, <2>1, CopiesAdd, CopiesType DEF CodSum
  <1>8. ASSUME NEW o \in Orders, CodReturned(o)
        PROVE  CodSum(v)' = CodSum(v) - Demand[o][v]
    <2>1. PICK S \in SUBSET Orders : S = CodOut \ {o}
      BY <1>1
    <2>2. o \in Orders \ S /\ CodOut' = S /\ CodOut = S \cup {o}
      BY <1>8, <2>1 DEF CodReturned
    <2>3. /\ SumFunctionOnSet(CopiesOfOrders(v), S) \in Int
          /\ SumFunctionOnSet(CopiesOfOrders(v), S \cup {o})
                = Demand[o][v] + SumFunctionOnSet(CopiesOfOrders(v), S)
      BY <2>2, CopiesAdd
    <2>4. QED
      BY <1>5, <2>2, <2>3, CopiesType DEF CodSum
  <1>9. ASSUME NEW o \in Orders, NEW n \in Tries, AttemptTaken(o, n)
        PROVE  HeldSum(v)' = HeldSum(v) + Demand[o][v]
    <2>1. <<o, n>> \notin Held /\ Held' = Held \cup {<<o, n>>}
      BY <1>9 DEF AttemptTaken
    <2>2. QED
      BY <1>1, <1>2, <1>6, <2>1, AttemptCopiesAdd, CopiesType DEF HeldSum
  <1>10. ASSUME NEW o \in Orders, NEW n \in Tries, AttemptReturned(o, n)
        PROVE  HeldSum(v)' = HeldSum(v) - Demand[o][v]
    <2>1. PICK S \in SUBSET (Orders \X Tries) : S = Held \ {<<o, n>>}
      BY <1>1
    <2>2. <<o, n>> \notin S /\ Held' = S /\ Held = S \cup {<<o, n>>}
      BY <1>10, <2>1 DEF AttemptReturned
    <2>3. /\ SumFunctionOnSet(CopiesOfAttempts(v), S) \in Int
          /\ SumFunctionOnSet(CopiesOfAttempts(v), S \cup {<<o, n>>})
                = Demand[o][v] + SumFunctionOnSet(CopiesOfAttempts(v), S)
      BY <2>2, AttemptCopiesAdd
    <2>4. QED
      BY <1>6, <2>2, <2>3, CopiesType DEF HeldSum
  <1>11. QED
    BY <1>2, <1>3, <1>4, <1>7, <1>8, <1>9, <1>10

LEMMA ShelfStepAccounts ==
    ASSUME IsFiniteSet(Orders), TypeOK, TimestampsAccountForStock, ShelfStep
    PROVE  TimestampsAccountForStock'
  <1>1. SUFFICES ASSUME NEW v \in Variants
                 PROVE  stock'[v] = supply'[v] - CodSum(v)' - HeldSum(v)'
    BY DEF TimestampsAccountForStock, CodSum, HeldSum, CopiesOfOrders, CopiesOfAttempts
  <1>2. /\ stock[v] = supply[v] - CodSum(v) - HeldSum(v)
        /\ stock[v] \in Int /\ supply[v] \in Int /\ CodSum(v) \in Int /\ HeldSum(v) \in Int
        /\ supply' = supply
        /\ \A o \in Orders : Demand[o][v] \in Int
    BY AccountIs, SumsMove, CopiesType DEF TypeOK, ShelfStep
  <1>3. CASE ShelfKept
    BY <1>2, <1>3, SumsMove DEF ShelfKept
  <1>4. ASSUME NEW o \in Orders, CodTaken(o)
        PROVE  stock'[v] = supply'[v] - CodSum(v)' - HeldSum(v)'
    <2>1. /\ CodSum(v)' = CodSum(v) + Demand[o][v] /\ HeldSum(v)' = HeldSum(v)
          /\ stock'[v] = stock[v] - Demand[o][v]
      BY <1>4, SumsMove DEF CodTaken, TakesAll
    <2>2. QED
      BY <1>2, <2>1
  <1>5. ASSUME NEW o \in Orders, CodReturned(o)
        PROVE  stock'[v] = supply'[v] - CodSum(v)' - HeldSum(v)'
    <2>1. /\ CodSum(v)' = CodSum(v) - Demand[o][v] /\ HeldSum(v)' = HeldSum(v)
          /\ stock'[v] = stock[v] + Demand[o][v]
      BY <1>5, SumsMove DEF CodReturned, GivesAll
    <2>2. QED
      BY <1>2, <2>1
  <1>6. ASSUME NEW o \in Orders, NEW n \in Tries, AttemptTaken(o, n)
        PROVE  stock'[v] = supply'[v] - CodSum(v)' - HeldSum(v)'
    <2>1. /\ HeldSum(v)' = HeldSum(v) + Demand[o][v] /\ CodSum(v)' = CodSum(v)
          /\ stock'[v] = stock[v] - Demand[o][v]
      BY <1>6, SumsMove DEF AttemptTaken, TakesAll
    <2>2. QED
      BY <1>2, <2>1
  <1>7. ASSUME NEW o \in Orders, NEW n \in Tries, AttemptReturned(o, n)
        PROVE  stock'[v] = supply'[v] - CodSum(v)' - HeldSum(v)'
    <2>1. /\ HeldSum(v)' = HeldSum(v) - Demand[o][v] /\ CodSum(v)' = CodSum(v)
          /\ stock'[v] = stock[v] + Demand[o][v]
      BY <1>7, SumsMove DEF AttemptReturned, GivesAll
    <2>2. QED
      BY <1>2, <2>1
  <1>8. QED
    BY <1>3, <1>4, <1>5, <1>6, <1>7 DEF ShelfStep
----------------------------------------------------------------------
\* A step that writes rows of one order, to be seen at this order alone.
RowsOfOthersKept(o) ==
    \A p \in Orders \ {o} : order'[p] = order[p] /\ attempt'[p] = attempt[p]

HeldOf(o) == {n \in Tries : attempt[o][n].status # "NONE" /\ ~attempt[o][n].released}

LEMMA HeldIs == \A p \in Orders, m \in Tries : <<p, m>> \in Held <=> m \in HeldOf(p)
  BY DEF Held, HeldOf

LEMMA OneOrderWritten ==
    ASSUME NEW o \in Orders, RowsOfOthersKept(o)
    PROVE  /\ \A p \in Orders \ {o} : p \in CodOut' <=> p \in CodOut
           /\ \A p \in Orders \ {o}, m \in Tries : <<p, m>> \in Held' <=> <<p, m>> \in Held
  BY DEF RowsOfOthersKept, CodOut, CodStockOut, Held

LEMMA CodSideOf ==
    ASSUME NEW o \in Orders, RowsOfOthersKept(o)
    PROVE  /\ (CodStockOut(o)' <=> CodStockOut(o)) => CodOut' = CodOut
           /\ ~CodStockOut(o) /\ CodStockOut(o)' => o \in Orders \ CodOut /\ CodOut' = CodOut \cup {o}
           /\ CodStockOut(o) /\ ~CodStockOut(o)' => o \in CodOut /\ CodOut' = CodOut \ {o}
  <1>1. \A p \in Orders \ {o} : p \in CodOut' <=> p \in CodOut
    BY OneOrderWritten
  <1>2. (o \in CodOut <=> CodStockOut(o)) /\ (o \in CodOut' <=> CodStockOut(o)')
    BY DEF CodOut
  <1>3. CodOut \subseteq Orders /\ CodOut' \subseteq Orders
    BY DEF CodOut
  <1>4. QED
    BY <1>1, <1>2, <1>3

LEMMA HeldSideOf ==
    ASSUME NEW o \in Orders, RowsOfOthersKept(o)
    PROVE  /\ HeldOf(o)' = HeldOf(o) => Held' = Held
           /\ \A n \in Tries \ HeldOf(o) :
                  HeldOf(o)' = HeldOf(o) \cup {n} =>
                      <<o, n>> \in (Orders \X Tries) \ Held /\ Held' = Held \cup {<<o, n>>}
           /\ \A n \in HeldOf(o) :
                  HeldOf(o)' = HeldOf(o) \ {n} =>
                      <<o, n>> \in Held /\ Held' = Held \ {<<o, n>>}
  <1>1. \A p \in Orders \ {o}, m \in Tries : <<p, m>> \in Held' <=> <<p, m>> \in Held
    BY OneOrderWritten
  <1>2. \A m \in Tries : /\ <<o, m>> \in Held <=> m \in HeldOf(o)
                         /\ <<o, m>> \in Held' <=> m \in HeldOf(o)'
    BY DEF Held, HeldOf
  <1>3. Held \subseteq Orders \X Tries /\ Held' \subseteq Orders \X Tries
    BY DEF Held
  <1>4. HeldOf(o) \subseteq Tries
    BY DEF HeldOf
  <1>5. ASSUME HeldOf(o)' = HeldOf(o) PROVE Held' = Held
    BY <1>1, <1>2, <1>3, <1>5
  <1>6. ASSUME NEW n \in Tries \ HeldOf(o), HeldOf(o)' = HeldOf(o) \cup {n}
        PROVE  <<o, n>> \in (Orders \X Tries) \ Held /\ Held' = Held \cup {<<o, n>>}
    <2>1. \A s \in Orders \X Tries : s \in Held' <=> s \in Held \cup {<<o, n>>}
      BY <1>1, <1>2, <1>6
    <2>2. QED
      BY <1>2, <1>3, <1>6, <2>1
  <1>7. ASSUME NEW n \in HeldOf(o), HeldOf(o)' = HeldOf(o) \ {n}
        PROVE  <<o, n>> \in Held /\ Held' = Held \ {<<o, n>>}
    <2>1. \A s \in Orders \X Tries : s \in Held' <=> s \in Held \ {<<o, n>>}
      BY <1>1, <1>2, <1>7
    <2>2. QED
      BY <1>2, <1>3, <1>4, <1>7, <2>1
  <1>8. QED
    BY <1>5, <1>6, <1>7

LEMMA PlaceShelf ==
    ASSUME IInv, VnpayOnly, NEW o \in Orders, PlaceCod(o) \/ PlaceVnpay(o)
    PROVE  ShelfStep /\ VnpayOnly'
  <1> USE DEF IInv
  <1>1. /\ TypeOK /\ 1 \in Tries /\ supply' = supply /\ call' = call
        /\ order[o].status = "NONE" /\ order[o].method = "NONE"
        /\ \A n \in Tries : attempt[o][n].status = "NONE"
    BY TriesAssumption DEF Tries, PlaceCod, PlaceVnpay, OrderInv, BlankOf
  <1>2. RowsOfOthersKept(o) /\ TakesAll(o)
    BY <1>1 DEF RowsOfOthersKept, TakesAll, PlaceCod, PlaceVnpay, DeductStock, TypeOK
  <1>3. \A c \in Calls : call[c] # NoCall => call[c].order \in Orders
    BY DEF TypeOK
  <1>4. \A c \in Calls : call[c] # NoCall => call[c].order # o
    BY <1>1 DEF VnpayOnly
  <1>5. ~CodStockOut(o) /\ HeldOf(o) = {}
    BY <1>1 DEF CodStockOut, HeldOf
  <1>6. CASE PlaceCod(o)
    <2>1. CodStockOut(o)' /\ attempt' = attempt /\ order'[o].method = "COD"
      BY <1>1, <1>6 DEF PlaceCod, TypeOK, NoOrder, CodStockOut
    <2>2. CodTaken(o)
      <3>1. Held' = Held
        BY <2>1 DEF Held
      <3>2. QED
        BY <1>2, <1>5, <2>1, <3>1, CodSideOf DEF CodTaken
    <2>3. VnpayOnly'
      BY <1>1, <1>2, <1>3, <1>4, <2>1 DEF VnpayOnly, RowsOfOthersKept
    <2>4. QED
      BY <1>1, <2>2, <2>3 DEF ShelfStep
  <1>7. CASE PlaceVnpay(o)
    <2>1. /\ order'[o].method = "VNPAY"
          /\ attempt'[o] = [attempt[o] EXCEPT ![1] = NewAttempt(o)]
          /\ attempt[o] \in [Tries -> AttemptRow]
      BY <1>1, <1>7 DEF PlaceVnpay, TypeOK, NoOrder
    <2>2. ~CodStockOut(o)'
      BY <2>1 DEF CodStockOut
    <2>3. HeldOf(o)' = {1}
      BY <1>1, <2>1 DEF HeldOf, NewAttempt, NoAttempt
    <2>4. AttemptTaken(o, 1)
      <3>1. CodOut' = CodOut
        BY <1>2, <1>5, <2>2, CodSideOf
      <3>2. 1 \in Tries \ HeldOf(o) /\ HeldOf(o)' = HeldOf(o) \cup {1}
        BY <1>1, <1>5, <2>3
      <3>3. <<o, 1>> \in (Orders \X Tries) \ Held /\ Held' = Held \cup {<<o, 1>>}
        BY <1>2, <3>2, HeldSideOf
      <3>4. QED
        BY <1>2, <3>1, <3>3 DEF AttemptTaken
    <2>5. VnpayOnly'
      BY <1>1, <1>2, <1>3, <1>4, <2>1 DEF VnpayOnly, RowsOfOthersKept
    <2>6. QED
      BY <1>1, <2>4, <2>5 DEF ShelfStep
  <1>8. QED
    BY <1>6, <1>7

LEMMA SameMethodVnpayOnly ==
    ASSUME TypeOK, VnpayOnly, NEW o \in Orders, RowsOfOthersKept(o),
           order'[o].method = order[o].method,
           \A n \in Tries : attempt'[o][n].status # "NONE" => order[o].method = "VNPAY",
           \A c \in Calls : call'[c] = call[c] \/ call'[c] = NoCall
    PROVE  VnpayOnly'
  <1>1. \A c \in Calls : call[c] # NoCall => call[c].order \in Orders
    BY DEF TypeOK
  <1>2. QED
    BY <1>1 DEF VnpayOnly, RowsOfOthersKept

LEMMA ApplyShelf ==
    ASSUME IInv, VnpayOnly, NEW o \in Orders, NEW n \in Tries,
           Reported(o, n, "success"), ApplySuccessfulVnpayTransaction(o, n)
    PROVE  ShelfStep /\ VnpayOnly'
  <1> USE DEF IInv
  <1>1. /\ TypeOK /\ supply' = supply /\ stock' = stock /\ call' = call
        /\ order[o].method = "VNPAY" /\ order'[o].method = "VNPAY"
        /\ RowsOfOthersKept(o)
    BY DEF ApplySuccessfulVnpayTransaction, Reported, TypeOK, OrderRow, RowsOfOthersKept
  <1>2. \A m \in Tries : /\ attempt'[o][m].released = attempt[o][m].released
                         /\ attempt'[o][m].status # "NONE" <=> attempt[o][m].status # "NONE"
    BY DEF ApplySuccessfulVnpayTransaction, MayApply, TypeOK, AttemptRow
  <1>3. HeldOf(o)' = HeldOf(o)
    BY <1>2 DEF HeldOf
  <1>4. ~CodStockOut(o) /\ ~CodStockOut(o)'
    BY <1>1 DEF CodStockOut
  <1>5. ShelfKept
    BY <1>1, <1>3, <1>4, CodSideOf, HeldSideOf DEF ShelfKept
  <1>6. VnpayOnly'
    BY <1>1, <1>2, SameMethodVnpayOnly
  <1>7. QED
    BY <1>1, <1>5, <1>6 DEF ShelfStep

LEMMA FailShelf ==
    ASSUME IInv, VnpayOnly, NEW o \in Orders, NEW n \in Tries,
           attempt[o][n].status = "PENDING", NEW a \in AttemptStatus \ {"NONE"}, NEW q,
           FailPayment(o, n, a, q)
    PROVE  ShelfStep /\ VnpayOnly'
  <1> USE DEF IInv
  <1>1. /\ TypeOK /\ supply' = supply /\ call' = call
        /\ order[o].method = "VNPAY" /\ order'[o].method = "VNPAY"
        /\ RowsOfOthersKept(o)
    BY DEF FailPayment, TypeOK, OrderRow, RowsOfOthersKept, VnpayOnly
  <1>2. /\ \A m \in Tries \ {n} : attempt'[o][m] = attempt[o][m]
        /\ attempt'[o][n].status # "NONE"
        /\ attempt'[o][n].released = (attempt[o][n].released \/ ActiveHold(o, n))
    BY DEF FailPayment, TypeOK, AttemptRow
  <1>3. ~CodStockOut(o) /\ ~CodStockOut(o)'
    BY <1>1 DEF CodStockOut
  <1>4. VnpayOnly'
    BY <1>1, <1>2, SameMethodVnpayOnly
  <1>5. CASE ActiveHold(o, n)
    <2>1. n \in HeldOf(o) /\ HeldOf(o)' = HeldOf(o) \ {n}
      BY <1>2, <1>5 DEF HeldOf, ActiveHold
    <2>2. GivesAll(o)
      BY <1>5 DEF FailPayment, ReleaseReservedStock, RestoreStock, GivesAll
    <2>3. AttemptReturned(o, n)
      BY <1>1, <1>3, <2>1, <2>2, CodSideOf, HeldSideOf DEF AttemptReturned
    <2>4. QED
      BY <1>1, <1>4, <2>3 DEF ShelfStep
  <1>6. CASE ~ActiveHold(o, n)
    <2>1. HeldOf(o)' = HeldOf(o)
      BY <1>2, <1>6 DEF HeldOf, TypeOK, AttemptRow
    <2>2. stock' = stock
      BY <1>6 DEF FailPayment, ReleaseReservedStock
    <2>3. ShelfKept
      BY <1>1, <1>3, <2>1, <2>2, CodSideOf, HeldSideOf DEF ShelfKept
    <2>4. QED
      BY <1>1, <1>4, <2>3 DEF ShelfStep
  <1>7. QED
    BY <1>5, <1>6

LEMMA CancelShelf ==
    ASSUME IInv, VnpayOnly, NEW o \in Orders, NEW A, CancelOrderInTransaction(o, A)
    PROVE  ShelfStep /\ VnpayOnly'
  <1> USE DEF IInv
  <1>1. /\ TypeOK /\ supply' = supply /\ call' = call
        /\ order'[o].method = order[o].method
        /\ order'[o].deducted = order[o].deducted
        /\ order'[o].restored = (order[o].restored \/ ~NoActiveHold(o) \/ CodStockOut(o))
        /\ \A p \in Orders \ {o} : order'[p] = order[p]
    BY DEF CancelOrderInTransaction, TypeOK, OrderRow
  <1>2. ASSUME NEW n \in Tries, HoldToRelease(o, n), RestoreStock(o, n),
               attempt' = [attempt EXCEPT ![o][n].released = TRUE]
        PROVE  ShelfStep /\ VnpayOnly'
    <2>1. /\ RowsOfOthersKept(o)
          /\ \A m \in Tries \ {n} : attempt'[o][m] = attempt[o][m]
          /\ attempt'[o][n].status = attempt[o][n].status
          /\ attempt'[o][n].released
      BY <1>1, <1>2 DEF RowsOfOthersKept, TypeOK, AttemptRow
    <2>2. order[o].method = "VNPAY" /\ ~CodStockOut(o) /\ ~CodStockOut(o)'
      BY <1>1, <1>2 DEF VnpayOnly, HoldToRelease, ActiveHold, CodStockOut
    <2>3. n \in HeldOf(o) /\ HeldOf(o)' = HeldOf(o) \ {n}
      BY <1>2, <2>1 DEF HeldOf, HoldToRelease, ActiveHold
    <2>4. GivesAll(o)
      BY <1>2 DEF RestoreStock, GivesAll
    <2>5. AttemptReturned(o, n)
      BY <2>1, <2>2, <2>3, <2>4, CodSideOf, HeldSideOf DEF AttemptReturned
    <2>6. VnpayOnly'
      BY <1>1, <2>1, <2>2, SameMethodVnpayOnly
    <2>7. QED
      BY <1>1, <2>5, <2>6 DEF ShelfStep
  <1>3. ASSUME attempt' = attempt
        PROVE  RowsOfOthersKept(o) /\ HeldOf(o)' = HeldOf(o) /\ VnpayOnly'
    <2>1. RowsOfOthersKept(o) /\ HeldOf(o)' = HeldOf(o)
      BY <1>1, <1>3 DEF RowsOfOthersKept, HeldOf
    <2>2. \A n \in Tries : attempt'[o][n].status # "NONE" => order[o].method = "VNPAY"
      BY <1>3 DEF VnpayOnly
    <2>3. QED
      BY <1>1, <2>1, <2>2, SameMethodVnpayOnly
  <1>4. ASSUME NoActiveHold(o), CodStockOut(o), RestoreStock(o, 0), attempt' = attempt
        PROVE  ShelfStep /\ VnpayOnly'
    <2>1. ~CodStockOut(o)'
      BY <1>1, <1>4 DEF CodStockOut
    <2>2. GivesAll(o)
      BY <1>4 DEF RestoreStock, GivesAll
    <2>3. CodReturned(o)
      BY <1>3, <1>4, <2>1, <2>2, CodSideOf, HeldSideOf DEF CodReturned
    <2>4. QED
      BY <1>1, <1>3, <1>4, <2>3 DEF ShelfStep
  <1>5. ASSUME NoActiveHold(o), ~CodStockOut(o), stock' = stock, attempt' = attempt
        PROVE  ShelfStep /\ VnpayOnly'
    <2>1. CodStockOut(o)' = CodStockOut(o)
      BY <1>1, <1>5 DEF CodStockOut, TypeOK, OrderRow
    <2>2. ShelfKept
      BY <1>3, <1>5, <2>1, CodSideOf, HeldSideOf DEF ShelfKept
    <2>3. QED
      BY <1>1, <1>3, <1>5, <2>2 DEF ShelfStep
  <1>6. QED
    BY <1>2, <1>4, <1>5 DEF CancelOrderInTransaction

LEMMA RetryCreateShelf ==
    ASSUME IInv, VnpayOnly, NEW c \in Calls, RetryCreate(c)
    PROVE  ShelfStep /\ VnpayOnly'
  <1> USE DEF IInv
  <1>1. PICK o \in Orders : o = call[c].order /\ order[o].method = "VNPAY"
    <2>1. call[c] \in [order : Orders, key : Keys \cup Orders]
      BY DEF RetryCreate, TypeOK
    <2>2. QED
      BY <2>1 DEF RetryCreate, VnpayOnly
  <1>2. PICK n \in Tries :
          /\ NextTry(o, n) /\ DeductStock(o, n)
          /\ attempt' = [attempt EXCEPT ![o][n] = NewAttempt(call[c].key)]
    BY <1>1 DEF RetryCreate
  <1>3. /\ TypeOK /\ supply' = supply /\ RowsOfOthersKept(o)
        /\ order'[o].method = order[o].method
        /\ \A d \in Calls : call'[d] = call[d] \/ call'[d] = NoCall
    BY <1>1, <1>2 DEF RetryCreate, TypeOK, OrderRow, RowsOfOthersKept
  <1>4. /\ attempt'[o][n].status = "PENDING" /\ ~attempt'[o][n].released
        /\ \A m \in Tries \ {n} : attempt'[o][m] = attempt[o][m]
        /\ attempt[o][n].status = "NONE"
    BY <1>1, <1>2 DEF TypeOK, NewAttempt, NoAttempt, NextTry
  <1>5. n \in Tries \ HeldOf(o) /\ HeldOf(o)' = HeldOf(o) \cup {n}
    BY <1>4 DEF HeldOf
  <1>6. ~CodStockOut(o) /\ ~CodStockOut(o)'
    BY <1>1, <1>3 DEF CodStockOut
  <1>7. TakesAll(o)
    BY <1>2 DEF DeductStock, TakesAll
  <1>8. AttemptTaken(o, n)
    <2>1. CodOut' = CodOut
      BY <1>3, <1>6, CodSideOf
    <2>2. <<o, n>> \in (Orders \X Tries) \ Held /\ Held' = Held \cup {<<o, n>>}
      BY <1>3, <1>5, HeldSideOf
    <2>3. QED
      BY <1>7, <2>1, <2>2 DEF AttemptTaken
  <1>9. VnpayOnly'
    BY <1>1, <1>3, SameMethodVnpayOnly
  <1>10. QED
    BY <1>3, <1>8, <1>9 DEF ShelfStep

LEMMA FulfilmentShelf ==
    ASSUME IInv, VnpayOnly, NEW o \in Orders, AdminTransition(o) \/ ConfirmReceived(o)
    PROVE  ShelfStep /\ VnpayOnly'
  <1> USE DEF IInv
  <1>1. /\ TypeOK /\ supply' = supply /\ stock' = stock /\ call' = call /\ attempt' = attempt
        /\ order'[o].method = order[o].method
        /\ order'[o].deducted = order[o].deducted
        /\ order'[o].restored = order[o].restored
        /\ RowsOfOthersKept(o)
    BY DEF AdminTransition, ConfirmReceived, TypeOK, OrderRow, RowsOfOthersKept
  <1>2. HeldOf(o)' = HeldOf(o) /\ CodStockOut(o)' = CodStockOut(o)
    BY <1>1 DEF HeldOf, CodStockOut
  <1>3. ShelfKept
    BY <1>1, <1>2, CodSideOf, HeldSideOf DEF ShelfKept
  <1>4. \A n \in Tries : attempt'[o][n].status # "NONE" => order[o].method = "VNPAY"
    BY <1>1 DEF VnpayOnly
  <1>5. QED
    BY <1>1, <1>3, <1>4, SameMethodVnpayOnly DEF ShelfStep
----------------------------------------------------------------------
LEMMA QuietShelf ==
    ASSUME VnpayOnly, UNCHANGED <<order, attempt, stock, supply>>,
           \A c \in Calls : call'[c] = call[c] \/ call'[c] = NoCall
    PROVE  ShelfStep /\ VnpayOnly'
  BY DEF ShelfStep, ShelfKept, CodOut, CodStockOut, Held, VnpayOnly

LEMMA RetryReadShelf ==
    ASSUME OfferedOnly, IInv, VnpayOnly, NEW c \in Calls, NEW o \in Orders, NEW k,
           RetryRead(c, o, k)
    PROVE  ShelfStep /\ VnpayOnly'
  <1> USE DEF IInv
  <1>1. UNCHANGED <<order, attempt, stock, supply>>
    BY DEF RetryRead
  <1>2. ShelfStep
    BY <1>1 DEF ShelfStep, ShelfKept, CodOut, CodStockOut, Held
  <1>3. order[o].method = "VNPAY"
    BY DEF RetryRead, RetryOffered
  <1>4. \A d \in Calls : call'[d] = call[d] \/ call'[d].order = o
    BY DEF RetryRead, TypeOK
  <1>5. QED
    BY <1>1, <1>2, <1>3, <1>4 DEF VnpayOnly

\* The inventory desk's count is on both sides of the account.
LEMMA AdjustAccounts ==
    ASSUME IsFiniteSet(Orders), IInv, VnpayOnly, TimestampsAccountForStock,
           NEW v \in Variants, NEW q \in 0 .. MaxStock, AdjustQuantity(v, q)
    PROVE  TimestampsAccountForStock' /\ VnpayOnly'
  <1> USE DEF IInv
  <1>1. UNCHANGED <<order, attempt, call>>
    BY DEF AdjustQuantity
  <1>2. VnpayOnly'
    BY <1>1 DEF VnpayOnly
  <1>3. CodOut' = CodOut /\ Held' = Held
    BY <1>1 DEF CodOut, CodStockOut, Held
  <1>4. SUFFICES ASSUME NEW w \in Variants
                 PROVE  stock'[w] = supply'[w] - CodSum(w)' - HeldSum(w)'
    BY <1>2 DEF TimestampsAccountForStock, CodSum, HeldSum, CopiesOfOrders, CopiesOfAttempts
  <1>5. /\ CodSum(w)' = CodSum(w) /\ HeldSum(w)' = HeldSum(w)
        /\ CodSum(w) \in Int /\ HeldSum(w) \in Int
    BY <1>3, SumsMove
  <1>6. stock[w] = supply[w] - CodSum(w) - HeldSum(w)
    BY AccountIs
  <1>7. /\ stock[w] \in Int /\ supply[w] \in Int /\ stock'[w] \in Int
        /\ supply'[w] - stock'[w] = supply[w] - stock[w]
    BY StockAssumption DEF AdjustQuantity, TypeOK
  <1>8. supply'[w] \in Int
    BY StockAssumption DEF AdjustQuantity, TypeOK
  <1>9. QED
    BY <1>5, <1>6, <1>7, <1>8

LEMMA AccountStep ==
    ASSUME IsFiniteSet(Orders), OfferedOnly
    PROVE  IInv /\ VnpayOnly /\ TimestampsAccountForStock /\ [Next]_vars
             => VnpayOnly' /\ TimestampsAccountForStock'
  <1> SUFFICES ASSUME IInv, VnpayOnly, TimestampsAccountForStock, [Next]_vars
               PROVE  VnpayOnly' /\ TimestampsAccountForStock'
    OBVIOUS
  <1>1. TypeOK
    BY DEF IInv
  <1>2. ShelfStep => TimestampsAccountForStock'
    BY <1>1, ShelfStepAccounts
  <1>3. ASSUME NEW o \in Orders, OrderStep(o)
        PROVE  ShelfStep /\ VnpayOnly'
    BY <1>3, PlaceShelf, CancelShelf, FulfilmentShelf DEF OrderStep, CustomerCancel, AdminCancel
  <1>4. ASSUME NEW o \in Orders, NEW n \in Tries, AttemptStep(o, n)
        PROVE  ShelfStep /\ VnpayOnly'
    <2>1. CASE \E d \in Outcomes : ProviderDecides(o, n, d)
      BY <2>1, QuietShelf DEF ProviderDecides
    <2>2. CASE IpnSuccess(o, n) \/ ReturnSuccess(o, n)
      BY <2>2, ApplyShelf DEF IpnSuccess, ReturnSuccess
    <2>3. CASE IpnSuccessNotApplied(o, n)
      BY <2>3, QuietShelf DEF IpnSuccessNotApplied
    <2>4. CASE IpnFailure(o, n) \/ ExpirePayment(o, n)
      <3>1. {"FAILED", "CANCELLED", "EXPIRED"} \subseteq AttemptStatus \ {"NONE"}
        BY DEF AttemptStatus
      <3>2. QED
        BY <2>4, <3>1, FailShelf DEF IpnFailure, ExpirePayment
    <2>5. QED
      BY <1>4, <2>1, <2>2, <2>3, <2>4 DEF AttemptStep
  <1>5. ASSUME NEW c \in Calls, RetryStep(c)
        PROVE  ShelfStep /\ VnpayOnly'
    <2>1. CASE RetryCreate(c)
      BY <2>1, RetryCreateShelf
    <2>2. CASE RetryEnd(c)
      <3>1. \A d \in Calls : call'[d] = call[d] \/ call'[d] = NoCall
        BY <1>1, <2>2 DEF RetryEnd, TypeOK
      <3>2. QED
        BY <2>2, <3>1, QuietShelf DEF RetryEnd
    <2>3. CASE \E o \in Orders : \E k \in Keys \cup {o} : RetryRead(c, o, k)
      BY <2>3, RetryReadShelf
    <2>4. QED
      BY <1>5, <2>1, <2>2, <2>3 DEF RetryStep
  <1>6. ASSUME NEW v \in Variants, NEW q \in 0 .. MaxStock, AdjustQuantity(v, q)
        PROVE  TimestampsAccountForStock' /\ VnpayOnly'
    BY <1>6, AdjustAccounts
  <1>7. CASE UNCHANGED vars
    BY <1>2, <1>7, QuietShelf DEF vars
  <1>8. QED
    BY <1>2, <1>3, <1>4, <1>5, <1>6, <1>7 DEF Next

\* In every behaviour in which clients retry only what is offered, however many
\* requests there are at once, the shelf of a variant holds what the inventory
\* desk put there less what the rows of orders and attempts say is off it.
THEOREM StockIsAccountedFor ==
    ASSUME IsFiniteSet(Orders), OfferedOnly
    PROVE  Spec => []TimestampsAccountForStock
  <1>1. ASSUME Init PROVE VnpayOnly /\ TimestampsAccountForStock
    <2>1. VnpayOnly
      BY <1>1 DEF Init, VnpayOnly, NoAttempt
    <2>2. CodOut = {} /\ Held = {}
      BY <1>1 DEF Init, CodOut, CodStockOut, Held, NoOrder, NoAttempt
    <2>3. ASSUME NEW v \in Variants
          PROVE  stock[v] = supply[v] - CodSum(v) - HeldSum(v)
      <3>1. CodSum(v) = 0 /\ HeldSum(v) = 0
        BY <2>2, SumEmpty DEF CodSum, HeldSum
      <3>2. stock[v] = supply[v] /\ supply[v] \in Int
        BY <1>1, StockAssumption DEF Init
      <3>3. QED
        BY <3>1, <3>2
    <2>4. QED
      BY <2>1, <2>3, AccountIs
  <1>2. IInv /\ VnpayOnly /\ TimestampsAccountForStock /\ [Next]_vars
          => VnpayOnly' /\ TimestampsAccountForStock'
    BY AccountStep
  <1>3. QED
    BY <1>1, <1>2, Inductive, PTL DEF Spec
=============================================================================
