--------------------------- MODULE OrderPayments ---------------------------
(***************************************************************************)
(* The life of an order of the bookstore: placement (checkout.service.ts), *)
(* the VNPAY attempts of its payment (payments.service.ts), cancellation   *)
(* (order-cancellation.ts), fulfilment by the branch (admin-orders) and    *)
(* the customer's confirmation of receipt (customer-orders), with the      *)
(* branch stock every one of them moves.                                   *)
(*                                                                         *)
(* A Serializable database transaction is one action.  retry() reads the   *)
(* payment before it opens its transaction, so it is two: RetryRead and    *)
(* RetryCreate, and anything may happen in between.  A transaction that    *)
(* aborts (a conflict, a crash, a refused guard) changes nothing.          *)
(***************************************************************************)
EXTENDS Integers

CONSTANTS
    Orders,         \* the orders customers may place, each under its own key
    Variants,       \* the product variants of the branch
    Demand,         \* Demand[o][v]: how many of v order o buys
    OpeningStock,   \* OpeningStock[v]: the shelf before the first order
    MaxStock,       \* bound: the inventory desk never counts more than this
    MaxTries,       \* bound: VNPAY attempts per payment
    Calls,          \* retry requests the API may be serving at once
    Keys,           \* idempotency keys the customers send with a retry
    NoCall, NoKey,  \* no request in this slot, no key on this attempt
    OfferedOnly     \* TRUE: clients send retry only where the order offers it

Tries == 1 .. MaxTries

ASSUME DemandAssumption == Demand \in [Orders -> [Variants -> Nat]]
ASSUME StockAssumption == /\ OpeningStock \in [Variants -> Nat]
                          /\ MaxStock \in Nat
ASSUME TriesAssumption == MaxTries \in Nat \ {0}
ASSUME KeyAssumption == /\ Keys \cap Orders = {}
                        /\ NoKey \notin Keys \cup Orders
ASSUME CallAssumption == NoCall \notin [order : Orders, key : Keys \cup Orders]
ASSUME OfferAssumption == OfferedOnly \in BOOLEAN

VARIABLES
    order,      \* the row of each order
    payment,    \* the status of each order's Payment row
    attempt,    \* attempt[o][n]: the n-th PaymentTransaction of the payment
    cart,       \* the orders whose source lines are still in the cart
    stock,      \* BranchProductStock.quantity of each variant
    supply,     \* what the inventory desk has put on the shelf, net
    moves,      \* the inventory movements recorded for each source
    call,       \* the retry requests between their read and their commit
    outcome,    \* external: what VNPAY decided about each attempt
    answered    \* external: charged attempts whose IPN got a final answer

vars == <<order, payment, attempt, cart, stock, supply, moves, call,
          outcome, answered>>

-----------------------------------------------------------------------------
(* Rows *)

Fulfilment == {"PENDING", "CONFIRMED", "PACKING", "SHIPPING", "COMPLETED"}

OrderStatus == Fulfilment \cup {"NONE", "PENDING_PAYMENT", "PAYMENT_FAILED",
                                "CANCELLED"}

PaymentStatus == {"NONE", "UNPAID", "PENDING", "PAID", "FAILED", "EXPIRED",
                  "CANCELLED"}

AttemptStatus == {"NONE", "PENDING", "PAID", "FAILED", "CANCELLED", "EXPIRED"}

OrderRow == [method : {"NONE", "COD", "VNPAY"}, status : OrderStatus,
             deducted : BOOLEAN, restored : BOOLEAN, received : BOOLEAN]

AttemptRow == [status : AttemptStatus, released : BOOLEAN, consumed : BOOLEAN,
               key : Keys \cup Orders \cup {NoKey}]

NoOrder == [method |-> "NONE", status |-> "NONE",
            deducted |-> FALSE, restored |-> FALSE, received |-> FALSE]

NoAttempt == [status |-> "NONE", released |-> FALSE, consumed |-> FALSE,
              key |-> NoKey]

NewAttempt(k) == [NoAttempt EXCEPT !.status = "PENDING", !.key = k]

\* A movement's sourceId: the order itself (0) or one of its attempts.
Sources == Orders \X (0 .. MaxTries)

Outcomes == {"open", "success", "failed", "cancelled"}

Init ==
    /\ order = [o \in Orders |-> NoOrder]
    /\ payment = [o \in Orders |-> "NONE"]
    /\ attempt = [o \in Orders |-> [n \in Tries |-> NoAttempt]]
    /\ cart = Orders
    /\ stock = OpeningStock
    /\ supply = OpeningStock
    /\ moves = [s \in Sources |-> [taken |-> 0, returned |-> 0]]
    /\ call = [c \in Calls |-> NoCall]
    /\ outcome = [o \in Orders |-> [n \in Tries |-> "open"]]
    /\ answered = {}

-----------------------------------------------------------------------------
(* Stock, as every transaction moves it *)

\* Mutant: the quantity guard of the update is missing.
DeductStockUnguarded(o, n) ==
    /\ stock' = [v \in Variants |-> stock[v] - Demand[o][v]]
    /\ moves' = [moves EXCEPT ![<<o, n>>].taken = @ + 1]

\* All lines of the order are taken from the shelf, or the transaction fails.
DeductStock(o, n) ==
    /\ \A v \in Variants : Demand[o][v] <= stock[v]
    /\ stock' = [v \in Variants |-> stock[v] - Demand[o][v]]
    /\ moves' = [moves EXCEPT ![<<o, n>>].taken = @ + 1]

\* Mutant: every line gives back one copy, whatever its quantity.
RestoreOneOfEach(o, n) ==
    /\ stock' = [v \in Variants |-> stock[v] + 1]
    /\ moves' = [moves EXCEPT ![<<o, n>>].returned = @ + 1]

RestoreStock(o, n) ==
    /\ stock' = [v \in Variants |-> stock[v] + Demand[o][v]]
    /\ moves' = [moves EXCEPT ![<<o, n>>].returned = @ + 1]

\* Mutant: what was consumed may still be released.
UnreleasedHold(o, n) ==
    /\ attempt[o][n].status # "NONE"
    /\ ~attempt[o][n].released

\* The claim of releaseReservedStock and of a cancellation: the attempt has
\* reserved stock and has neither released nor consumed it.
ActiveHold(o, n) ==
    /\ attempt[o][n].status # "NONE"
    /\ ~attempt[o][n].released
    /\ ~attempt[o][n].consumed

\* Mutants: the claim is not checked; the claim is made and nothing restored.
ReleaseUnclaimed(o, n) == RestoreStock(o, n)

ReleaseWithoutRestore(o, n) == UNCHANGED <<stock, moves>>

ReleaseReservedStock(o, n) ==
    \/ ActiveHold(o, n) /\ RestoreStock(o, n)
    \/ ~ActiveHold(o, n) /\ UNCHANGED <<stock, moves>>

\* adjustQuantity: the desk sets the shelf of v to q, having seen its quantity.
AdjustQuantity(v, q) ==
    /\ q # stock[v]
    /\ stock' = [stock EXCEPT ![v] = q]
    /\ supply' = [supply EXCEPT ![v] = @ + q - stock[v]]
    /\ UNCHANGED <<order, payment, attempt, cart, moves, call, outcome, answered>>

-----------------------------------------------------------------------------
(* Placement *)

PlaceCod(o) ==
    /\ order[o].status = "NONE"
    /\ DeductStock(o, 0)
    /\ order' = [order EXCEPT ![o] = [NoOrder EXCEPT !.method = "COD",
                                                     !.status = "PENDING",
                                                     !.deducted = TRUE]]
    /\ payment' = [payment EXCEPT ![o] = "UNPAID"]
    /\ cart' = cart \ {o}
    /\ UNCHANGED <<attempt, supply, call, outcome, answered>>

PlaceVnpay(o) ==
    /\ order[o].status = "NONE"
    /\ DeductStock(o, 1)
    /\ order' = [order EXCEPT ![o] = [NoOrder EXCEPT !.method = "VNPAY",
                                                     !.status = "PENDING_PAYMENT"]]
    /\ payment' = [payment EXCEPT ![o] = "PENDING"]
    /\ attempt' = [attempt EXCEPT ![o][1] = NewAttempt(o)]
    /\ UNCHANGED <<cart, supply, call, outcome, answered>>

-----------------------------------------------------------------------------
(* VNPAY.  The provider decides an attempt once, while its payment page is  *)
(* open, and reports the decision any number of times and as late as it     *)
(* likes: to the server (IPN) until it gets a final answer, and through the *)
(* customer's browser (Return).                                             *)

ProviderDecides(o, n, d) ==
    /\ attempt[o][n].status = "PENDING"
    /\ outcome[o][n] = "open"
    /\ outcome' = [outcome EXCEPT ![o][n] = d]
    /\ UNCHANGED <<order, payment, attempt, cart, stock, supply, moves, call,
                   answered>>

\* isVerifiedVnpayCallback: the signed report belongs to a VNPAY payment.
Reported(o, n, d) == order[o].method = "VNPAY" /\ outcome[o][n] = d

\* Mutant: only a later attempt supersedes, not one that is already paid.
SupersededByLater(o, n) ==
    \E m \in Tries : m > n /\ attempt[o][m].status # "NONE"

Superseded(o, n) ==
    \E m \in Tries \ {n} : \/ attempt[o][m].status = "PAID"
                           \/ m > n /\ attempt[o][m].status # "NONE"

MayApply(o, n) ==
    /\ attempt[o][n].status = "PENDING"
    /\ ~Superseded(o, n)
    /\ payment[o] = "PENDING"
    /\ order[o].status = "PENDING_PAYMENT"
    /\ ActiveHold(o, n)

ApplySuccessfulVnpayTransaction(o, n) ==
    /\ MayApply(o, n)
    /\ attempt' = [attempt EXCEPT ![o][n].status = "PAID",
                                  ![o][n].consumed = TRUE]
    /\ payment' = [payment EXCEPT ![o] = "PAID"]
    /\ order' = [order EXCEPT ![o].status = "PENDING", ![o].deducted = TRUE]
    /\ cart' = cart \ {o}
    /\ UNCHANGED <<stock, supply, moves, call, outcome>>

IpnSuccess(o, n) ==
    /\ Reported(o, n, "success")
    /\ ApplySuccessfulVnpayTransaction(o, n)
    /\ answered' = answered \cup {<<o, n>>}

\* A duplicate ("00") or a report the transaction rejects ("02"): both final.
IpnSuccessNotApplied(o, n) ==
    /\ Reported(o, n, "success")
    /\ ~MayApply(o, n)
    /\ <<o, n>> \notin answered
    /\ answered' = answered \cup {<<o, n>>}
    /\ UNCHANGED <<order, payment, attempt, cart, stock, supply, moves, call,
                   outcome>>

ReturnSuccess(o, n) ==
    /\ Reported(o, n, "success")
    /\ ApplySuccessfulVnpayTransaction(o, n)
    /\ UNCHANGED answered

\* Mutant: the attempt fails and its hold is forgotten.
FailKeepingHold(o, n, attemptStatus, paymentStatus) ==
    /\ attempt' = [attempt EXCEPT ![o][n].status = attemptStatus]
    /\ payment' = [payment EXCEPT ![o] = paymentStatus]
    /\ order' = [order EXCEPT ![o].status = "PAYMENT_FAILED",
                              ![o].restored = TRUE]
    /\ UNCHANGED <<cart, stock, supply, moves, call, outcome, answered>>

\* What a failed, cancelled or expired attempt does to its order.
FailPayment(o, n, attemptStatus, paymentStatus) ==
    /\ ReleaseReservedStock(o, n)
    /\ attempt' = [attempt EXCEPT
                     ![o][n].status = attemptStatus,
                     ![o][n].released = @ \/ ActiveHold(o, n)]
    /\ payment' = [payment EXCEPT ![o] = paymentStatus]
    /\ order' = [order EXCEPT ![o].status = "PAYMENT_FAILED",
                              ![o].restored = TRUE]
    /\ UNCHANGED <<cart, supply, call, outcome, answered>>

\* Mutant: the transaction does not read the attempt's status again.
IpnFailureStale(o, n) ==
    /\ attempt[o][n].status # "NONE"
    /\ Reported(o, n, "failed")
    /\ FailPayment(o, n, "FAILED", "FAILED")

\* The IPN of a failed attempt ends it even when the hold is already released.
IpnFailure(o, n) ==
    /\ attempt[o][n].status = "PENDING"
    /\ \/ Reported(o, n, "failed") /\ FailPayment(o, n, "FAILED", "FAILED")
       \/ Reported(o, n, "cancelled") /\ FailPayment(o, n, "CANCELLED", "CANCELLED")

\* Mutant: only the attempt made at placement runs out.
ExpireFirstAttempt(o, n) ==
    /\ n = 1
    /\ attempt[o][n].status = "PENDING"
    /\ ActiveHold(o, n)
    /\ FailPayment(o, n, "EXPIRED", "EXPIRED")

\* The customer asks for the status of a payment whose attempt has run out.
\* Without a hold to release the attempt is left as it is.
ExpirePayment(o, n) ==
    /\ attempt[o][n].status = "PENDING"
    /\ ActiveHold(o, n)
    /\ FailPayment(o, n, "EXPIRED", "EXPIRED")

-----------------------------------------------------------------------------
(* Retry *)

NoPendingAttempt(o) == \A n \in Tries : attempt[o][n].status # "PENDING"

KeyUnused(k) == \A o \in Orders, n \in Tries : attempt[o][n].key # k

\* toResponse: the customer's app offers a retry for these orders only.
RetryOffered(o) ==
    order[o].status = "PAYMENT_FAILED" /\ order[o].method = "VNPAY"

RetryRead(c, o, k) ==
    /\ call[c] = NoCall
    /\ order[o].status # "NONE"
    /\ OfferedOnly => RetryOffered(o)
    /\ payment[o] # "PAID"
    /\ NoPendingAttempt(o)
    /\ call' = [call EXCEPT ![c] = [order |-> o, key |-> k]]
    /\ UNCHANGED <<order, payment, attempt, cart, stock, supply, moves,
                   outcome, answered>>

\* The attempt a retry creates: the first number not used yet.
NextTry(o, n) ==
    /\ attempt[o][n].status = "NONE"
    /\ \A m \in 1 .. (n - 1) : attempt[o][m].status # "NONE"

\* Mutant: the transaction trusts the read made before it.
PendingNotChecked(o) == TRUE

\* The transaction of the retry looks for a waiting attempt again.
PendingChecked(o) == NoPendingAttempt(o)

RetryCreate(c) ==
    /\ call[c] # NoCall
    /\ KeyUnused(call[c].key)
    /\ LET o == call[c].order IN
         /\ PendingChecked(o)
         /\ \E n \in Tries :
              /\ NextTry(o, n)
              /\ DeductStock(o, n)
              /\ attempt' = [attempt EXCEPT ![o][n] = NewAttempt(call[c].key)]
         /\ payment' = [payment EXCEPT ![o] = "PENDING"]
         /\ order' = [order EXCEPT ![o].status = "PENDING_PAYMENT",
                                   ![o].restored = FALSE]
    /\ call' = [call EXCEPT ![c] = NoCall]
    /\ UNCHANGED <<cart, supply, outcome, answered>>

\* The key names an attempt already (it is returned again), the transaction
\* is refused or aborted, or the request dies.
RetryEnd(c) ==
    /\ call[c] # NoCall
    /\ call' = [call EXCEPT ![c] = NoCall]
    /\ UNCHANGED <<order, payment, attempt, cart, stock, supply, moves,
                   outcome, answered>>

-----------------------------------------------------------------------------
(* Cancellation *)

CUSTOMER_CANCELLABLE_STATUSES == {"PENDING_PAYMENT", "PAYMENT_FAILED", "PENDING"}

ADMIN_CANCELLABLE_STATUSES ==
    CUSTOMER_CANCELLABLE_STATUSES \cup {"CONFIRMED", "PACKING"}

\* The hold a cancellation claims: the newest attempt that still has one.
HoldToRelease(o, n) ==
    ActiveHold(o, n) /\ \A m \in Tries : m > n => ~ActiveHold(o, m)

NoActiveHold(o) == \A n \in Tries : ~ActiveHold(o, n)

\* Mutant: the restored timestamp is looked at the wrong way.
CodStockBack(o) ==
    order[o].method = "COD" /\ order[o].deducted /\ order[o].restored

CodStockOut(o) ==
    order[o].method = "COD" /\ order[o].deducted /\ ~order[o].restored

CancelOrderInTransaction(o, allowedStatuses) ==
    /\ order[o].status \in allowedStatuses
    /\ ~(order[o].method = "VNPAY" /\ payment[o] = "PAID")
    /\ \/ \E n \in Tries :
            /\ HoldToRelease(o, n)
            /\ RestoreStock(o, n)
            /\ attempt' = [attempt EXCEPT ![o][n].released = TRUE]
       \/ /\ NoActiveHold(o) /\ CodStockOut(o)
          /\ RestoreStock(o, 0)
          /\ UNCHANGED attempt
       \/ /\ NoActiveHold(o) /\ ~CodStockOut(o)
          /\ UNCHANGED <<stock, moves, attempt>>
    /\ order' = [order EXCEPT
                   ![o].status = "CANCELLED",
                   ![o].restored = @ \/ ~NoActiveHold(o) \/ CodStockOut(o)]
    /\ payment' = [payment EXCEPT
                     ![o] = IF @ \in {"PENDING", "UNPAID"} THEN "CANCELLED" ELSE @]
    /\ UNCHANGED <<cart, supply, call, outcome, answered>>

CustomerCancel(o) == CancelOrderInTransaction(o, CUSTOMER_CANCELLABLE_STATUSES)

AdminCancel(o) == CancelOrderInTransaction(o, ADMIN_CANCELLABLE_STATUSES)

-----------------------------------------------------------------------------
(* Fulfilment *)

NEXT_STATUS == [PENDING |-> "CONFIRMED", CONFIRMED |-> "PACKING",
                PACKING |-> "SHIPPING", SHIPPING |-> "COMPLETED"]

\* Mutant: the branch completes without the customer's confirmation.
AdminTransitionUnconfirmed(o) ==
    /\ order[o].status \in DOMAIN NEXT_STATUS
    /\ LET target == NEXT_STATUS[order[o].status] IN
         /\ order' = [order EXCEPT ![o].status = target]
         /\ payment' = [payment EXCEPT
                          ![o] = IF target = "COMPLETED" /\ @ = "UNPAID"
                                 THEN "PAID" ELSE @]
    /\ UNCHANGED <<attempt, cart, stock, supply, moves, call, outcome, answered>>

AdminTransition(o) ==
    /\ order[o].status \in DOMAIN NEXT_STATUS
    /\ LET target == NEXT_STATUS[order[o].status] IN
         /\ target = "COMPLETED" => order[o].received
         /\ order' = [order EXCEPT ![o].status = target]
         /\ payment' = [payment EXCEPT
                          ![o] = IF /\ target = "COMPLETED"
                                    /\ order[o].method = "COD"
                                    /\ @ = "UNPAID"
                                 THEN "PAID" ELSE @]
    /\ UNCHANGED <<attempt, cart, stock, supply, moves, call, outcome, answered>>

ConfirmReceived(o) ==
    /\ ~order[o].received
    /\ order[o].status = "SHIPPING"
    /\ order' = [order EXCEPT ![o].received = TRUE]
    /\ UNCHANGED <<payment, attempt, cart, stock, supply, moves, call, outcome,
                   answered>>

-----------------------------------------------------------------------------
OrderStep(o) ==
    \/ PlaceCod(o) \/ PlaceVnpay(o)
    \/ CustomerCancel(o) \/ AdminCancel(o)
    \/ AdminTransition(o) \/ ConfirmReceived(o)

AttemptStep(o, n) ==
    \/ \E d \in Outcomes \ {"open"} : ProviderDecides(o, n, d)
    \/ IpnSuccess(o, n) \/ IpnSuccessNotApplied(o, n) \/ ReturnSuccess(o, n)
    \/ IpnFailure(o, n) \/ ExpirePayment(o, n)

RetryStep(c) ==
    \/ \E o \in Orders : \E k \in Keys \cup {o} : RetryRead(c, o, k)
    \/ RetryCreate(c) \/ RetryEnd(c)

Next ==
    \/ \E o \in Orders : OrderStep(o)
    \/ \E o \in Orders, n \in Tries : AttemptStep(o, n)
    \/ \E c \in Calls : RetryStep(c)
    \/ \E v \in Variants : \E q \in 0 .. MaxStock : AdjustQuantity(v, q)

Spec == Init /\ [][Next]_vars

\* The result page of the customer's app keeps asking for the payment status.
Polling == \A o \in Orders : WF_vars(\E n \in Tries : ExpirePayment(o, n))

FairSpec == Spec /\ Polling

-----------------------------------------------------------------------------
(* Invariants *)

\* Every variable holds rows and states the schema allows.
TypeOK ==
    /\ order \in [Orders -> OrderRow]
    /\ payment \in [Orders -> PaymentStatus]
    /\ attempt \in [Orders -> [Tries -> AttemptRow]]
    /\ cart \subseteq Orders
    /\ stock \in [Variants -> Nat]
    /\ supply \in [Variants -> Int]
    /\ moves \in [Sources -> [taken : Nat, returned : Nat]]
    /\ call \in [Calls -> {NoCall} \cup [order : Orders, key : Keys \cup Orders]]
    /\ outcome \in [Orders -> [Tries -> Outcomes]]
    /\ answered \subseteq Orders \X Tries

Outstanding(s) == moves[s].taken - moves[s].returned

LedgerOf(o) ==
    /\ moves[<<o, 0>>].taken = IF order[o].method = "COD" THEN 1 ELSE 0
    /\ moves[<<o, 0>>].returned <= moves[<<o, 0>>].taken
    /\ \A n \in Tries :
         /\ moves[<<o, n>>].taken = IF attempt[o][n].status = "NONE" THEN 0 ELSE 1
         /\ moves[<<o, n>>].returned = IF attempt[o][n].released THEN 1 ELSE 0
         /\ attempt[o][n].consumed => ~attempt[o][n].released

\* The movement ledger and the rows tell the same story: an attempt took its
\* stock once and gave it back at most once, exactly when its row says released,
\* and what was consumed is never given back.  So the unique index on a
\* movement's (source, variant, type) never aborts a transaction.
LedgerMatchesRows == \A o \in Orders : LedgerOf(o)

PendingOf(o) ==
    \A n \in Tries : attempt[o][n].status = "PENDING" =>
        /\ \A m \in Tries \ {n} : attempt[o][m].status # "PENDING"
        /\ \/ /\ order[o].status = "PENDING_PAYMENT"
              /\ payment[o] = "PENDING"
              /\ ActiveHold(o, n)
           \/ /\ order[o].status = "CANCELLED"
              /\ payment[o] = "CANCELLED"
              /\ attempt[o][n].released

\* A payment has at most one attempt waiting for VNPAY, and its order waits with
\* it; only a cancelled order may be left with a waiting attempt, whose hold the
\* cancellation released.
PendingAttempt == \A o \in Orders : PendingOf(o)

HoldOf(o) ==
    /\ \A n \in Tries : ActiveHold(o, n) => attempt[o][n].status = "PENDING"
    /\ order[o].status = "PENDING_PAYMENT" => ~NoActiveHold(o)

\* Stock is reserved for an attempt only while the attempt waits for VNPAY, and
\* an order that waits for its payment has stock reserved.
HoldHasOwner == \A o \in Orders : HoldOf(o)

PaidOf(o) ==
    /\ \A m, n \in Tries :
         attempt[o][m].status = "PAID" /\ attempt[o][n].status = "PAID" => m = n
    /\ \A n \in Tries :
         attempt[o][n].status = "PAID" =>
             outcome[o][n] = "success" /\ attempt[o][n].consumed
    /\ order[o].method = "VNPAY" /\ payment[o] = "PAID" =>
         \E n \in Tries : attempt[o][n].status = "PAID"

\* A customer is never recorded as having paid twice for an order, and a VNPAY
\* payment is PAID only on the strength of an attempt that VNPAY reported as
\* successful and that consumed its stock.
PaidIsBacked == \A o \in Orders : PaidOf(o)

\* The branch only fulfils orders whose goods are off the shelf exactly once and
\* whose money is certain: VNPAY orders are paid, COD orders are collected on
\* completion, nothing is completed before the customer confirmed receipt, and
\* the lines have left the cart.
FulfilmentFunded ==
    \A o \in Orders : order[o].status \in Fulfilment =>
        /\ o \notin cart
        /\ \E s \in {o} \X (0 .. MaxTries) :
             /\ Outstanding(s) = 1
             /\ \A t \in ({o} \X (0 .. MaxTries)) \ {s} : Outstanding(t) = 0
        /\ order[o].method = "VNPAY" => payment[o] = "PAID"
        /\ order[o].method = "COD" =>
             payment[o] = IF order[o].status = "COMPLETED" THEN "PAID" ELSE "UNPAID"
        /\ order[o].status = "COMPLETED" => order[o].received

\* An attempt that has ended stays as it ended, whatever callback, poll, retry or
\* cancellation comes late.
EndedAttemptIsFinal ==
    [][\A o \in Orders, n \in Tries :
         attempt[o][n].status \notin {"NONE", "PENDING"} =>
             attempt'[o][n] = attempt[o][n]]_vars

-----------------------------------------------------------------------------
(* What holds as long as clients retry only what the order offers, one      *)
(* request at a time.                                                       *)

\* No order has its goods taken off the shelf twice at the same time.
NoDuplicateDeduction ==
    \A o \in Orders : \A s, t \in {o} \X (0 .. MaxTries) :
        Outstanding(s) >= 1 /\ Outstanding(t) >= 1 => s = t /\ Outstanding(s) = 1

\* A cancelled order has given back everything it took.
CancelReturnsStock ==
    \A o \in Orders : order[o].status = "CANCELLED" =>
        \A n \in 0 .. MaxTries : Outstanding(<<o, n>>) = 0

\* While the customer keeps asking for the status, no reservation stays on the
\* shelf for ever: it is consumed or released.
HoldsEnd ==
    \A o \in Orders : \A n \in Tries : ActiveHold(o, n) ~> ~ActiveHold(o, n)

-----------------------------------------------------------------------------
(* What the repository says of its orders and the code does not keep        *)

\* A paid payment takes no new attempt (VNPAY_RETRY_NOT_ALLOWED).  Two retry
\* requests that both read the payment before the first one was paid break it.
PaidStaysPaid ==
    [][\A o \in Orders : payment[o] = "PAID" => payment'[o] = "PAID"]_vars

\* COMPLETED and CANCELLED are the terminal outcomes the revenue report counts.
\* The IPN of an attempt that failed after the cancellation reopens the order.
TerminalOutcomeIsFinal ==
    [][\A o \in Orders : order[o].status \in {"COMPLETED", "CANCELLED"} =>
                             order'[o].status = order[o].status]_vars

\* VNPAY is told that the order is already confirmed (or confirmed now) only when
\* the customer's payment is on record.  A charge reported after the cancellation
\* or the expiry gets the same final answer and is recorded nowhere.
AnsweredChargeIsRecorded ==
    \A s \in answered : attempt[s[1]][s[2]].status = "PAID"

-----------------------------------------------------------------------------
(* The implementation of StockHolds *)

NeedOf == [s \in Sources |-> Demand[s[1]]]

holdOf ==
    [s \in Sources |->
        IF moves[s].taken = 0 THEN "none"
        ELSE IF moves[s].returned > 0 THEN "returned"
        ELSE IF s[2] \in Tries /\ attempt[s[1]][s[2]].consumed THEN "sold"
        ELSE "taken"]

Holds == INSTANCE StockHolds WITH Need <- NeedOf, hold <- holdOf

\* Whatever the customers, the branch, VNPAY and the clock do, every order and
\* every attempt takes its goods once and sells them or returns them once.
ImplementsStockHolds == Holds!Spec

=============================================================================
