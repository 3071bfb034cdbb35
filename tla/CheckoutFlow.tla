----------------------------- MODULE CheckoutFlow -----------------------------
(***************************************************************************)
(* From the cart to the order (CartService, CheckoutService).  A preview   *)
(* shows a customer what an order would be, and names it by a reference; a *)
(* placement names the reference, resolves the checkout again from what is *)
(* stored now, and is refused unless the two agree.  The order is then     *)
(* written by a transaction from what was resolved before it.  Meanwhile   *)
(* the shop changes, and other requests of the customer run.               *)
(*                                                                         *)
(* One customer is shown.  What a payment does to the order is the matter  *)
(* of OrderPayments; here it takes the lines out of the cart or returns    *)
(* the stock.  A preview without an address or a method cannot be placed   *)
(* and is left out; the shipping fee follows from what the preview holds   *)
(* (the quantities and weights, the branch and the address).               *)
(***************************************************************************)
EXTENDS Naturals, FiniteSets, Sequences

CONSTANTS
    Shops,          \* branches
    Goods,          \* product variants
    Prices,
    Amounts,        \* quantities that a request can name
    MaxStock,       \* what is on the shelf at first
    LineIds,        \* ids of cart_items, never used twice
    OrderKeys,      \* idempotency keys
    Clicks,         \* requests that can run at once
    MaxEvents,      \* bound on the changes of the shop
    MaxPreviews     \* bound on the previews

ASSUME CheckoutParameters ==
    /\ Amounts \subseteq Nat \ {0}
    /\ MaxStock \in Nat /\ MaxEvents \in Nat /\ MaxPreviews \in Nat

VARIABLES
    shop,           \* prices, stock, what is in sale, open branches, the saved address
    cart,           \* carts and cart_items; a line is there when its id is in the domain
    spent,          \* ids of lines that have been used
    previews,       \* what the customer has been shown
    click,          \* requests between their reads and their writes
    orders,         \* oldest first
    events          \* changes of the shop so far

checkoutVars == <<shop, cart, spent, previews, click, orders, events>>

Methods == {"COD", "VNPAY"}

Shop == [price: [Goods -> Prices], stock: [Shops -> [Goods -> Nat]], inSale: SUBSET Goods,
         open: SUBSET Shops, address: Nat]

CartLine == [good: Goods, amount: Nat, known: Prices]
PreviewLine == [good: Goods, amount: Nat, price: Prices, left: Nat]

\* A row for some of the line ids.
HasLines(f, rows) == DOMAIN f \subseteq LineIds /\ f \in [DOMAIN f -> rows]

IsPreview(p) ==
    /\ p = [shop |-> p.shop, lines |-> p.lines, address |-> p.address, method |-> p.method]
    /\ p.shop \in Shops /\ p.address \in Nat /\ p.method \in Methods
    /\ HasLines(p.lines, PreviewLine)

NoClick == [kind |-> "NONE"]
IsClick(r) ==
    \/ r = NoClick
    \/ r \in [kind: {"ADD"}, shop: Shops, good: Goods, amount: Amounts, left: Nat, price: Prices]
    \/ r \in [kind: {"CHANGE"}, line: LineIds, amount: Amounts, price: Prices]
    \/ /\ r = [kind |-> "PLACE", key |-> r.key, content |-> r.content]
       /\ r.key \in OrderKeys /\ IsPreview(r.content)

IsOrder(o) ==
    /\ o = [key |-> o.key, content |-> o.content, status |-> o.status]
    /\ o.key \in OrderKeys /\ o.status \in {"PLACED", "PAID", "CANCELLED"}
    /\ IsPreview(o.content)

CheckoutTypeOK ==
    /\ shop \in Shop
    /\ cart = [shop |-> cart.shop, lines |-> cart.lines]
    /\ cart.shop \in Shops /\ HasLines(cart.lines, CartLine)
    /\ DOMAIN cart.lines \subseteq spent /\ spent \subseteq LineIds
    /\ \A p \in previews : IsPreview(p)
    /\ \A c \in Clicks : IsClick(click[c])
    /\ \A i \in DOMAIN orders : IsOrder(orders[i])
    /\ events \in 0..MaxEvents

CheckoutInit ==
    /\ shop \in [price: [Goods -> Prices], stock: {[b \in Shops |-> [g \in Goods |-> MaxStock]]},
                 inSale: {Goods}, open: {Shops}, address: {0}]
    /\ cart \in [shop: Shops, lines: {[l \in {} |-> 0]}]
    /\ spent = {}
    /\ previews = {}
    /\ click = [c \in Clicks |-> NoClick]
    /\ orders = <<>>
    /\ events = 0

-----------------------------------------------------------------------------
(* The cart. *)

InCart == DOMAIN cart.lines

SetClick(c, request) == click' = [click EXCEPT ![c] = request]

CartWith(lines) == cart' = [cart EXCEPT !.lines = lines]
Dropped(ids) == [l \in InCart \ ids |-> cart.lines[l]]

\* add: the branch, the variant, its stock and price are read first.
AddBegin(c, b, g, n) ==
    /\ click[c] = NoClick
    /\ b \in shop.open /\ g \in shop.inSale /\ shop.stock[b][g] > 0
    /\ SetClick(c, [kind |-> "ADD", shop |-> b, good |-> g, amount |-> n,
                    left |-> shop.stock[b][g], price |-> shop.price[g]])
    /\ UNCHANGED <<shop, cart, spent, previews, orders, events>>

LinesWith(g) == {l \in InCart : cart.lines[l].good = g}

\* addItem: the cart moves to the branch also when the quantity is refused.
AddRefused(c) ==
    LET r == click[c] IN
    /\ r.kind = "ADD"
    /\ \/ LinesWith(r.good) = {} /\ r.amount > r.left
       \/ \E l \in LinesWith(r.good) : cart.lines[l].amount + r.amount > r.left
    /\ cart' = [cart EXCEPT !.shop = r.shop]
    /\ SetClick(c, NoClick)
    /\ UNCHANGED <<shop, spent, previews, orders, events>>

AddNewLine(c, l) ==
    LET r == click[c] IN
    /\ r.kind = "ADD" /\ LinesWith(r.good) = {} /\ r.amount <= r.left
    /\ l \notin spent
    /\ spent' = spent \cup {l}
    /\ cart' = [shop |-> r.shop,
                lines |-> [m \in InCart \cup {l} |->
                    IF m = l THEN [good |-> r.good, amount |-> r.amount, known |-> r.price]
                    ELSE cart.lines[m]]]
    /\ SetClick(c, NoClick)
    /\ UNCHANGED <<shop, previews, orders, events>>

AddToLine(c, l) ==
    LET r == click[c] IN
    /\ r.kind = "ADD" /\ l \in LinesWith(r.good)
    /\ cart.lines[l].amount + r.amount <= r.left
    /\ cart' = [shop |-> r.shop,
                lines |-> [cart.lines EXCEPT ![l] =
                    [good |-> r.good, amount |-> @.amount + r.amount, known |-> r.price]]]
    /\ SetClick(c, NoClick)
    /\ UNCHANGED <<shop, spent, previews, orders, events>>

\* update: the line, the cart's branch and the variant are read, then the line
\* is written by its id; by then it can be gone.
ChangeBegin(c, l, n) ==
    /\ click[c] = NoClick
    /\ l \in InCart
    /\ LET g == cart.lines[l].good IN
       /\ g \in shop.inSale /\ n <= shop.stock[cart.shop][g]
       /\ SetClick(c, [kind |-> "CHANGE", line |-> l, amount |-> n, price |-> shop.price[g]])
    /\ UNCHANGED <<shop, cart, spent, previews, orders, events>>

ChangeCommit(c) ==
    LET r == click[c] IN
    /\ r.kind = "CHANGE"
    /\ CartWith([l \in InCart |-> IF l = r.line
                    THEN [good |-> cart.lines[l].good, amount |-> r.amount, known |-> r.price]
                    ELSE cart.lines[l]])
    /\ SetClick(c, NoClick)
    /\ UNCHANGED <<shop, spent, previews, orders, events>>

RemoveLine(l) ==
    /\ l \in InCart
    /\ CartWith(Dropped({l}))
    /\ UNCHANGED <<shop, spent, previews, click, orders, events>>

\* get and changeBranch (syncBranch): the lines stay.
SwitchBranch(b) ==
    /\ b \in shop.open
    /\ cart' = [cart EXCEPT !.shop = b]
    /\ UNCHANGED <<shop, spent, previews, click, orders, events>>

-----------------------------------------------------------------------------
(* The checkout. *)

\* CartValidationService.evaluate, without PRICE_CHANGED, which does not block.
Eligible(l) ==
    LET line == cart.lines[l]
        left == shop.stock[cart.shop][line.good]
    IN cart.shop \in shop.open /\ line.good \in shop.inSale /\ left > 0 /\ line.amount <= left

\* resolveCheckout: the selected lines that are eligible, at today's prices.
Resolved(ids, method) ==
    [shop |-> cart.shop,
     lines |-> [l \in {m \in ids : Eligible(m)} |->
         LET line == cart.lines[l] IN
         [good |-> line.good, amount |-> line.amount, price |-> shop.price[line.good],
          left |-> shop.stock[cart.shop][line.good]]],
     address |-> shop.address, method |-> method]

Selectable(ids) == ids \subseteq InCart /\ \E l \in ids : Eligible(l)

\* Mutant: the prices are left out of the hash.
ReferenceUnpriced(p) ==
    <<p.shop, [l \in DOMAIN p.lines |-> p.lines[l].amount], p.address, p.method>>

\* createPreviewReference: what goes into the hash.
Reference(p) == <<p.shop, p.lines, p.address, p.method>>

ShowPreview(ids, method) ==
    /\ Selectable(ids)
    /\ Cardinality(previews) < MaxPreviews
    /\ previews' = previews \cup {Resolved(ids, method)}
    /\ UNCHANGED <<shop, cart, spent, click, orders, events>>

WithKey(key) == {i \in DOMAIN orders : orders[i].key = key}

\* findIdempotentOrder; a VNPAY placement goes on when the order was paid on delivery.
Answered(key, method) ==
    \E i \in WithKey(key) : method = "VNPAY" => orders[i].content.method = "VNPAY"

\* placeCod and placeVnpay, up to the transaction (ensureReadyForOrder).
PlaceBegin(c, key, ids, method) ==
    /\ click[c] = NoClick
    /\ ~Answered(key, method)
    /\ Selectable(ids)
    /\ \E p \in previews : Reference(p) = Reference(Resolved(ids, method))
    /\ SetClick(c, [kind |-> "PLACE", key |-> key, content |-> Resolved(ids, method)])
    /\ UNCHANGED <<shop, cart, spent, previews, orders, events>>

\* What a preview takes from the stock of a variant: a cart has one line of it.
Taken(p, g) ==
    IF \E l \in DOMAIN p.lines : p.lines[l].good = g
    THEN p.lines[CHOOSE l \in DOMAIN p.lines : p.lines[l].good = g].amount ELSE 0

InStock(p) == \A g \in Goods : shop.stock[p.shop][g] >= Taken(p, g)

\* deductStock and what is written back later.
StockLess(p) ==
    [shop EXCEPT !.stock[p.shop] = [g \in Goods |-> shop.stock[p.shop][g] - Taken(p, g)]]
StockMore(p) ==
    [shop EXCEPT !.stock[p.shop] = [g \in Goods |-> shop.stock[p.shop][g] + Taken(p, g)]]

\* What the transaction asks before it writes.
KeyIsFree(key) == WithKey(key) = {}

Place(c) ==
    LET r == click[c] IN
    /\ r.kind = "PLACE"
    /\ KeyIsFree(r.key) /\ InStock(r.content)
    /\ shop' = StockLess(r.content)
    /\ orders' = Append(orders, [key |-> r.key, content |-> r.content, status |-> "PLACED"])
    /\ IF r.content.method = "COD" THEN CartWith(Dropped(DOMAIN r.content.lines))
       ELSE UNCHANGED cart
    /\ SetClick(c, NoClick)
    /\ UNCHANGED <<spent, previews, events>>

\* Answered with the order that has the key, or refused (ORDER_STOCK_CONFLICT).
PlaceNothing(c) ==
    LET r == click[c] IN
    /\ r.kind = "PLACE"
    /\ ~KeyIsFree(r.key) \/ ~InStock(r.content)
    /\ SetClick(c, NoClick)
    /\ UNCHANGED <<shop, cart, spent, previews, orders, events>>

-----------------------------------------------------------------------------
(* What happens to orders, and to the shop. *)

SetStatus(i, status) == orders' = [orders EXCEPT ![i].status = status]

\* A payment consumes the lines by their ids, whatever they hold by now.
Pay(i) ==
    /\ orders[i].status = "PLACED" /\ orders[i].content.method = "VNPAY"
    /\ SetStatus(i, "PAID")
    /\ CartWith(Dropped(DOMAIN orders[i].content.lines))
    /\ UNCHANGED <<shop, spent, previews, click, events>>

\* The payment fails or the order is cancelled.
CancelOrder(i) ==
    /\ orders[i].status = "PLACED"
    /\ SetStatus(i, "CANCELLED")
    /\ shop' = StockMore(orders[i].content)
    /\ UNCHANGED <<cart, spent, previews, click, events>>

Toggled(S, x) == IF x \in S THEN S \ {x} ELSE S \cup {x}

ShopChange ==
    /\ events < MaxEvents
    /\ events' = events + 1
    /\ \/ \E g \in Goods, n \in Prices : shop' = [shop EXCEPT !.price[g] = n]
       \/ \E b \in Shops, g \in Goods, n \in 0..MaxStock :
              shop' = [shop EXCEPT !.stock[b][g] = n]
       \/ \E g \in Goods : shop' = [shop EXCEPT !.inSale = Toggled(@, g)]
       \/ \E b \in Shops : shop' = [shop EXCEPT !.open = Toggled(@, b)]
       \/ shop' = [shop EXCEPT !.address = events + 1]
    /\ UNCHANGED <<cart, spent, previews, click, orders>>

CartStep ==
    \/ \E c \in Clicks, b \in Shops, g \in Goods, n \in Amounts : AddBegin(c, b, g, n)
    \/ \E c \in Clicks : AddRefused(c) \/ ChangeCommit(c)
    \/ \E c \in Clicks, l \in LineIds : AddNewLine(c, l) \/ AddToLine(c, l)
    \/ \E c \in Clicks, l \in LineIds, n \in Amounts : ChangeBegin(c, l, n)
    \/ \E l \in LineIds : RemoveLine(l)
    \/ \E b \in Shops : SwitchBranch(b)

CheckoutStep ==
    \/ \E ids \in SUBSET LineIds, method \in Methods : ShowPreview(ids, method)
    \/ \E c \in Clicks, key \in OrderKeys, ids \in SUBSET LineIds, method \in Methods :
           PlaceBegin(c, key, ids, method)
    \/ \E c \in Clicks : Place(c) \/ PlaceNothing(c)
    \/ \E i \in DOMAIN orders : Pay(i) \/ CancelOrder(i)

CheckoutNext == CartStep \/ CheckoutStep \/ ShopChange

CheckoutSpec == CheckoutInit /\ [][CheckoutNext]_checkoutVars

-----------------------------------------------------------------------------
\* An order is for nothing but what its customer was shown and confirmed, though
\* it is resolved again and written later, while the cart, the prices and the
\* stock change; a key that is sent again places no second order; and what has
\* been ordered on delivery or paid for is no longer in the cart.
OrdersAsPreviewed ==
    \A i \in DOMAIN orders :
        /\ orders[i].content \in previews
        /\ \A j \in DOMAIN orders : orders[j].key = orders[i].key => j = i
        /\ orders[i].content.method = "COD" \/ orders[i].status = "PAID"
               => InCart \cap DOMAIN orders[i].content.lines = {}
=============================================================================
