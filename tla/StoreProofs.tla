------------------------------ MODULE StoreProofs ------------------------------
(***************************************************************************)
(* Proofs about the shop, for any number of requests, books and products:  *)
(* checkout (CheckoutFlow), delivery fees (ShippingFees), the public pages *)
(* (Storefront), and MCStore, which composes these with the stock and the  *)
(* catalog, whose proofs are in StockTransactionsProofs and CatalogProofs. *)
(***************************************************************************)
EXTENDS MCStore, CatalogProofs, StockTransactionsProofs, WellFoundedInduction, SequenceTheorems

-----------------------------------------------------------------------------
(* Checkout.  The invariant says what has to be known of a placement between  *)
(* its reads and its writes (its content was shown, its lines were in the cart *)
(* once), and that the ids of lines are never used twice, so that a line which *)
(* an order has consumed does not come back.                                   *)

\* The sets that the predicates of CheckoutFlow describe.
LinesOver(rows) == UNION {[S -> rows] : S \in SUBSET LineIds}

Cart == [shop: Shops, lines: LinesOver(CartLine)]
Preview == [shop: Shops, lines: LinesOver(PreviewLine), address: Nat, method: Methods]
Order == [key: OrderKeys, content: Preview, status: {"PLACED", "PAID", "CANCELLED"}]

AddClick == [kind: {"ADD"}, shop: Shops, good: Goods, amount: Amounts, left: Nat, price: Prices]
ChangeClick == [kind: {"CHANGE"}, line: LineIds, amount: Amounts, price: Prices]
PlaceClick == [kind: {"PLACE"}, key: OrderKeys, content: Preview]
Click == {NoClick} \cup AddClick \cup ChangeClick \cup PlaceClick

\* The content of an order, and of a placement that runs.
Previewed(p) == p \in previews /\ DOMAIN p.lines \subseteq spent

CartInv == cart \in Cart /\ InCart \subseteq spent /\ spent \subseteq LineIds

ClickInv ==
    /\ click \in [Clicks -> Click]
    /\ \A c \in Clicks : click[c].kind = "PLACE" => Previewed(click[c].content)

OrderInv ==
    /\ orders \in Seq(Order)
    /\ \A i \in DOMAIN orders : Previewed(orders[i].content)
    /\ \A i, j \in DOMAIN orders : orders[j].key = orders[i].key => j = i

Consumed(o) == o.content.method = "COD" \/ o.status = "PAID"

GoneInv ==
    \A i \in DOMAIN orders : Consumed(orders[i]) => InCart \cap DOMAIN orders[i].content.lines = {}

CheckoutInv ==
    /\ shop \in Shop
    /\ CartInv
    /\ previews \subseteq Preview
    /\ ClickInv
    /\ OrderInv
    /\ GoneInv
    /\ events \in 0..MaxEvents

-----------------------------------------------------------------------------
(* The sets. *)

LEMMA LinesOverIs ==
    ASSUME NEW rows, NEW f
    PROVE  f \in LinesOver(rows) <=> HasLines(f, rows)
BY DEF LinesOver, HasLines

LEMMA PreviewIs ==
    ASSUME NEW p \in Preview
    PROVE  IsPreview(p)
<1>1. HasLines(p.lines, PreviewLine)
  BY LinesOverIs DEF Preview
<1> QED
  BY <1>1 DEF Preview, IsPreview

LEMMA ClickKinds ==
    ASSUME NEW r \in Click
    PROVE  /\ r.kind = "ADD" => r \in AddClick
           /\ r.kind = "CHANGE" => r \in ChangeClick
           /\ r.kind = "PLACE" => r \in PlaceClick
<1>1. CASE r = NoClick
  BY <1>1 DEF NoClick
<1>2. CASE r \in AddClick
  BY <1>2 DEF AddClick
<1>3. CASE r \in ChangeClick
  BY <1>3 DEF ChangeClick
<1>4. CASE r \in PlaceClick
  BY <1>4 DEF PlaceClick
<1> QED
  BY <1>1, <1>2, <1>3, <1>4 DEF Click

LEMMA ClickIs ==
    ASSUME NEW r \in Click
    PROVE  IsClick(r)
<1>1. r \in PlaceClick => IsPreview(r.content) /\ r.key \in OrderKeys
                          /\ r = [kind |-> "PLACE", key |-> r.key, content |-> r.content]
  BY PreviewIs DEF PlaceClick
<1> QED
  BY <1>1 DEF Click, AddClick, ChangeClick, IsClick

-----------------------------------------------------------------------------
(* What a step that writes one of the variables has to show. *)

LEMMA ClickWrite ==
    ASSUME CheckoutInv, NEW c \in Clicks, NEW r \in Click, SetClick(c, r),
           r.kind = "PLACE" => Previewed(r.content),
           previews \subseteq previews', spent \subseteq spent'
    PROVE  ClickInv'
<1>1. \A p : Previewed(p) => Previewed(p)'
  BY DEF Previewed
<1>2. click' \in [Clicks -> Click]
  BY DEF SetClick, CheckoutInv, ClickInv
<1>3. \A d \in Clicks : click'[d] = IF d = c THEN r ELSE click[d]
  BY DEF SetClick, CheckoutInv, ClickInv
<1> QED
  BY <1>1, <1>2, <1>3 DEF CheckoutInv, ClickInv, Previewed

LEMMA ClickDone ==
    ASSUME CheckoutInv, NEW c \in Clicks, SetClick(c, NoClick),
           previews \subseteq previews', spent \subseteq spent'
    PROVE  ClickInv'
<1>1. NoClick \in Click /\ NoClick.kind # "PLACE"
  BY DEF Click, NoClick
<1> QED
  BY <1>1, ClickWrite

LEMMA ClicksStay ==
    ASSUME CheckoutInv, click' = click, previews \subseteq previews', spent \subseteq spent'
    PROVE  ClickInv'
BY DEF CheckoutInv, ClickInv, Previewed

LEMMA OrdersStay ==
    ASSUME CheckoutInv, orders' = orders, previews \subseteq previews', spent \subseteq spent'
    PROVE  OrderInv'
BY DEF CheckoutInv, OrderInv, Previewed

\* Lines that are not those of an order can only be new.
LEMMA GoneStays ==
    ASSUME CheckoutInv, orders' = orders, InCart' \cap spent \subseteq InCart
    PROVE  GoneInv'
BY DEF CheckoutInv, GoneInv, OrderInv, Previewed, Consumed

\* A cart of other lines.
LEMMA CartWrite ==
    ASSUME CheckoutInv, NEW b \in Shops, NEW lines, HasLines(lines, CartLine),
           cart' = [shop |-> b, lines |-> lines],
           DOMAIN lines \subseteq spent', spent' \subseteq LineIds
    PROVE  CartInv' /\ InCart' = DOMAIN lines
<1>1. lines \in LinesOver(CartLine)
  BY LinesOverIs
<1> QED
  BY <1>1 DEF CartInv, Cart, InCart

LEMMA CartRow ==
    ASSUME CheckoutInv
    PROVE  /\ cart.shop \in Shops /\ HasLines(cart.lines, CartLine)
           /\ \A lines : [cart EXCEPT !.lines = lines] = [shop |-> cart.shop, lines |-> lines]
           /\ \A b : [cart EXCEPT !.shop = b] = [shop |-> b, lines |-> cart.lines]
BY LinesOverIs DEF CheckoutInv, CartInv, Cart

LEMMA CartStays ==
    ASSUME CheckoutInv, UNCHANGED <<cart, spent>>
    PROVE  CartInv' /\ InCart' = InCart
BY DEF CheckoutInv, CartInv, InCart

-----------------------------------------------------------------------------
(* The cart. *)

LEMMA AddBeginKeeps ==
    ASSUME CheckoutInv, NEW c \in Clicks, NEW b \in Shops, NEW g \in Goods, NEW n \in Amounts,
           AddBegin(c, b, g, n)
    PROVE  CheckoutInv'
<1> DEFINE r == [kind |-> "ADD", shop |-> b, good |-> g, amount |-> n,
                 left |-> shop.stock[b][g], price |-> shop.price[g]]
<1>1. shop.stock[b][g] \in Nat /\ shop.price[g] \in Prices
  BY DEF CheckoutInv, Shop
<1>2. r \in Click /\ r.kind # "PLACE"
  BY <1>1 DEF Click, AddClick
<1>3. SetClick(c, r) /\ UNCHANGED <<shop, cart, spent, previews, orders, events>>
  BY DEF AddBegin
<1> HIDE DEF r
<1>4. ClickInv'
  BY <1>2, <1>3, ClickWrite
<1> QED
  BY <1>3, <1>4, CartStays, OrdersStay, GoneStays DEF CheckoutInv

LEMMA AddRefusedKeeps ==
    ASSUME CheckoutInv, NEW c \in Clicks, AddRefused(c)
    PROVE  CheckoutInv'
<1>1. click[c].shop \in Shops
  BY ClickKinds DEF AddRefused, CheckoutInv, ClickInv, AddClick
<1>2. /\ cart' = [shop |-> click[c].shop, lines |-> cart.lines] /\ SetClick(c, NoClick)
      /\ UNCHANGED <<shop, spent, previews, orders, events>>
  BY CartRow DEF AddRefused
<1>3. CartInv' /\ InCart' = InCart
  BY <1>1, <1>2, CartRow, CartWrite DEF CheckoutInv, CartInv, InCart
<1> QED
  BY <1>2, <1>3, ClickDone, OrdersStay, GoneStays DEF CheckoutInv

LEMMA AddNewLineKeeps ==
    ASSUME CheckoutInv, NEW c \in Clicks, NEW l \in LineIds, AddNewLine(c, l)
    PROVE  CheckoutInv'
<1> DEFINE r == click[c]
           lines == [m \in InCart \cup {l} |->
                        IF m = l THEN [good |-> r.good, amount |-> r.amount, known |-> r.price]
                        ELSE cart.lines[m]]
<1>1. r \in AddClick
  BY ClickKinds DEF AddNewLine, CheckoutInv, ClickInv
<1>2. [good |-> r.good, amount |-> r.amount, known |-> r.price] \in CartLine /\ r.shop \in Shops
  BY <1>1, CheckoutParameters DEF AddClick, CartLine
<1>3. /\ l \notin spent /\ spent' = spent \cup {l}
      /\ cart' = [shop |-> r.shop, lines |-> lines] /\ SetClick(c, NoClick)
      /\ UNCHANGED <<shop, previews, orders, events>>
  BY DEF AddNewLine
<1>4. HasLines(lines, CartLine) /\ DOMAIN lines = InCart \cup {l}
  BY <1>2, CartRow DEF HasLines, InCart
<1> HIDE DEF lines
<1>5. CartInv' /\ InCart' = InCart \cup {l}
  BY <1>2, <1>3, <1>4, CartWrite DEF CheckoutInv, CartInv
<1>6. GoneInv'
  BY <1>3, <1>5, GoneStays
<1> QED
  BY <1>3, <1>5, <1>6, ClickDone, OrdersStay DEF CheckoutInv

LEMMA AddToLineKeeps ==
    ASSUME CheckoutInv, NEW c \in Clicks, NEW l \in LineIds, AddToLine(c, l)
    PROVE  CheckoutInv'
<1> DEFINE r == click[c]
           line == [good |-> r.good, amount |-> cart.lines[l].amount + r.amount, known |-> r.price]
           lines == [cart.lines EXCEPT ![l] = line]
<1>1. r \in AddClick /\ l \in InCart
  BY ClickKinds DEF AddToLine, LinesWith, CheckoutInv, ClickInv
<1>2. cart.lines[l].amount \in Nat
  BY <1>1, CartRow DEF HasLines, InCart, CartLine
<1>3. line \in CartLine /\ r.shop \in Shops
  <2>1. /\ r.good \in Goods /\ r.price \in Prices /\ r.shop \in Shops /\ r.amount \in Amounts
    BY <1>1 DEF AddClick
  <2>2. \A m \in Nat, n \in Amounts : m + n \in Nat
    BY CheckoutParameters
  <2>3. cart.lines[l].amount + r.amount \in Nat
    BY <1>2, <2>1, <2>2
  <2> QED
    BY <2>1, <2>3 DEF CartLine
<1>4. /\ cart' = [shop |-> r.shop, lines |-> lines] /\ SetClick(c, NoClick)
      /\ UNCHANGED <<shop, spent, previews, orders, events>>
  BY DEF AddToLine
<1> HIDE DEF line
<1>5. HasLines(lines, CartLine) /\ DOMAIN lines = InCart
  BY <1>3, CartRow DEF HasLines, InCart
<1> HIDE DEF lines
<1>6. CartInv' /\ InCart' = InCart
  BY <1>3, <1>4, <1>5, CartWrite DEF CheckoutInv, CartInv
<1> QED
  BY <1>4, <1>6, ClickDone, OrdersStay, GoneStays DEF CheckoutInv

LEMMA ChangeBeginKeeps ==
    ASSUME CheckoutInv, NEW c \in Clicks, NEW l \in LineIds, NEW n \in Amounts, ChangeBegin(c, l, n)
    PROVE  CheckoutInv'
<1> DEFINE r == [kind |-> "CHANGE", line |-> l, amount |-> n,
                 price |-> shop.price[cart.lines[l].good]]
<1>1. /\ SetClick(c, r) /\ l \in InCart
      /\ UNCHANGED <<shop, cart, spent, previews, orders, events>>
  BY DEF ChangeBegin
<1>2. cart.lines[l].good \in Goods
  BY <1>1, CartRow DEF HasLines, InCart, CartLine
<1>3. r \in Click /\ r.kind # "PLACE"
  BY <1>2 DEF CheckoutInv, Shop, Click, ChangeClick
<1> HIDE DEF r
<1>4. ClickInv'
  BY <1>1, <1>3, ClickWrite
<1> QED
  BY <1>1, <1>4, CartStays, OrdersStay, GoneStays DEF CheckoutInv

LEMMA ChangeCommitKeeps ==
    ASSUME CheckoutInv, NEW c \in Clicks, ChangeCommit(c)
    PROVE  CheckoutInv'
<1> DEFINE r == click[c]
           Line(l) == IF l = r.line
                      THEN [good |-> cart.lines[l].good, amount |-> r.amount, known |-> r.price]
                      ELSE cart.lines[l]
           lines == [l \in InCart |-> Line(l)]
<1>1. r \in ChangeClick
  BY ClickKinds DEF ChangeCommit, CheckoutInv, ClickInv
<1>2. \A l \in InCart : cart.lines[l] \in CartLine
  BY CartRow DEF HasLines, InCart
<1>3. \A l \in InCart : Line(l) \in CartLine
  BY <1>1, <1>2, CheckoutParameters DEF ChangeClick, CartLine
<1>4. /\ cart' = [shop |-> cart.shop, lines |-> lines] /\ SetClick(c, NoClick)
      /\ UNCHANGED <<shop, spent, previews, orders, events>>
  BY CartRow DEF ChangeCommit, CartWith
<1> HIDE DEF Line
<1>5. HasLines(lines, CartLine) /\ DOMAIN lines = InCart
  BY <1>3, CartRow DEF HasLines, InCart
<1> HIDE DEF lines
<1>6. CartInv' /\ InCart' = InCart
  BY <1>4, <1>5, CartRow, CartWrite DEF CheckoutInv, CartInv
<1> QED
  BY <1>4, <1>6, ClickDone, OrdersStay, GoneStays DEF CheckoutInv

\* Lines that are taken out of the cart.
LEMMA DroppedCart ==
    ASSUME CheckoutInv, NEW ids, CartWith(Dropped(ids)), spent' = spent
    PROVE  CartInv' /\ InCart' = InCart \ ids
<1>1. cart' = [shop |-> cart.shop, lines |-> Dropped(ids)]
  BY CartRow DEF CartWith
<1>2. HasLines(Dropped(ids), CartLine) /\ DOMAIN Dropped(ids) = InCart \ ids
  BY CartRow DEF Dropped, HasLines, InCart
<1> QED
  BY <1>1, <1>2, CartRow, CartWrite DEF CheckoutInv, CartInv

LEMMA RemoveLineKeeps ==
    ASSUME CheckoutInv, NEW l \in LineIds, RemoveLine(l)
    PROVE  CheckoutInv'
<1>1. /\ CartWith(Dropped({l}))
      /\ UNCHANGED <<shop, spent, previews, click, orders, events>>
  BY DEF RemoveLine
<1>2. CartInv' /\ InCart' = InCart \ {l}
  BY <1>1, DroppedCart
<1>3. GoneInv'
  BY <1>1, <1>2, GoneStays
<1> QED
  BY <1>1, <1>2, <1>3, ClicksStay, OrdersStay DEF CheckoutInv

LEMMA SwitchBranchKeeps ==
    ASSUME CheckoutInv, NEW b \in Shops, SwitchBranch(b)
    PROVE  CheckoutInv'
<1>1. /\ cart' = [shop |-> b, lines |-> cart.lines]
      /\ UNCHANGED <<shop, spent, previews, click, orders, events>>
  BY CartRow DEF SwitchBranch
<1>2. CartInv' /\ InCart' = InCart
  BY <1>1, CartRow, CartWrite DEF CheckoutInv, CartInv, InCart
<1> QED
  BY <1>1, <1>2, ClicksStay, OrdersStay, GoneStays DEF CheckoutInv

-----------------------------------------------------------------------------
(* The checkout. *)

LEMMA ResolvedType ==
    ASSUME CheckoutInv, NEW ids, ids \subseteq InCart, NEW method \in Methods
    PROVE  /\ Resolved(ids, method) \in Preview
           /\ DOMAIN Resolved(ids, method).lines \subseteq spent
<1> DEFINE Line(l) == [good |-> cart.lines[l].good, amount |-> cart.lines[l].amount,
                       price |-> shop.price[cart.lines[l].good],
                       left |-> shop.stock[cart.shop][cart.lines[l].good]]
           Chosen == {m \in ids : Eligible(m)}
           lines == [l \in Chosen |-> Line(l)]
<1>1. Resolved(ids, method) = [shop |-> cart.shop, lines |-> lines, address |-> shop.address,
                               method |-> method]
  BY DEF Resolved
<1>2. Chosen \subseteq InCart /\ InCart \subseteq LineIds
  BY DEF CheckoutInv, CartInv
<1>3. ASSUME NEW l \in Chosen PROVE Line(l) \in PreviewLine
  <2>1. cart.lines[l] \in CartLine
    BY <1>2, CartRow DEF HasLines, InCart
  <2>2. cart.lines[l].good \in Goods /\ cart.lines[l].amount \in Nat
    BY <2>1 DEF CartLine
  <2>3. /\ shop.price[cart.lines[l].good] \in Prices
        /\ shop.stock[cart.shop][cart.lines[l].good] \in Nat
    BY <2>2, CartRow DEF CheckoutInv, Shop
  <2> QED
    BY <2>2, <2>3 DEF PreviewLine
<1> HIDE DEF Line
<1>4. lines \in [Chosen -> PreviewLine] /\ DOMAIN lines = Chosen
  BY <1>3
<1>5. lines \in LinesOver(PreviewLine)
  BY <1>2, <1>4 DEF LinesOver
<1>6. shop.address \in Nat /\ cart.shop \in Shops
  BY CartRow DEF CheckoutInv, Shop
<1> HIDE DEF lines
<1>7. Resolved(ids, method) \in Preview
  BY <1>1, <1>5, <1>6 DEF Preview
<1> QED
  BY <1>1, <1>2, <1>4, <1>7 DEF CheckoutInv, CartInv

LEMMA ShowPreviewKeeps ==
    ASSUME CheckoutInv, NEW ids, NEW method \in Methods, ShowPreview(ids, method)
    PROVE  CheckoutInv'
<1>1. /\ ids \subseteq InCart
      /\ previews' = previews \cup {Resolved(ids, method)}
      /\ UNCHANGED <<shop, cart, spent, click, orders, events>>
  BY DEF ShowPreview, Selectable
<1>2. previews' \subseteq Preview
  BY <1>1, ResolvedType DEF CheckoutInv
<1> QED
  BY <1>1, <1>2, CartStays, ClicksStay, OrdersStay, GoneStays DEF CheckoutInv

\* The hash names everything a preview holds.
LEMMA ReferenceTells ==
    ASSUME NEW p \in Preview, NEW q \in Preview, Reference(p) = Reference(q)
    PROVE  p = q
BY DEF Reference, Preview

LEMMA PlaceBeginKeeps ==
    ASSUME CheckoutInv, NEW c \in Clicks, NEW key \in OrderKeys, NEW ids, NEW method \in Methods,
           PlaceBegin(c, key, ids, method)
    PROVE  CheckoutInv'
<1> DEFINE content == Resolved(ids, method)
           r == [kind |-> "PLACE", key |-> key, content |-> content]
<1>1. /\ ids \subseteq InCart /\ SetClick(c, r)
      /\ \E p \in previews : Reference(p) = Reference(content)
      /\ UNCHANGED <<shop, cart, spent, previews, orders, events>>
  BY DEF PlaceBegin, Selectable
<1>2. content \in Preview /\ DOMAIN content.lines \subseteq spent
  BY <1>1, ResolvedType
<1> HIDE DEF content
<1>3. Previewed(content)
  BY <1>1, <1>2, ReferenceTells DEF CheckoutInv, Previewed
<1>4. r \in Click /\ r.content = content
  BY <1>2 DEF Click, PlaceClick
<1> HIDE DEF r
<1>5. ClickInv'
  BY <1>1, <1>3, <1>4, ClickWrite
<1> QED
  BY <1>1, <1>5, CartStays, OrdersStay, GoneStays DEF CheckoutInv

LEMMA StockWrite ==
    ASSUME CheckoutInv, NEW b \in Shops, NEW left \in [Goods -> Nat]
    PROVE  [shop EXCEPT !.stock[b] = left] \in Shop
<1>1. [shop.stock EXCEPT ![b] = left] \in [Shops -> [Goods -> Nat]]
  BY DEF CheckoutInv, Shop
<1>2. [shop EXCEPT !.stock[b] = left] = [shop EXCEPT !.stock = [shop.stock EXCEPT ![b] = left]]
  OBVIOUS
<1> QED
  BY <1>1, <1>2 DEF CheckoutInv, Shop

LEMMA TakenType ==
    ASSUME NEW p \in Preview, NEW g \in Goods
    PROVE  Taken(p, g) \in Nat
<1>1. ASSUME NEW l \in DOMAIN p.lines PROVE p.lines[l].amount \in Nat
  <2>1. HasLines(p.lines, PreviewLine)
    BY LinesOverIs DEF Preview
  <2>2. p.lines[l] \in PreviewLine
    BY <2>1 DEF HasLines
  <2> QED
    BY <2>2 DEF PreviewLine
<1> QED
  BY <1>1 DEF Taken

LEMMA StockMoves ==
    ASSUME CheckoutInv, NEW p \in Preview
    PROVE  /\ InStock(p) => StockLess(p) \in Shop
           /\ StockMore(p) \in Shop
<1>1. p.shop \in Shops
  BY DEF Preview
<1>2. \A g \in Goods : shop.stock[p.shop][g] \in Nat /\ Taken(p, g) \in Nat
  BY <1>1, TakenType DEF CheckoutInv, Shop
<1>3. InStock(p) => [g \in Goods |-> shop.stock[p.shop][g] - Taken(p, g)] \in [Goods -> Nat]
  BY <1>2 DEF InStock
<1>4. [g \in Goods |-> shop.stock[p.shop][g] + Taken(p, g)] \in [Goods -> Nat]
  BY <1>2
<1> QED
  BY <1>1, <1>3, <1>4, StockWrite DEF StockLess, StockMore

\* An order whose key is new joins the others.
LEMMA OrderPlaced ==
    ASSUME CheckoutInv, NEW key \in OrderKeys, NEW content \in Preview, Previewed(content),
           KeyIsFree(key), UNCHANGED <<previews, spent>>,
           orders' = Append(orders, [key |-> key, content |-> content, status |-> "PLACED"]),
           InCart' \subseteq InCart,
           content.method = "COD" => InCart' \cap DOMAIN content.lines = {}
    PROVE  OrderInv' /\ GoneInv'
<1> DEFINE o == [key |-> key, content |-> content, status |-> "PLACED"]
<1>1. o \in Order /\ o.key = key /\ o.content = content /\ o.status = "PLACED"
  BY DEF Order
<1> HIDE DEF o
<1>2. orders \in Seq(Order) /\ orders' = Append(orders, o)
  BY DEF CheckoutInv, OrderInv, o
<1>3. /\ orders' \in Seq(Order) /\ DOMAIN orders = 1..Len(orders) /\ Len(orders) \in Nat
      /\ DOMAIN orders' = 1..(Len(orders) + 1)
      /\ orders'[Len(orders) + 1] = o
      /\ \A i \in DOMAIN orders : orders'[i] = orders[i]
  BY <1>1, <1>2
<1>4. \A i \in DOMAIN orders' : i \in DOMAIN orders \/ i = Len(orders) + 1
  BY <1>3
<1>5. \A i \in DOMAIN orders' : Previewed(orders[i].content)'
  BY <1>1, <1>3, <1>4 DEF CheckoutInv, OrderInv, Previewed
<1>6. \A i \in DOMAIN orders : orders[i].key # key
  BY DEF KeyIsFree, WithKey
<1>7. \A i, j \in DOMAIN orders' : orders'[j].key = orders'[i].key => j = i
  BY <1>1, <1>3, <1>4, <1>6 DEF CheckoutInv, OrderInv
<1>8. \A i \in DOMAIN orders' :
          Consumed(orders'[i]) => InCart' \cap DOMAIN orders'[i].content.lines = {}
  BY <1>1, <1>3, <1>4 DEF CheckoutInv, GoneInv, Consumed
<1> QED
  BY <1>3, <1>5, <1>7, <1>8 DEF OrderInv, GoneInv

LEMMA PlaceKeeps ==
    ASSUME CheckoutInv, NEW c \in Clicks, Place(c)
    PROVE  CheckoutInv'
<1> DEFINE content == click[c].content
<1>1. click[c] \in PlaceClick /\ Previewed(content)
  BY ClickKinds DEF Place, CheckoutInv, ClickInv
<1>2. click[c].key \in OrderKeys /\ content \in Preview
  BY <1>1 DEF PlaceClick
<1>3. /\ KeyIsFree(click[c].key) /\ InStock(content) /\ SetClick(c, NoClick)
      /\ shop' = StockLess(content)
      /\ orders' = Append(orders, [key |-> click[c].key, content |-> content, status |-> "PLACED"])
      /\ IF content.method = "COD" THEN CartWith(Dropped(DOMAIN content.lines)) ELSE UNCHANGED cart
      /\ UNCHANGED <<spent, previews, events>>
  BY DEF Place
<1> HIDE DEF content
<1>4. /\ CartInv' /\ InCart' \subseteq InCart
      /\ content.method = "COD" => InCart' \cap DOMAIN content.lines = {}
  BY <1>3, DroppedCart, CartStays
<1>5. OrderInv' /\ GoneInv'
  BY <1>1, <1>2, <1>3, <1>4, OrderPlaced
<1>6. shop' \in Shop
  BY <1>2, <1>3, StockMoves
<1> QED
  BY <1>3, <1>4, <1>5, <1>6, ClickDone DEF CheckoutInv

LEMMA PlaceNothingKeeps ==
    ASSUME CheckoutInv, NEW c \in Clicks, PlaceNothing(c)
    PROVE  CheckoutInv'
BY ClickDone, CartStays, OrdersStay, GoneStays DEF PlaceNothing, CheckoutInv

-----------------------------------------------------------------------------
(* What happens to orders, and to the shop. *)

\* An order gets another status: what it consumes by then is out of the cart.
LEMMA StatusWrite ==
    ASSUME CheckoutInv, NEW i \in DOMAIN orders, NEW s \in {"PAID", "CANCELLED"},
           SetStatus(i, s), UNCHANGED <<previews, spent>>, InCart' \subseteq InCart,
           s = "PAID" => InCart' \cap DOMAIN orders[i].content.lines = {}
    PROVE  OrderInv' /\ GoneInv'
<1> DEFINE o == [orders[i] EXCEPT !.status = s]
<1>1. orders \in Seq(Order) /\ orders[i] \in Order
  BY DEF CheckoutInv, OrderInv
<1>2. o \in Order /\ o.key = orders[i].key /\ o.content = orders[i].content /\ o.status = s
  BY <1>1 DEF Order
<1>3. orders' = [orders EXCEPT ![i] = o]
  BY DEF SetStatus
<1> HIDE DEF o
<1>4. /\ orders' \in Seq(Order) /\ DOMAIN orders' = DOMAIN orders /\ orders'[i] = o
      /\ \A j \in DOMAIN orders : j # i => orders'[j] = orders[j]
  BY <1>1, <1>2, <1>3
<1>5. \A j \in DOMAIN orders :
          orders'[j].key = orders[j].key /\ orders'[j].content = orders[j].content
  BY <1>2, <1>4
<1>6. OrderInv'
  BY <1>4, <1>5 DEF CheckoutInv, OrderInv, Previewed
<1>7. \A j \in DOMAIN orders :
          Consumed(orders'[j]) => InCart' \cap DOMAIN orders'[j].content.lines = {}
  BY <1>2, <1>4, <1>5 DEF CheckoutInv, GoneInv, Consumed
<1> QED
  BY <1>4, <1>6, <1>7 DEF GoneInv

LEMMA PayKeeps ==
    ASSUME CheckoutInv, NEW i \in DOMAIN orders, Pay(i)
    PROVE  CheckoutInv'
<1>1. /\ SetStatus(i, "PAID") /\ CartWith(Dropped(DOMAIN orders[i].content.lines))
      /\ UNCHANGED <<shop, spent, previews, click, events>>
  BY DEF Pay
<1>2. CartInv' /\ InCart' = InCart \ DOMAIN orders[i].content.lines
  BY <1>1, DroppedCart
<1>3. OrderInv' /\ GoneInv'
  BY <1>1, <1>2, StatusWrite
<1> QED
  BY <1>1, <1>2, <1>3, ClicksStay DEF CheckoutInv

LEMMA CancelOrderKeeps ==
    ASSUME CheckoutInv, NEW i \in DOMAIN orders, CancelOrder(i)
    PROVE  CheckoutInv'
<1>1. /\ SetStatus(i, "CANCELLED") /\ shop' = StockMore(orders[i].content)
      /\ UNCHANGED <<cart, spent, previews, click, events>>
  BY DEF CancelOrder
<1>2. CartInv' /\ InCart' = InCart
  BY <1>1, CartStays
<1>3. OrderInv' /\ GoneInv'
  BY <1>1, <1>2, StatusWrite
<1>4. shop' \in Shop
  <2>1. orders[i] \in Order
    BY DEF CheckoutInv, OrderInv
  <2>2. orders[i].content \in Preview
    BY <2>1 DEF Order
  <2> QED
    BY <1>1, <2>2, StockMoves
<1> QED
  BY <1>1, <1>2, <1>3, <1>4, ClicksStay DEF CheckoutInv

LEMMA ShopChangeKeeps ==
    ASSUME CheckoutInv, ShopChange
    PROVE  CheckoutInv'
<1>1. /\ events < MaxEvents /\ events' = events + 1
      /\ UNCHANGED <<cart, spent, previews, click, orders>>
  BY DEF ShopChange
<1>2. events' \in 0..MaxEvents /\ events + 1 \in Nat
  BY <1>1, CheckoutParameters DEF CheckoutInv
<1>3. shop \in Shop
  BY DEF CheckoutInv
<1>4. ASSUME NEW g \in Goods, NEW n \in Prices PROVE [shop EXCEPT !.price[g] = n] \in Shop
  <2>1. [shop.price EXCEPT ![g] = n] \in [Goods -> Prices]
    BY <1>3 DEF Shop
  <2>2. [shop EXCEPT !.price[g] = n] = [shop EXCEPT !.price = [shop.price EXCEPT ![g] = n]]
    OBVIOUS
  <2> QED
    BY <1>3, <2>1, <2>2 DEF Shop
<1>5. ASSUME NEW b \in Shops, NEW g \in Goods, NEW n \in 0..MaxStock
      PROVE  [shop EXCEPT !.stock[b][g] = n] \in Shop
  <2>1. n \in Nat
    BY CheckoutParameters
  <2>2. [shop.stock[b] EXCEPT ![g] = n] \in [Goods -> Nat]
    BY <1>3, <2>1 DEF Shop
  <2>3. [shop EXCEPT !.stock[b][g] = n] = [shop EXCEPT !.stock[b] = [shop.stock[b] EXCEPT ![g] = n]]
    OBVIOUS
  <2> QED
    BY <2>2, <2>3, StockWrite
<1>6. \A g \in Goods : [shop EXCEPT !.inSale = Toggled(@, g)] \in Shop
  BY <1>3 DEF Shop, Toggled
<1>7. \A b \in Shops : [shop EXCEPT !.open = Toggled(@, b)] \in Shop
  BY <1>3 DEF Shop, Toggled
<1>8. [shop EXCEPT !.address = events + 1] \in Shop
  BY <1>2, <1>3 DEF Shop
<1>9. shop' \in Shop
  BY <1>4, <1>5, <1>6, <1>7, <1>8 DEF ShopChange
<1> QED
  BY <1>1, <1>2, <1>9, CartStays, ClicksStay, OrdersStay, GoneStays DEF CheckoutInv

-----------------------------------------------------------------------------
LEMMA CheckoutInitHolds == ASSUME CheckoutInit PROVE CheckoutInv
<1>1. shop \in Shop
  BY CheckoutParameters DEF CheckoutInit, Shop
<1>2. HasLines([l \in {} |-> 0], CartLine) /\ DOMAIN [l \in {} |-> 0] = {}
  BY DEF HasLines
<1>3. CartInv
  BY <1>2, LinesOverIs DEF CheckoutInit, CartInv, Cart, InCart
<1>4. ClickInv
  BY DEF CheckoutInit, ClickInv, Click, NoClick
<1>5. OrderInv /\ GoneInv
  BY DEF CheckoutInit, OrderInv, GoneInv
<1> QED
  BY <1>1, <1>3, <1>4, <1>5, CheckoutParameters DEF CheckoutInit, CheckoutInv

LEMMA CheckoutNextKeeps ==
    ASSUME CheckoutInv, [CheckoutNext]_checkoutVars PROVE CheckoutInv'
<1>1. CASE UNCHANGED checkoutVars
  BY <1>1, CartStays, ClicksStay, OrdersStay, GoneStays DEF checkoutVars, CheckoutInv
<1>2. CASE CartStep
  BY <1>2, AddBeginKeeps, AddRefusedKeeps, AddNewLineKeeps, AddToLineKeeps, ChangeBeginKeeps,
     ChangeCommitKeeps, RemoveLineKeeps, SwitchBranchKeeps DEF CartStep
<1>3. CASE CheckoutStep
  BY <1>3, ShowPreviewKeeps, PlaceBeginKeeps, PlaceKeeps, PlaceNothingKeeps, PayKeeps,
     CancelOrderKeeps DEF CheckoutStep
<1>4. CASE ShopChange
  BY <1>4, ShopChangeKeeps
<1> QED
  BY <1>1, <1>2, <1>3, <1>4 DEF CheckoutNext

\* The inductive invariant.
THEOREM CheckoutInvariance == CheckoutSpec => []CheckoutInv
BY CheckoutInitHolds, CheckoutNextKeeps, PTL DEF CheckoutSpec

LEMMA CheckoutInvTyped == ASSUME CheckoutInv PROVE CheckoutTypeOK
<1>1. cart = [shop |-> cart.shop, lines |-> cart.lines]
  BY DEF CheckoutInv, CartInv, Cart
<1>2. \A p \in previews : IsPreview(p)
  BY PreviewIs DEF CheckoutInv
<1>3. \A c \in Clicks : IsClick(click[c])
  BY ClickIs DEF CheckoutInv, ClickInv
<1>4. ASSUME NEW i \in DOMAIN orders PROVE IsOrder(orders[i])
  <2>1. orders[i] \in Order
    BY DEF CheckoutInv, OrderInv
  <2> QED
    BY <2>1, PreviewIs DEF Order, IsOrder
<1> QED
  BY <1>1, <1>2, <1>3, <1>4, CartRow DEF CheckoutInv, CartInv, CheckoutTypeOK, InCart

\* The types: no stock falls below zero, and a line's id is used once.
THEOREM CheckoutTypeCorrect == CheckoutSpec => []CheckoutTypeOK
BY CheckoutInvariance, CheckoutInvTyped, PTL

\* An order is for what its customer was shown, a key places one order, and what is
\* ordered on delivery or paid for has left the cart, with any number of requests.
THEOREM OrdersStayAsPreviewed == CheckoutSpec => []OrdersAsPreviewed
<1>1. CheckoutInv => OrdersAsPreviewed
  BY DEF CheckoutInv, OrderInv, GoneInv, Previewed, Consumed, OrdersAsPreviewed
<1> QED
  BY <1>1, CheckoutInvariance, PTL

-----------------------------------------------------------------------------
(* Delivery fees: every step of the calculation grows with the parcel.       *)

\* The boxes in the order of what they weigh.
LEMMA BoxesGrow ==
    /\ DOMAIN Boxes = 1..5 /\ Len(Boxes) = 5
    /\ \A i \in 1..5 : Boxes[i].weighs \in Nat /\ Boxes[i].holds \in Nat /\ Boxes[i].from \in Nat
    /\ \A i, j \in 1..5 : i <= j => Boxes[i].weighs <= Boxes[j].weighs
<1>1. Boxes = << [from |-> 1, holds |-> 1000, weighs |-> 100],
                 [from |-> 2, holds |-> 2000, weighs |-> 200],
                 [from |-> 4, holds |-> 4000, weighs |-> 350],
                 [from |-> 7, holds |-> 7000, weighs |-> 500],
                 [from |-> 11, holds |-> 15000, weighs |-> 800] >>
  BY DEF Boxes, Box
<1>2. \A i \in 1..5 : i = 1 \/ i = 2 \/ i = 3 \/ i = 4 \/ i = 5
  OBVIOUS
<1>3. /\ Boxes[1].weighs = 100 /\ Boxes[2].weighs = 200 /\ Boxes[3].weighs = 350
      /\ Boxes[4].weighs = 500 /\ Boxes[5].weighs = 800
  BY <1>1
<1>4. \A i \in 1..5 : Boxes[i].weighs \in Nat /\ Boxes[i].holds \in Nat /\ Boxes[i].from \in Nat
  BY <1>1, <1>2
<1>5. \A i, j \in 1..5 : i <= j => Boxes[i].weighs <= Boxes[j].weighs
  BY <1>2, <1>3
<1>6. DOMAIN Boxes = 1..5 /\ Len(Boxes) = 5
  BY <1>1
<1> QED
  BY <1>4, <1>5, <1>6

Parcels == [books: Nat, grams: Nat]

\* A parcel that is contained in another.
Contained(p, q) == p.books <= q.books /\ p.grams <= q.grams

LEMMA FittingFalls ==
    ASSUME NEW p \in Parcels, NEW q \in Parcels, Contained(p, q)
    PROVE  /\ Fitting(q) \subseteq Fitting(p)
           /\ Fitting(q) # {} => /\ Packed(p) \in 1..5 /\ Packed(q) \in 1..5
                                 /\ Packed(p) <= Packed(q)
<1>1. /\ p.books \in Nat /\ q.books \in Nat /\ p.grams \in Nat /\ q.grams \in Nat
      /\ p.books <= q.books /\ p.grams <= q.grams
  BY DEF Parcels, Contained
<1>2. Fitting(q) \subseteq Fitting(p)
  <2> SUFFICES ASSUME NEW i \in Fitting(q)
               PROVE  i \in Fitting(p)
    OBVIOUS
  <2>1. /\ i \in 1..5 /\ q.grams <= Boxes[i].holds
        /\ i = 5 \/ q.books < Boxes[i + 1].from
    BY BoxesGrow DEF Fitting
  <2>2. /\ Boxes[i].holds \in Nat /\ (i # 5 => Boxes[i + 1].from \in Nat)
    BY <2>1, BoxesGrow
  <2>3. p.grams <= Boxes[i].holds /\ (i = 5 \/ p.books < Boxes[i + 1].from)
    BY <1>1, <2>1, <2>2
  <2> QED
    BY <2>1, <2>3, BoxesGrow DEF Fitting
<1>3. ASSUME NEW S \in SUBSET (1..5), S # {}
      PROVE  \E i \in S : \A j \in S : i <= j
  <2>1. CASE 1 \in S
    BY <2>1
  <2>2. CASE 1 \notin S /\ 2 \in S
    BY <2>2
  <2>3. CASE 1 \notin S /\ 2 \notin S /\ 3 \in S
    BY <2>3
  <2>4. CASE 1 \notin S /\ 2 \notin S /\ 3 \notin S /\ 4 \in S
    BY <2>4
  <2>5. CASE 1 \notin S /\ 2 \notin S /\ 3 \notin S /\ 4 \notin S
    <3>1. \A i \in S : i = 5
      BY <2>5
    <3>2. PICK k \in S : TRUE
      BY <1>3
    <3>3. \A j \in S : k <= j
      BY <3>1, <3>2
    <3> QED
      BY <3>2, <3>3
  <2> QED
    BY <2>1, <2>2, <2>3, <2>4, <2>5
<1>4. ASSUME NEW r \in Parcels, Fitting(r) # {}
      PROVE  Packed(r) \in Fitting(r) /\ \A j \in Fitting(r) : Packed(r) <= j
  <2>1. Fitting(r) \in SUBSET (1..5)
    BY BoxesGrow DEF Fitting
  <2>2. \E i \in Fitting(r) : \A j \in Fitting(r) : i <= j
    BY <1>3, <1>4, <2>1
  <2> QED
    BY <2>2 DEF Packed
<1>5. Fitting(p) \subseteq 1..5
  BY BoxesGrow DEF Fitting
<1> QED
  BY <1>2, <1>4, <1>5

\* What is charged grows with the parcel.
LEMMA ChargeableGrows ==
    ASSUME NEW p \in Parcels, NEW q \in Parcels, Contained(p, q), Fitting(q) # {}
    PROVE  /\ Chargeable(p) \in Nat /\ Chargeable(q) \in Nat
           /\ Chargeable(p) <= Chargeable(q)
<1>1. /\ p.grams \in Nat /\ q.grams \in Nat /\ p.grams <= q.grams
  BY DEF Parcels, Contained
<1>2. /\ Boxes[Packed(p)].weighs \in Nat /\ Boxes[Packed(q)].weighs \in Nat
      /\ Boxes[Packed(p)].weighs <= Boxes[Packed(q)].weighs
  BY FittingFalls, BoxesGrow
<1>3. Gross(p) \in Nat /\ Gross(q) \in Nat /\ Gross(p) <= Gross(q)
  BY <1>1, <1>2 DEF Gross
<1> QED
  BY <1>3 DEF Chargeable, CeilDiv, WeightStep

\* The fee grows with the weight that is charged.
LEMMA FeeGrows ==
    ASSUME NEW p \in Parcels, NEW q \in Parcels, Contained(p, q), Fitting(q) # {},
           NEW rate \in [ward: Nat, commune: Nat, covers: Nat, step: {2500, 5000}],
           NEW d
    PROVE  /\ ExtraSteps(p, rate) \in Nat /\ ExtraSteps(q, rate) \in Nat
           /\ BeforeFuel(p, rate, d) \in Nat /\ BeforeFuel(q, rate, d) \in Nat
           /\ BeforeFuel(p, rate, d) <= BeforeFuel(q, rate, d)
<1>1. /\ Chargeable(p) \in Nat /\ Chargeable(q) \in Nat /\ Chargeable(p) <= Chargeable(q)
  BY ChargeableGrows
<1>2. rate.covers \in Nat /\ BaseFee(rate, d) \in Nat /\ (rate.step = 2500 \/ rate.step = 5000)
  BY DEF BaseFee
<1>3. /\ ExtraSteps(p, rate) \in Nat /\ ExtraSteps(q, rate) \in Nat
      /\ ExtraSteps(p, rate) <= ExtraSteps(q, rate)
  BY <1>1, <1>2 DEF ExtraSteps, CeilDiv, WeightStep
<1> QED
  BY <1>2, <1>3 DEF BeforeFuel

\* With fuel and rounding.
WithFuel(base) == CeilDiv(base + (base * 5) \div 100, 1000) * 1000

LEMMA WithFuelGrows ==
    ASSUME NEW m \in Nat, NEW n \in Nat, m <= n
    PROVE  WithFuel(m) <= WithFuel(n)
BY DEF WithFuel, CeilDiv

LEMMA FeeWithFuel ==
    ASSUME NEW p, NEW rate, NEW d
    PROVE  Fee(p, rate, d) = WithFuel(BeforeFuel(p, rate, d))
BY DEF Fee, WithFuel

LEMMA WardsPayLess ==
    ASSUME NEW rate \in Rates
    PROVE  /\ rate \in [ward: Nat, commune: Nat, covers: Nat, step: {2500, 5000}]
           /\ rate.ward <= rate.commune
<1>1. PICK from \in Provinces, to \in Provinces : rate = RateOf(from, to)
  BY DEF Rates
<1>2. Route(from, to) \in {"SAME_PROVINCE", "SPECIAL_STANDARD", "SAME_REGION", "FAR_REGION",
                           "ADJACENT_REGION"}
  BY DEF Route
<1>3. \/ rate = [ward |-> 22000, commune |-> 30000, covers |-> 3000, step |-> 2500]
      \/ rate = [ward |-> 30000, commune |-> 30000, covers |-> 3000, step |-> 2500]
      \/ rate = [ward |-> 30000, commune |-> 40000, covers |-> 500, step |-> 5000]
      \/ rate = [ward |-> 30000, commune |-> 35000, covers |-> 500, step |-> 2500]
      \/ rate = [ward |-> 30000, commune |-> 37000, covers |-> 500, step |-> 5000]
      \/ rate = [ward |-> 32000, commune |-> 40000, covers |-> 500, step |-> 5000]
  BY <1>1, <1>2 DEF RateOf, Rate, SharedRates
<1> QED
  BY <1>3

LEMMA OneMoreBook ==
    ASSUME ParcelTypeOK, NEW grams \in BookWeights, AddBook(grams)
    PROVE  /\ ParcelTypeOK' /\ parcel \in Parcels /\ parcel' \in Parcels
           /\ Contained(parcel, parcel')
BY ShippingParameters DEF AddBook, ParcelTypeOK, Parcels, Contained

\* A parcel's weight is what its books weigh, and their number is bounded.
THEOREM ParcelTypeCorrect == ParcelSpec => []ParcelTypeOK
<1>1. ParcelInit => ParcelTypeOK
  BY ShippingParameters DEF ParcelInit, ParcelTypeOK
<1>2. ParcelTypeOK /\ [ParcelNext]_parcel => ParcelTypeOK'
  BY OneMoreBook DEF ParcelNext, ParcelTypeOK
<1> QED
  BY <1>1, <1>2, PTL DEF ParcelSpec

LEMMA BookStep ==
    ASSUME ParcelTypeOK, ParcelNext, parcel.books > 0
    PROVE  /\ Deliverable(parcel') => Deliverable(parcel)
           /\ Deliverable(parcel') =>
                  \A rate \in Rates, d \in Destinations :
                      /\ Fee(parcel, rate, d) <= Fee(parcel', rate, d)
                      /\ Fee(parcel', rate, "WARD") <= Fee(parcel', rate, d)
<1>1. /\ parcel \in Parcels /\ parcel' \in Parcels /\ Contained(parcel, parcel')
  BY OneMoreBook DEF ParcelNext
<1> SUFFICES ASSUME Deliverable(parcel')
             PROVE  /\ Deliverable(parcel)
                    /\ \A rate \in Rates, d \in Destinations :
                           /\ Fee(parcel, rate, d) <= Fee(parcel', rate, d)
                           /\ Fee(parcel', rate, "WARD") <= Fee(parcel', rate, d)
  OBVIOUS
<1>2. Fitting(parcel') # {} /\ Fitting(parcel) # {} /\ Chargeable(parcel') <= MaximumWeight
  BY <1>1, FittingFalls DEF Deliverable
<1>3. Deliverable(parcel)
  BY <1>1, <1>2, ChargeableGrows DEF Deliverable, MaximumWeight
<1>4. ASSUME NEW rate \in Rates, NEW d \in Destinations
      PROVE  Fee(parcel, rate, d) <= Fee(parcel', rate, d)
  <2>1. rate \in [ward: Nat, commune: Nat, covers: Nat, step: {2500, 5000}]
    BY WardsPayLess
  <2>2. /\ BeforeFuel(parcel, rate, d) \in Nat /\ BeforeFuel(parcel', rate, d) \in Nat
        /\ BeforeFuel(parcel, rate, d) <= BeforeFuel(parcel', rate, d)
    BY <1>1, <1>2, <2>1, FeeGrows
  <2> QED
    BY <2>2, WithFuelGrows, FeeWithFuel
<1>5. ASSUME NEW rate \in Rates, NEW d \in Destinations
      PROVE  Fee(parcel', rate, "WARD") <= Fee(parcel', rate, d)
  <2>1. /\ rate \in [ward: Nat, commune: Nat, covers: Nat, step: {2500, 5000}]
        /\ rate.ward <= rate.commune
    BY WardsPayLess
  <2>2. Contained(parcel', parcel')
    BY <1>1 DEF Parcels, Contained
  <2>3. /\ BeforeFuel(parcel', rate, "WARD") \in Nat /\ BeforeFuel(parcel', rate, d) \in Nat
        /\ ExtraSteps(parcel', rate) \in Nat
    BY <1>1, <1>2, <2>1, <2>2, FeeGrows
  <2>4. /\ BaseFee(rate, d) \in Nat /\ BaseFee(rate, "WARD") \in Nat
        /\ BaseFee(rate, "WARD") <= BaseFee(rate, d)
    BY <2>1 DEF BaseFee
  <2>5. ExtraSteps(parcel', rate) * rate.step \in Nat
    BY <2>1, <2>3
  <2>6. BeforeFuel(parcel', rate, "WARD") <= BeforeFuel(parcel', rate, d)
    BY <2>4, <2>5 DEF BeforeFuel
  <2> QED
    BY <2>3, <2>6, WithFuelGrows, FeeWithFuel
<1> QED
  BY <1>3, <1>4, <1>5

\* One more book never makes the delivery cheaper or a refused parcel welcome,
\* and a ward never pays more than a commune, for any weights of books
\* (PackagingCalculator, ShippingFeeCalculator, ShippingRatePolicyService).
THEOREM FeesNeverFall == ParcelSpec => FeeNeverFalls
<1>1. ParcelTypeOK /\ [ParcelNext]_parcel =>
          [parcel.books > 0 =>
              /\ Deliverable(parcel') => Deliverable(parcel)
              /\ Deliverable(parcel') =>
                     \A rate \in Rates, d \in Destinations :
                         /\ Fee(parcel, rate, d) <= Fee(parcel', rate, d)
                         /\ Fee(parcel', rate, "WARD") <= Fee(parcel', rate, d)]_parcel
  BY BookStep
<1> QED
  BY <1>1, ParcelTypeCorrect, PTL DEF ParcelSpec, FeeNeverFalls

-----------------------------------------------------------------------------
(* Lists.  A list has a strict order: keys are tuples of one length, compared  *)
(* place by place.                                                             *)

\* The keys of a set: tuples of one length, each for one member.
Keys(S, key, n) ==
    /\ \A t \in S : key[t] \in [1..n -> Int]
    /\ \A t, u \in S : key[t] = key[u] => t = u

\* Different keys differ at a first place.
LEMMA FirstDifference ==
    ASSUME NEW n \in Nat, NEW k \in [1..n -> Int], NEW l \in [1..n -> Int], k # l
    PROVE  \E i \in 1..n : k[i] # l[i] /\ \A j \in 1..i - 1 : k[j] = l[j]
<1> DEFINE T == {i \in 1..n : k[i] # l[i]}
<1>1. T \subseteq Nat /\ T # {}
  OBVIOUS
<1>2. \E i \in T : \A j \in T : <<j, i>> \notin OpToRel(<, Nat)
  BY <1>1, NatLessThanWellFounded, WFMin
<1>3. PICK i \in T : \A j \in T : ~(j < i)
  BY <1>1, <1>2 DEF OpToRel
<1>4. i \in 1..n /\ k[i] # l[i] /\ i \in Nat
  BY <1>3
<1>5. ASSUME NEW j \in 1..i - 1 PROVE k[j] = l[j]
  <2>1. j \in 1..n /\ j < i
    BY <1>4, <1>5
  <2> QED
    BY <1>3, <2>1
<1> QED
  BY <1>4, <1>5

LEMMA StrictOrder ==
    ASSUME NEW n \in Nat, NEW k \in [1..n -> Int], NEW l \in [1..n -> Int]
    PROVE  /\ k # l => Before(k, l) \/ Before(l, k)
           /\ ~(Before(k, l) /\ Before(l, k))
           /\ ~Before(k, k)
<1>1. ASSUME k # l PROVE Before(k, l) \/ Before(l, k)
  <2>1. PICK i \in 1..n : k[i] # l[i] /\ \A j \in 1..i - 1 : k[j] = l[j]
    BY <1>1, FirstDifference
  <2>2. k[i] < l[i] \/ l[i] < k[i]
    BY <2>1
  <2> QED
    BY <2>1, <2>2 DEF Before
<1>2. ASSUME Before(k, l), Before(l, k) PROVE FALSE
  <2>1. PICK i \in 1..n : k[i] < l[i] /\ \A j \in 1..i - 1 : k[j] = l[j]
    BY <1>2 DEF Before
  <2>2. PICK h \in 1..n : l[h] < k[h] /\ \A j \in 1..h - 1 : l[j] = k[j]
    BY <1>2 DEF Before
  <2>3. CASE i < h
    <3>1. i \in 1..h - 1
      BY <2>3
    <3> QED
      BY <2>1, <2>2, <3>1
  <2>4. CASE h < i
    <3>1. h \in 1..i - 1
      BY <2>4
    <3> QED
      BY <2>1, <2>2, <3>1
  <2>5. CASE i = h
    BY <2>1, <2>2, <2>5
  <2> QED
    BY <2>3, <2>4, <2>5
<1>3. ~Before(k, k)
  BY DEF Before
<1> QED
  BY <1>1, <1>2, <1>3

LEMMA OrderTransitive ==
    ASSUME NEW n \in Nat, NEW k \in [1..n -> Int], NEW l \in [1..n -> Int],
           NEW m \in [1..n -> Int], Before(k, l), Before(l, m)
    PROVE  Before(k, m)
<1>1. PICK i \in 1..n : k[i] < l[i] /\ \A j \in 1..i - 1 : k[j] = l[j]
  BY DEF Before
<1>2. PICK h \in 1..n : l[h] < m[h] /\ \A j \in 1..h - 1 : l[j] = m[j]
  BY DEF Before
<1>3. CASE i < h
  <2>1. i \in 1..h - 1 /\ \A j \in 1..i - 1 : j \in 1..h - 1
    BY <1>3
  <2>2. k[i] < m[i] /\ \A j \in 1..i - 1 : k[j] = m[j]
    BY <1>1, <1>2, <2>1
  <2> QED
    BY <2>2 DEF Before
<1>4. CASE h < i
  <2>1. h \in 1..i - 1 /\ \A j \in 1..h - 1 : j \in 1..i - 1
    BY <1>4
  <2>2. k[h] < m[h] /\ \A j \in 1..h - 1 : k[j] = m[j]
    BY <1>1, <1>2, <2>1
  <2> QED
    BY <2>2 DEF Before
<1>5. CASE i = h
  <2>1. k[i] < m[i] /\ \A j \in 1..i - 1 : k[j] = m[j]
    BY <1>1, <1>2, <1>5
  <2> QED
    BY <2>1 DEF Before
<1> QED
  BY <1>3, <1>4, <1>5

\* How many members come before one.
Ahead(S, key, t) == {u \in S : Before(key[u], key[t])}

LEMMA AheadGrows ==
    ASSUME NEW S, IsFiniteSet(S), NEW n \in Nat, NEW key, Keys(S, key, n), NEW t \in S, NEW u \in S,
           Before(key[t], key[u])
    PROVE  Cardinality(Ahead(S, key, t)) < Cardinality(Ahead(S, key, u))
<1>1. /\ Ahead(S, key, t) \subseteq S /\ Ahead(S, key, u) \subseteq S
      /\ Ahead(S, key, t) \subseteq Ahead(S, key, u)
  BY OrderTransitive DEF Ahead, Keys
<1>2. t \in Ahead(S, key, u) /\ t \notin Ahead(S, key, t)
  BY StrictOrder DEF Ahead, Keys
<1>3. IsFiniteSet(Ahead(S, key, u)) /\ IsFiniteSet(Ahead(S, key, t))
  BY <1>1, FS_Subset
<1>4. /\ Cardinality(Ahead(S, key, t)) <= Cardinality(Ahead(S, key, u))
      /\ Cardinality(Ahead(S, key, t)) # Cardinality(Ahead(S, key, u))
  BY <1>1, <1>2, <1>3, FS_Subset
<1>5. Cardinality(Ahead(S, key, t)) \in Nat /\ Cardinality(Ahead(S, key, u)) \in Nat
  BY <1>3, FS_CardinalityType
<1> QED
  BY <1>4, <1>5

\* Every number of members ahead is somebody's.
LEMMA EveryPlaceTaken ==
    ASSUME NEW S, IsFiniteSet(S), NEW n \in Nat, NEW key, Keys(S, key, n)
    PROVE  /\ Cardinality(S) \in Nat
           /\ \A t \in S : Cardinality(Ahead(S, key, t)) \in 0..Cardinality(S) - 1
           /\ \A t, u \in S : Cardinality(Ahead(S, key, t)) = Cardinality(Ahead(S, key, u)) => t = u
           /\ \A i \in 0..Cardinality(S) - 1 : \E t \in S : Cardinality(Ahead(S, key, t)) = i
<1> DEFINE r == [t \in S |-> Cardinality(Ahead(S, key, t))]
           I == 0..Cardinality(S) - 1
<1>1. Cardinality(S) \in Nat
  BY FS_CardinalityType
<1>2. ASSUME NEW t \in S PROVE r[t] \in I
  <2>1. Ahead(S, key, t) \subseteq S /\ t \notin Ahead(S, key, t)
    BY StrictOrder DEF Ahead, Keys
  <2>2. /\ Cardinality(Ahead(S, key, t)) <= Cardinality(S)
        /\ Cardinality(Ahead(S, key, t)) # Cardinality(S)
        /\ IsFiniteSet(Ahead(S, key, t))
    BY <2>1, FS_Subset
  <2>3. Cardinality(Ahead(S, key, t)) \in Nat
    BY <2>2, FS_CardinalityType
  <2> QED
    BY <1>1, <2>2, <2>3
<1>3. ASSUME NEW t \in S, NEW u \in S, r[t] = r[u] PROVE t = u
  <2> SUFFICES ASSUME t # u PROVE FALSE
    OBVIOUS
  <2>1. Before(key[t], key[u]) \/ Before(key[u], key[t])
    BY StrictOrder DEF Keys
  <2>2. r[t] < r[u] \/ r[u] < r[t]
    BY <2>1, AheadGrows
  <2>3. r[t] \in Int /\ r[u] \in Int
    BY <1>2
  <2> QED
    BY <1>3, <2>2, <2>3
<1>4. r \in Injection(S, I)
  BY <1>2, <1>3 DEF Injection, IsInjective
<1>5. IsFiniteSet(I) /\ Cardinality(I) = Cardinality(S)
  <2>1. PICK c \in Int : c = Cardinality(S) - 1
    BY <1>1
  <2>2. IsFiniteSet(0..c) /\ Cardinality(0..c) = IF 0 > c THEN 0 ELSE c - 0 + 1
    BY FS_Interval
  <2> QED
    BY <1>1, <2>1, <2>2
<1>6. r \in Surjection(S, I)
  BY <1>4, <1>5, FS_Injection
<1>7. \A i \in I : \E t \in S : r[t] = i
  BY <1>6 DEF Surjection
<1> QED
  BY <1>1, <1>2, <1>3, <1>7

\* An ordered set is a sequence of all of its members, each once, whose keys rise.
Lists(s, S, key) ==
    /\ s \in [1..Cardinality(S) -> S]
    /\ \A i, j \in 1..Cardinality(S) : i < j => Before(key[s[i]], key[s[j]])
    /\ \A i, j \in 1..Cardinality(S) : s[i] = s[j] => i = j
    /\ \A t \in S : \E i \in 1..Cardinality(S) : s[i] = t

LEMMA OrderedLists ==
    ASSUME NEW S, IsFiniteSet(S), NEW n \in Nat, NEW key, Keys(S, key, n)
    PROVE  Lists(Ordered(S, key), S, key)
<1> DEFINE I == 1..Cardinality(S)
           r(t) == Cardinality(Ahead(S, key, t))
           s == [i \in I |-> CHOOSE t \in S : r(t) = i - 1]
           Rising(o) == \A i, j \in DOMAIN o : i < j => ~Before(key[o[j]], key[o[i]])
<1>1. /\ Cardinality(S) \in Nat
      /\ \A t \in S : r(t) \in 0..Cardinality(S) - 1
      /\ \A i \in 0..Cardinality(S) - 1 : \E t \in S : r(t) = i
  BY EveryPlaceTaken
<1>2. ASSUME NEW i \in I PROVE s[i] \in S /\ r(s[i]) = i - 1
  <2>1. i - 1 \in 0..Cardinality(S) - 1
    BY <1>1
  <2>2. \E t \in S : r(t) = i - 1
    BY <1>1, <2>1
  <2> QED
    BY <2>2
<1>3. s \in SetToSeqs(S)
  <2>1. s \in [I -> S]
    BY <1>2
  <2>2. \A i, j \in I : i # j => s[i] # s[j]
    BY <1>1, <1>2
  <2> HIDE DEF s
  <2> QED
    BY <2>1, <2>2 DEF SetToSeqs
<1>4. Rising(s)
  <2> SUFFICES ASSUME NEW i \in I, NEW j \in I, i < j, Before(key[s[j]], key[s[i]])
               PROVE  FALSE
    OBVIOUS
  <2>1. r(s[j]) < r(s[i])
    BY <1>2, AheadGrows
  <2> QED
    BY <1>1, <1>2, <2>1
<1> HIDE DEF s
<1>5. \E o \in SetToSeqs(S) : Rising(o)
  BY <1>3, <1>4
<1> DEFINE o == Ordered(S, key)
<1>6. o \in SetToSeqs(S) /\ Rising(o)
  BY <1>5 DEF Ordered
<1> HIDE DEF o
<1>7. o \in [I -> S] /\ \A i, j \in I : i # j => o[i] # o[j]
  BY <1>6 DEF SetToSeqs
<1>8. ASSUME NEW i \in I, NEW j \in I, i < j PROVE Before(key[o[i]], key[o[j]])
  <2>1. o[i] \in S /\ o[j] \in S /\ o[i] # o[j]
    BY <1>1, <1>7, <1>8
  <2>2. key[o[i]] # key[o[j]]
    BY <2>1 DEF Keys
  <2>3. ~Before(key[o[j]], key[o[i]])
    BY <1>6, <1>7, <1>8
  <2> QED
    BY <2>1, <2>2, <2>3, StrictOrder DEF Keys
<1>9. o \in Injection(I, S)
  BY <1>7 DEF Injection, IsInjective
<1>10. Cardinality(I) = Cardinality(S)
  BY <1>1, FS_Interval
<1>11. o \in Surjection(I, S)
  BY <1>9, <1>10, FS_Injection
<1>12. \A t \in S : \E i \in I : o[i] = t
  BY <1>11 DEF Surjection
<1> QED
  BY <1>7, <1>8, <1>12 DEF Lists, o

-----------------------------------------------------------------------------
\* As many members come before one of a list as its place says.
LEMMA PlaceInList ==
    ASSUME NEW S, IsFiniteSet(S), NEW n \in Nat, NEW key, Keys(S, key, n),
           NEW s, Lists(s, S, key), NEW i \in 1..Cardinality(S)
    PROVE  s[i] \in S /\ Cardinality(Ahead(S, key, s[i])) = i - 1
<1> DEFINE I == 1..Cardinality(S)
           A == Ahead(S, key, s[i])
           J == 1..i - 1
           f == [j \in J |-> s[j]]
<1>1. Cardinality(S) \in Nat /\ i \in I /\ J \subseteq I /\ i - 1 \in Nat
  BY EveryPlaceTaken
<1>2. /\ \A j \in I : s[j] \in S
      /\ \A j \in I : s[j] = s[i] => j = i
  BY DEF Lists
<1>3. ASSUME NEW j \in J PROVE s[j] \in A
  BY <1>1 DEF Lists, Ahead
<1>4. ASSUME NEW t \in A PROVE \E j \in J : s[j] = t
  <2>1. PICK j \in I : s[j] = t
    BY DEF Lists, Ahead
  <2>2. Before(key[s[j]], key[s[i]])
    BY <2>1 DEF Ahead
  <2>3. ~(i < j)
    <3> SUFFICES ASSUME i < j PROVE FALSE
      OBVIOUS
    <3>1. Before(key[s[i]], key[s[j]])
      BY <1>1, <2>1 DEF Lists
    <3> QED
      BY <1>1, <1>2, <2>1, <2>2, <3>1, StrictOrder DEF Keys
  <2>4. i # j
    BY <1>1, <1>2, <2>2, StrictOrder DEF Keys
  <2>5. j \in J
    BY <1>1, <2>1, <2>3, <2>4
  <2> QED
    BY <2>1, <2>5
<1>5. f \in Bijection(J, A)
  <2>1. \A j, k \in J : s[j] = s[k] => j = k
    BY <1>1 DEF Lists
  <2> QED
    BY <1>3, <1>4, <2>1 DEF Bijection, Injection, Surjection, IsInjective
<1>6. IsFiniteSet(J) /\ Cardinality(J) = i - 1
  <2>1. PICK c \in Nat : c = i - 1
    BY <1>1
  <2>2. IsFiniteSet(1..c) /\ Cardinality(1..c) = IF 1 > c THEN 0 ELSE c - 1 + 1
    BY FS_Interval
  <2> QED
    BY <2>1, <2>2
<1>7. ExistsBijection(J, A)
  BY <1>5 DEF ExistsBijection
<1> HIDE DEF A, J
<1>8. Cardinality(A) = Cardinality(J)
  BY <1>6, <1>7, FS_Bijection
<1> QED
  BY <1>1, <1>2, <1>6, <1>8 DEF A

\* A set has one list.
LEMMA OneList ==
    ASSUME NEW S, IsFiniteSet(S), NEW n \in Nat, NEW key, Keys(S, key, n),
           NEW s, Lists(s, S, key), NEW o, Lists(o, S, key)
    PROVE  s = o
<1>1. ASSUME NEW i \in 1..Cardinality(S) PROVE s[i] = o[i]
  <2>1. /\ s[i] \in S /\ Cardinality(Ahead(S, key, s[i])) = i - 1
        /\ o[i] \in S /\ Cardinality(Ahead(S, key, o[i])) = i - 1
    BY PlaceInList
  <2> QED
    BY <2>1, EveryPlaceTaken
<1>2. PICK I : I = 1..Cardinality(S)
  OBVIOUS
<1>3. s \in [I -> S] /\ o \in [I -> S]
  BY <1>2 DEF Lists
<1>4. \A i \in I : s[i] = o[i]
  BY <1>1, <1>2
<1> QED
  BY <1>3, <1>4

\* The members of a list from its start.
\* A sequence of the first m members of another one.
Prefix(p, s, m, T) ==
    /\ p \in [1..m -> T] /\ p \in Seq(T) /\ Len(p) = m
    /\ \A i \in 1..m : p[i] = s[i]

LEMMA FirstSlice ==
    ASSUME NEW T, NEW n \in Nat, NEW s \in [1..n -> T], NEW size \in Nat
    PROVE  Prefix(Slice(s, size, 1), s, IF size < n THEN size ELSE n, T)
<1> DEFINE m == IF size < n THEN size ELSE n
<1>1. m \in Nat /\ m <= n
  OBVIOUS
<1>2. Len(s) = n
  BY LenProperties
<1>3. Slice(s, size, 1) = SubSeq(s, 1, m)
  BY <1>2 DEF Slice
<1> HIDE DEF m
<1>4. \A i \in 1..m : s[i] \in T
  BY <1>1
<1>5. /\ SubSeq(s, 1, m) \in Seq(T)
      /\ Len(SubSeq(s, 1, m)) = IF 1 <= m THEN m - 1 + 1 ELSE 0
      /\ \A i \in 1..m - 1 + 1 : SubSeq(s, 1, m)[i] = s[1 + i - 1]
  BY <1>1, <1>4, SubSeqProperties
<1>6. Len(SubSeq(s, 1, m)) = m /\ \A i \in 1..m : SubSeq(s, 1, m)[i] = s[i]
  BY <1>1, <1>5
<1>7. SubSeq(s, 1, m) \in [1..m -> T]
  BY <1>5, <1>6, LenProperties
<1> QED
  BY <1>3, <1>5, <1>6, <1>7 DEF m, Prefix

\* The places of what a sequence has of a set.
Places(s, S) == {i \in DOMAIN s : s[i] \in S}
Index(P) == [i \in P |-> <<i>>]

LEMMA KeptPlaces ==
    ASSUME NEW T, NEW n \in Nat, NEW s \in [1..n -> T], NEW S
    PROVE  LET P == Places(s, S)
               kept == Ordered(P, Index(P))
           IN /\ IsFiniteSet(P) /\ Keys(P, Index(P), 1) /\ Lists(kept, P, Index(P))
              /\ Kept(s, S) = [k \in DOMAIN kept |-> s[kept[k]]]
<1> DEFINE P == Places(s, S)
           key == Index(P)
<1>1. P \subseteq 1..n
  BY DEF Places
<1>2. IsFiniteSet(1..n)
  BY FS_Interval
<1>3. IsFiniteSet(P)
  BY <1>1, <1>2, FS_Subset
<1>4. Keys(P, key, 1)
  <2>1. \A i \in P : key[i] \in [1..1 -> Int] /\ key[i][1] = i
    BY <1>1 DEF Index
  <2> QED
    BY <2>1 DEF Keys
<1>5. Lists(Ordered(P, key), P, key)
  BY <1>3, <1>4, OrderedLists
<1>6. Kept(s, S) = [k \in DOMAIN Ordered(P, key) |-> s[Ordered(P, key)[k]]]
  BY DEF Kept, Places, Index
<1> QED
  BY <1>3, <1>4, <1>5, <1>6

\* A sequence of m members of a set, each at most once.
Once(s, m, S) ==
    /\ m \in Nat /\ s \in Seq(S) /\ s \in [1..m -> S] /\ Len(s) = m
    /\ \A i, j \in 1..m : s[i] = s[j] => i = j

LEMMA KeptOf ==
    ASSUME NEW T, NEW n \in Nat, NEW s \in [1..n -> T], Once(s, n, T), NEW S
    PROVE  Once(Kept(s, S), Cardinality(Places(s, S)), T \cap S)
<1> DEFINE P == Places(s, S)
           key == Index(P)
           kept == Ordered(P, key)
           m == Cardinality(P)
<1>1. \A i, j \in 1..n : s[i] = s[j] => i = j
  BY DEF Once
<1>2. /\ IsFiniteSet(P) /\ Lists(kept, P, key)
      /\ Kept(s, S) = [k \in DOMAIN kept |-> s[kept[k]]]
  BY KeptPlaces
<1>3. m \in Nat
  BY <1>2, FS_CardinalityType
<1>4. /\ kept \in [1..m -> P]
      /\ \A i, j \in 1..m : kept[i] = kept[j] => i = j
  BY <1>2 DEF Lists
<1>5. \A i \in P : i \in 1..n /\ s[i] \in T \cap S
  BY DEF Places
<1> HIDE DEF P, kept, m
<1>6. Kept(s, S) \in [1..m -> T \cap S] /\ \A k \in 1..m : Kept(s, S)[k] = s[kept[k]]
  BY <1>2, <1>4, <1>5
<1>7. \A i, j \in 1..m : Kept(s, S)[i] = Kept(s, S)[j] => i = j
  BY <1>1, <1>4, <1>5, <1>6
<1>8. Kept(s, S) \in Seq(T \cap S) /\ Len(Kept(s, S)) = m
  BY <1>3, <1>6
<1> QED
  BY <1>3, <1>6, <1>7, <1>8 DEF Once, m, P

\* Nothing is dropped from a sequence of members.
LEMMA KeptAll ==
    ASSUME NEW T, NEW n \in Nat, NEW s \in [1..n -> T], NEW S, \A i \in 1..n : s[i] \in S
    PROVE  Kept(s, S) = s
<1> DEFINE P == Places(s, S)
           key == Index(P)
           kept == Ordered(P, key)
           same == [i \in 1..n |-> i]
<1>1. P = 1..n
  BY DEF Places
<1>2. /\ IsFiniteSet(P) /\ Keys(P, key, 1) /\ Lists(kept, P, key)
      /\ Kept(s, S) = [k \in DOMAIN kept |-> s[kept[k]]]
  BY KeptPlaces
<1>3. Cardinality(P) = n
  BY <1>1, FS_Interval
<1>4. Lists(same, P, key)
  <2>1. \A i, j \in 1..n : i < j => Before(key[i], key[j])
    <3> SUFFICES ASSUME NEW i \in 1..n, NEW j \in 1..n, i < j
                 PROVE  Before(key[i], key[j])
      OBVIOUS
    <3>1. /\ DOMAIN key[i] = 1..1 /\ key[i][1] = i /\ key[j][1] = j
      BY <1>1 DEF Index
    <3>2. \A h \in 1..1 - 1 : key[i][h] = key[j][h]
      OBVIOUS
    <3> HIDE DEF key
    <3> QED
      BY <3>1, <3>2 DEF Before
  <2> HIDE DEF key
  <2> QED
    BY <1>1, <1>3, <2>1 DEF Lists
<1> HIDE DEF P, key, kept
<1>5. kept = same
  BY <1>2, <1>4, OneList
<1> QED
  BY <1>2, <1>5

-----------------------------------------------------------------------------
(* The public pages. *)

\* No product has sold more often than there were changes.
StorefrontInv ==
    /\ StorefrontTypeOK
    /\ \A t \in Titles : sold[t] <= edits

LEMMA StorefrontInvariance == StorefrontSpec => []StorefrontInv
<1>1. StorefrontInit => StorefrontInv
  <2> SUFFICES ASSUME StorefrontInit
               PROVE  StorefrontInv
    OBVIOUS
  <2>1. LastInstant \in Nat /\ MaxEdits \in Nat
    BY StorefrontParameters
  <2>2. PICK n \in Originals : n = CHOOSE m \in Originals : TRUE
    BY StorefrontParameters
  <2>3. FullPrice(n) \in PriceRow /\ AcceptedPrice(FullPrice(n))
    BY DEF FullPrice, PriceRow, AcceptedPrice
  <2>4. price = [t \in Titles |-> FullPrice(n)]
    BY <2>2 DEF StorefrontInit
  <2> QED
    BY <2>1, <2>3, <2>4 DEF StorefrontInit, StorefrontInv, StorefrontTypeOK, Standings
<1>2. StorefrontInv /\ [StorefrontNext]_storefrontVars => StorefrontInv'
  <2> SUFFICES ASSUME StorefrontInv, [StorefrontNext]_storefrontVars
               PROVE  StorefrontInv'
    OBVIOUS
  <2> USE DEF StorefrontInv, StorefrontTypeOK
  <2>1. LastInstant \in Nat /\ MaxEdits \in Nat
    BY StorefrontParameters
  <2>2. ASSUME Edit PROVE edits' \in 0..MaxEdits /\ edits' = edits + 1
    BY <2>1, <2>2 DEF Edit
  <2>3. ASSUME NEW t \in Titles, NEW s \in Standings, SetStanding(t, s)
        PROVE  StorefrontInv'
    BY <2>1, <2>2, <2>3 DEF SetStanding
  <2>4. ASSUME NEW t \in Titles, NEW p \in PriceRow, Reprice(t, p)
        PROVE  StorefrontInv'
    <3>1. price' \in [Titles -> {r \in PriceRow : AcceptedPrice(r)}]
      BY <2>4 DEF Reprice
    <3> QED
      BY <2>1, <2>2, <2>4, <3>1 DEF Reprice
  <2>5. ASSUME NEW t \in Titles, Sell(t)
        PROVE  StorefrontInv'
    <3>1. sold' = [sold EXCEPT ![t] = sold[t] + 1] /\ sold[t] \in Nat /\ sold[t] + 1 <= edits + 1
      BY <2>1, <2>5 DEF Sell
    <3>2. edits' \in 0..MaxEdits /\ edits' = edits + 1
      BY <2>2, <2>5 DEF Sell
    <3>3. sold' \in [Titles -> 0..MaxEdits] /\ \A u \in Titles : sold'[u] <= edits'
      BY <2>1, <3>1, <3>2
    <3> QED
      BY <2>5, <3>2, <3>3 DEF Sell
  <2>6. ASSUME NEW c \in Shelves, ToggleShelf(c)
        PROVE  StorefrontInv'
    BY <2>1, <2>2, <2>6 DEF ToggleShelf
  <2>7. ASSUME PassTime
        PROVE  StorefrontInv'
    BY <2>1, <2>7 DEF PassTime
  <2>8. CASE UNCHANGED storefrontVars
    BY <2>8 DEF storefrontVars
  <2> QED
    BY <2>3, <2>4, <2>5, <2>6, <2>7, <2>8 DEF StorefrontNext
<1> QED
  BY <1>1, <1>2, PTL DEF StorefrontSpec

\* Prices, sales and standings keep their types, and only accepted prices are stored.
THEOREM StorefrontTypeCorrect == StorefrontSpec => []StorefrontTypeOK
<1>1. StorefrontInv => StorefrontTypeOK
  BY DEF StorefrontInv
<1> QED
  BY <1>1, StorefrontInvariance, PTL

-----------------------------------------------------------------------------
(* What it costs. *)

LEMMA PriceFacts ==
    ASSUME StorefrontInv, NEW t \in Titles
    PROVE  /\ clock \in Nat
           /\ price[t].original \in Nat
           /\ price[t].sale # None => price[t].sale \in Nat /\ price[t].sale <= price[t].original
           /\ price[t].from # None => price[t].from \in Int
           /\ price[t].until # None => price[t].until \in Int
<1>1. price[t] \in PriceRow /\ AcceptedPrice(price[t]) /\ clock \in Nat
  BY StorefrontParameters DEF StorefrontInv, StorefrontTypeOK
<1> QED
  BY <1>1, StorefrontParameters DEF PriceRow, AcceptedPrice

\* Two of the readings are the price that is shown; the third is, but for the
\* last instant of a sale.
LEMMA ReadingsAgree ==
    ASSUME StorefrontInv, NEW t \in Titles
    PROVE  /\ SortedBy(price[t]) = Shown(price[t])
           /\ Shown(price[t]) \in Nat /\ ComparedBy(price[t]) \in Nat
BY PriceFacts DEF SortedBy, Shown, OnSale, Running, ComparedBy

LEMMA FilterAgrees ==
    ASSUME StorefrontInv, NEW t \in Titles, NEW lowest \in Bounds, NEW highest \in Bounds
    PROVE  AskedPrice(price[t], lowest, highest) <=> Within(Shown(price[t]), lowest, highest)
<1>1. /\ lowest # None => lowest \in Nat
      /\ highest # None => highest \in Nat
  BY StorefrontParameters DEF Bounds
<1>2. Running(price[t]) <=>
          ~(\/ price[t].from # None /\ price[t].from > clock
            \/ price[t].until # None /\ price[t].until <= clock)
  BY PriceFacts DEF Running
<1>3. CASE price[t].sale = None
  BY <1>3 DEF AskedPrice, Shown, OnSale
<1>4. CASE price[t].sale # None /\ Running(price[t])
  <2>1. Shown(price[t]) = price[t].sale
    BY <1>4, PriceFacts DEF Shown, OnSale
  <2> QED
    BY <1>2, <1>4, <2>1 DEF AskedPrice
<1>5. CASE price[t].sale # None /\ ~Running(price[t])
  <2>1. Shown(price[t]) = price[t].original
    BY <1>5 DEF Shown, OnSale
  <2> QED
    BY <1>2, <1>5, <2>1 DEF AskedPrice
<1> QED
  BY <1>3, <1>4, <1>5

-----------------------------------------------------------------------------
(* What is listed. *)

LEMMA ListedPlain == Listed(Anything) = OnShow
BY DEF Listed, Matches, Anything, OnShow, Visible

LEMMA ListedWith ==
    ASSUME NEW t \in Titles
    PROVE  /\ t \in Listed([Anything EXCEPT !.onSale = TRUE]) <=>
                  t \in OnShow /\ price[t].sale # None /\ Running(price[t])
           /\ t \in Listed([Anything EXCEPT !.upcoming = TRUE]) <=> t \in OnShow /\ IsUpcoming(t)
           /\ \A a : t \in Listed([Anything EXCEPT !.authors = {a}]) <=>
                         t \in OnShow /\ a \in Facts[t].authors
           /\ \A b : t \in Listed([Anything EXCEPT !.publishers = {b}]) <=>
                         t \in OnShow /\ Facts[t].publisher = b
           /\ \A c : c # None =>
                  (t \in Listed([Anything EXCEPT !.slug = c]) <=>
                       standing[t] = "ACTIVE" /\ InCategory(t, c))
<1>1. t \in Listed([Anything EXCEPT !.onSale = TRUE]) <=>
          t \in OnShow /\ price[t].sale # None /\ Running(price[t])
  BY DEF Listed, Matches, Anything, OnShow, Visible
<1>2. t \in Listed([Anything EXCEPT !.upcoming = TRUE]) <=> t \in OnShow /\ IsUpcoming(t)
  BY DEF Listed, Matches, Anything, OnShow, Visible
<1>3. ASSUME NEW a
      PROVE  t \in Listed([Anything EXCEPT !.authors = {a}]) <=> t \in OnShow /\ a \in Facts[t].authors
  BY DEF Listed, Matches, Anything, OnShow, Visible
<1>4. ASSUME NEW b
      PROVE  t \in Listed([Anything EXCEPT !.publishers = {b}]) <=>
                 t \in OnShow /\ Facts[t].publisher = b
  BY DEF Listed, Matches, Anything, OnShow, Visible
<1>5. ASSUME NEW c, c # None
      PROVE  t \in Listed([Anything EXCEPT !.slug = c]) <=> standing[t] = "ACTIVE" /\ InCategory(t, c)
  BY <1>5 DEF Listed, Matches, Anything
<1> QED
  BY <1>1, <1>2, <1>3, <1>4, <1>5

\* What the price filters, the orders and the offers find (StorefrontPriceService).
LEMMA PricesHold ==
    ASSUME StorefrontInv
    PROVE  PricesAgree
<1>1. ASSUME NEW t \in Titles, Visible(t), OnSale(price[t])
      PROVE  t \in Listed([Anything EXCEPT !.onSale = TRUE])
  BY <1>1, ListedWith DEF OnShow, OnSale
<1>2. ASSUME NEW t \in Titles, price[t].until # clock
      PROVE  ComparedBy(price[t]) = Shown(price[t])
  BY <1>2, PriceFacts DEF ComparedBy, Shown, OnSale, Running
<1> QED
  BY <1>1, <1>2, ReadingsAgree, FilterAgrees DEF PricesAgree

\* Choosing a facet of an author, a publisher or a value leaves of what was listed
\* what has it.
LEMMA ChosenFrom ==
    ASSUME NEW c, NEW onSale, NEW upcoming, NEW t \in Titles
    PROVE  LET q == Asking(c, onSale, upcoming) IN
           /\ \A a : t \in Listed([q EXCEPT !.authors = {a}]) <=>
                         t \in Listed(q) /\ a \in Facts[t].authors
           /\ \A b : t \in Listed([q EXCEPT !.publishers = {b}]) <=>
                         t \in Listed(q) /\ Facts[t].publisher = b
           /\ \A wanted : t \in Listed([q EXCEPT !.traits = {wanted}]) <=>
                           t \in Listed(q) /\ HasTrait(t, wanted)
<1>1. ASSUME NEW a
      PROVE  t \in Listed([Asking(c, onSale, upcoming) EXCEPT !.authors = {a}]) <=>
                 t \in Listed(Asking(c, onSale, upcoming)) /\ a \in Facts[t].authors
  BY DEF Listed, Matches, Asking, Anything
<1>2. ASSUME NEW b
      PROVE  t \in Listed([Asking(c, onSale, upcoming) EXCEPT !.publishers = {b}]) <=>
                 t \in Listed(Asking(c, onSale, upcoming)) /\ Facts[t].publisher = b
  BY DEF Listed, Matches, Asking, Anything
<1>3. ASSUME NEW wanted
      PROVE  t \in Listed([Asking(c, onSale, upcoming) EXCEPT !.traits = {wanted}]) <=>
                 t \in Listed(Asking(c, onSale, upcoming)) /\ HasTrait(t, wanted)
  BY DEF Listed, Matches, Asking, Anything
<1> QED
  BY <1>1, <1>2, <1>3

\* A category in the menu lists the visible products that it counts, and those of
\* the categories below it.
LEMMA ChosenShelf ==
    ASSUME NEW onSale, NEW upcoming, NEW c \in Menu, NEW t \in Titles
    PROVE  LET q == Asking(None, onSale, upcoming) IN
           /\ t \in Listed(q) /\ c \in Facts[t].shelves => t \in Listed([q EXCEPT !.slug = c])
           /\ t \in Listed([q EXCEPT !.slug = c]) =>
                  t \in Listed(q) /\ \E d \in Facts[t].shelves : d = c \/ ShelfAbove[d] = c
<1> DEFINE q == Asking(None, onSale, upcoming)
           Rest == /\ standing[t] = "ACTIVE"
                   /\ onSale => price[t].sale # None /\ Running(price[t])
                   /\ upcoming => IsUpcoming(t)
<1>1. c # None /\ c \in openShelves /\ OpenShelf(c)
  BY StorefrontParameters DEF Menu, OpenShelf
<1>2. t \in Listed(q) <=> Rest /\ Visible(t)
  BY DEF Listed, Matches, Asking, Anything, Visible
<1>3. t \in Listed([q EXCEPT !.slug = c]) <=> Rest /\ InCategory(t, c)
  BY <1>1 DEF Listed, Matches, Asking, Anything
<1>4. c \in Facts[t].shelves => InCategory(t, c)
  BY <1>1 DEF InCategory
<1>5. ASSUME InCategory(t, c), standing[t] = "ACTIVE"
      PROVE  Visible(t) /\ \E d \in Facts[t].shelves : d = c \/ ShelfAbove[d] = c
  <2>1. PICK d \in Facts[t].shelves :
            d \in openShelves /\ (d = c \/ (ShelfAbove[d] = c /\ c \in openShelves))
    BY <1>5 DEF InCategory
  <2>2. OpenShelf(d)
    BY <1>1, <2>1 DEF OpenShelf
  <2> QED
    BY <1>5, <2>1, <2>2 DEF Visible
<1> HIDE DEF q
<1> QED
  BY <1>2, <1>3, <1>4, <1>5 DEF q

\* A text is found by its own letters, and what else is found is another spelling.
LEMMA TextsFound ==
    ASSUME NEW wanted \in Traits, wanted.folded # None, NEW t \in Titles
    PROVE  /\ (\E r \in Facts[t].traits : r.code = wanted.code /\ r.value = wanted.value) =>
                  wanted \in Facts[t].traits /\ HasTrait(t, wanted)
           /\ HasTrait(t, wanted) => \E r \in Facts[t].traits : r \in Spellings(wanted)
<1>1. PICK u \in Titles : wanted \in Facts[u].traits
  BY DEF Traits
<1>2. ASSUME NEW r \in Facts[t].traits, r.code = wanted.code, r.value = wanted.value PROVE r = wanted
  BY <1>1, <1>2, StorefrontParameters
<1>3. ASSUME NEW r \in Facts[t].traits, r.code = wanted.code
      PROVE  r \in Traits /\ r.folded # None /\ r.parts = {}
  <2>1. r.folded # None /\ r \in Traits
    BY <1>1, <1>3, StorefrontParameters DEF Traits
  <2> QED
    BY <2>1, StorefrontParameters DEF FactRow
<1>4. wanted \in Facts[t].traits => HasTrait(t, wanted)
  BY DEF HasTrait
<1>5. HasTrait(t, wanted) => \E r \in Facts[t].traits : r \in Spellings(wanted)
  BY <1>3 DEF HasTrait, Spellings
<1> QED
  BY <1>2, <1>4, <1>5

LEMMA FacetsHold == FacetsCount
<1>1. ASSUME NEW S, NEW U \in SUBSET Titles, S \subseteq U
      PROVE  Cardinality(S) <= Cardinality(U)
  BY <1>1, StorefrontParameters, FS_Subset
<1>2. ASSUME NEW c, NEW onSale, NEW upcoming
      PROVE  LET q == Asking(c, onSale, upcoming) IN
             /\ \A a : AuthorFacet(q, a) = Cardinality(Listed([q EXCEPT !.authors = {a}]))
             /\ \A b : PublisherFacet(q, b) = Cardinality(Listed([q EXCEPT !.publishers = {b}]))
  <2> DEFINE q == Asking(c, onSale, upcoming)
  <2>1. ASSUME NEW a
        PROVE  {t \in Listed(q) : a \in Facts[t].authors} = Listed([q EXCEPT !.authors = {a}])
    BY ChosenFrom DEF Listed
  <2>2. ASSUME NEW b
        PROVE  {t \in Listed(q) : Facts[t].publisher = b} = Listed([q EXCEPT !.publishers = {b}])
    BY ChosenFrom DEF Listed
  <2> HIDE DEF q
  <2>3. \A a : AuthorFacet(q, a) = Cardinality(Listed([q EXCEPT !.authors = {a}]))
    BY <2>1 DEF AuthorFacet
  <2>4. \A b : PublisherFacet(q, b) = Cardinality(Listed([q EXCEPT !.publishers = {b}]))
    BY <2>2 DEF PublisherFacet
  <2> QED
    BY <2>3, <2>4 DEF q
<1>3. ASSUME NEW c, NEW onSale, NEW upcoming, NEW wanted \in Traits, wanted.folded # None
      PROVE  LET q == Asking(c, onSale, upcoming)
                 chosen == Cardinality(Listed([q EXCEPT !.traits = {wanted}])) IN
             /\ TraitFacet(q, wanted) <= chosen
             /\ Spellings(wanted) = {wanted} => TraitFacet(q, wanted) = chosen
  <2> DEFINE q == Asking(c, onSale, upcoming)
             S == {t \in Listed(q) :
                      \E r \in Facts[t].traits : r.code = wanted.code /\ r.value = wanted.value}
             U == Listed([q EXCEPT !.traits = {wanted}])
  <2>1. Listed(q) \subseteq Titles /\ U \subseteq Titles
    BY DEF Listed
  <2>2. \A t \in Titles : t \in U <=> t \in Listed(q) /\ HasTrait(t, wanted)
    BY ChosenFrom
  <2> HIDE DEF q, U
  <2>3. S \subseteq U
    BY <1>3, <2>1, <2>2, TextsFound
  <2>4. Spellings(wanted) = {wanted} => S = U
    <3> SUFFICES ASSUME Spellings(wanted) = {wanted}, NEW t \in U
                 PROVE  t \in S
      BY <2>3
    <3>1. t \in Titles /\ t \in Listed(q) /\ wanted \in Facts[t].traits
      BY <1>3, <2>1, <2>2, TextsFound
    <3> QED
      BY <3>1
  <2>5. TraitFacet(q, wanted) = Cardinality(S)
    BY DEF TraitFacet
  <2> HIDE DEF S
  <2>6. Cardinality(S) <= Cardinality(U)
    BY <1>1, <2>1, <2>3
  <2> QED
    BY <2>4, <2>5, <2>6 DEF q, U
<1>4. ASSUME NEW onSale, NEW upcoming, NEW c \in Menu
      PROVE  LET q == Asking(None, onSale, upcoming)
                 chosen == Cardinality(Listed([q EXCEPT !.slug = c])) IN
             /\ CategoryFacet(q, c) <= chosen
             /\ (\A d \in Shelves : ShelfAbove[d] # c) => CategoryFacet(q, c) = chosen
  <2> DEFINE q == Asking(None, onSale, upcoming)
             S == {t \in Listed(q) : c \in Facts[t].shelves}
             U == Listed([q EXCEPT !.slug = c])
  <2>1. Listed(q) \subseteq Titles /\ U \subseteq Titles
    BY DEF Listed
  <2>2. S \subseteq U
    BY <2>1, ChosenShelf
  <2>3. \A t \in U : t \in Listed(q) /\ \E d \in Facts[t].shelves : d = c \/ ShelfAbove[d] = c
    BY <2>1, ChosenShelf
  <2> HIDE DEF q, U
  <2>4. (\A d \in Shelves : ShelfAbove[d] # c) => S = U
    <3> SUFFICES ASSUME \A d \in Shelves : ShelfAbove[d] # c, NEW t \in U
                 PROVE  t \in S
      BY <2>2
    <3>1. Facts[t].shelves \subseteq Shelves
      BY <2>1, StorefrontParameters DEF FactRow
    <3> QED
      BY <2>3, <3>1
  <2>5. CategoryFacet(q, c) = Cardinality(S)
    BY DEF CategoryFacet
  <2> HIDE DEF S
  <2>6. Cardinality(S) <= Cardinality(U)
    BY <1>1, <2>1, <2>2
  <2> QED
    BY <2>4, <2>5, <2>6 DEF q, U
<1>5. ASSUME NEW q \in Bases \cup {Asking(c, FALSE, FALSE) : c \in Menu}
      PROVE  /\ \A a : AuthorFacet(q, a) = Cardinality(Listed([q EXCEPT !.authors = {a}]))
             /\ \A b : PublisherFacet(q, b) = Cardinality(Listed([q EXCEPT !.publishers = {b}]))
             /\ \A wanted \in {r \in Traits : r.folded # None} :
                    LET chosen == Cardinality(Listed([q EXCEPT !.traits = {wanted}])) IN
                    /\ TraitFacet(q, wanted) <= chosen
                    /\ Spellings(wanted) = {wanted} => TraitFacet(q, wanted) = chosen
  <2>1. PICK c, onSale, upcoming : q = Asking(c, onSale, upcoming)
    BY DEF Bases
  <2> QED
    BY <1>2, <1>3, <2>1
<1>6. ASSUME NEW q \in Bases, NEW c \in Menu
      PROVE  LET chosen == Cardinality(Listed([q EXCEPT !.slug = c])) IN
             /\ CategoryFacet(q, c) <= chosen
             /\ (\A d \in Shelves : ShelfAbove[d] # c) => CategoryFacet(q, c) = chosen
  <2>1. PICK onSale, upcoming : q = Asking(None, onSale, upcoming)
    BY DEF Bases
  <2> QED
    BY <1>4, <2>1
<1> QED
  BY <1>5, <1>6 DEF FacetsCount

-----------------------------------------------------------------------------
(* The orders of lists. *)

LEMMA FactTypes ==
    ASSUME StorefrontInv, NEW t \in Titles
    PROVE  /\ Facts[t].id \in Int /\ Facts[t].collated \in Int /\ Facts[t].alphabetic \in Int
           /\ Facts[t].created \in Int
           /\ Facts[t].demo \in Int /\ Facts[t].rating \in Int /\ Facts[t].likeness \in Int
           /\ Facts[t].released \in Int \cup {None} /\ Facts[t].match \in Int \cup {None}
           /\ Facts[t].shelves \subseteq Shelves
           /\ Facts[t].shelves # {} => Facts[t].primary \in Facts[t].shelves
           /\ sold[t] \in Nat /\ ReleaseRank(t) \in Int
           /\ SortedBy(price[t]) \in Int
<1>1. FactRow(Facts[t]) /\ LastInstant \in Nat
  BY StorefrontParameters
<1>2. sold[t] \in Nat
  BY StorefrontParameters DEF StorefrontInv, StorefrontTypeOK
<1>3. Facts[t].released \in Int \cup {None}
  BY <1>1 DEF FactRow
<1>4. ReleaseRank(t) \in Int
  BY <1>1, <1>3 DEF ReleaseRank
<1> QED
  BY <1>1, <1>2, <1>3, <1>4, ReadingsAgree DEF FactRow

\* Keys of one length that end with the id, which no two products share.
LEMMA IdsTellApart ==
    ASSUME NEW S \in SUBSET Titles, NEW n \in Nat, NEW key, \A t \in S : key[t] \in [1..n -> Int],
           \/ \A t \in S : key[t][n] = Facts[t].id
           \/ \A t \in S : key[t][n] = -Facts[t].id
    PROVE  Keys(S, key, n)
<1>1. ASSUME NEW t \in S, NEW u \in S, key[t] = key[u]
      PROVE  t = u
  <2>1. Facts[t].id \in Int /\ Facts[u].id \in Int
    BY StorefrontParameters DEF FactRow
  <2>2. Facts[t].id = Facts[u].id
    BY <1>1, <2>1
  <2> QED
    BY <2>2, StorefrontParameters
<1> QED
  BY <1>1 DEF Keys

LEMMA SortKeys ==
    ASSUME StorefrontInv, NEW S \in SUBSET Titles, NEW sort \in Sorts
    PROVE  \E n \in Nat : Keys(S, [t \in S |-> SortKey(sort, t)], n)
<1> DEFINE key == [t \in S |-> SortKey(sort, t)]
<1>1. CASE sort = "POPULAR"
  <2>1. (\A t \in S : key[t] \in [1..4 -> Int]) /\ (\A t \in S : key[t][4] = Facts[t].id)
    BY <1>1, FactTypes DEF SortKey
  <2> HIDE DEF key
  <2>2. Keys(S, key, 4)
    BY <2>1, IdsTellApart
  <2> QED
    BY <2>2 DEF key
<1>2. CASE sort = "NEWEST"
  <2>1. (\A t \in S : key[t] \in [1..2 -> Int]) /\ (\A t \in S : key[t][2] = -Facts[t].id)
    BY <1>2, FactTypes DEF SortKey
  <2> HIDE DEF key
  <2>2. Keys(S, key, 2)
    BY <2>1, IdsTellApart
  <2> QED
    BY <2>2 DEF key
<1>3. CASE sort \notin {"POPULAR", "NEWEST"}
  <2>1. (\A t \in S : key[t] \in [1..2 -> Int]) /\ (\A t \in S : key[t][2] = Facts[t].id)
    BY <1>3, FactTypes DEF SortKey, Sorts
  <2> HIDE DEF key
  <2>2. Keys(S, key, 2)
    BY <2>1, IdsTellApart
  <2> QED
    BY <2>2 DEF key
<1> QED
  BY <1>1, <1>2, <1>3

LEMMA SortedLists ==
    ASSUME StorefrontInv, NEW S \in SUBSET Titles, NEW sort \in Sorts
    PROVE  /\ IsFiniteSet(S) /\ Cardinality(S) \in Nat
           /\ Lists(Sorted(S, sort), S, [t \in S |-> SortKey(sort, t)])
<1>1. IsFiniteSet(S)
  BY StorefrontParameters, FS_Subset
<1>2. PICK n \in Nat : Keys(S, [t \in S |-> SortKey(sort, t)], n)
  BY SortKeys
<1>3. Lists(Ordered(S, [t \in S |-> SortKey(sort, t)]), S, [t \in S |-> SortKey(sort, t)])
  BY <1>1, <1>2, OrderedLists
<1> QED
  BY <1>1, <1>3, FS_CardinalityType DEF Sorted

-----------------------------------------------------------------------------
(* The home page and the lists it links to. *)

\* What comes before another by the first two places of its key.
Precedes(k, l) == k[1] < l[1] \/ (k[1] = l[1] /\ k[2] < l[2])

\* Two lists of one set whose keys begin alike: no place has in one list what comes
\* before what it has in the other, since too many would be ahead of that.
LEMMA NoneAhead ==
    ASSUME NEW S, IsFiniteSet(S), NEW n \in Nat, n >= 2,
           NEW key, Keys(S, key, n), NEW s, Lists(s, S, key),
           NEW other, Keys(S, other, n), NEW o, Lists(o, S, other),
           \A t \in S : key[t][1] = other[t][1] /\ key[t][2] = other[t][2],
           NEW i \in 1..Cardinality(S)
    PROVE  ~Precedes(key[s[i]], key[o[i]])
<1> DEFINE t == s[i]
           u == o[i]
<1> SUFFICES ASSUME Precedes(key[t], key[u])
             PROVE  FALSE
  OBVIOUS
<1>1. /\ t \in S /\ Cardinality(Ahead(S, key, t)) = i - 1
      /\ u \in S /\ Cardinality(Ahead(S, other, u)) = i - 1
  BY PlaceInList
<1> HIDE DEF t, u
<1>2. ASSUME NEW x \in S, NEW y \in S, Precedes(key[x], key[y])
      PROVE  Before(key[x], key[y]) /\ Before(other[x], other[y])
  <2>1. /\ DOMAIN key[x] = 1..n /\ DOMAIN other[x] = 1..n /\ 1 \in 1..n /\ 2 \in 1..n
        /\ {key[x][1], key[x][2], key[y][1], key[y][2]} \subseteq Int
    BY DEF Keys
  <2>2. CASE key[x][1] < key[y][1]
    BY <2>1, <2>2 DEF Before
  <2>3. CASE key[x][1] = key[y][1] /\ key[x][2] < key[y][2]
    <3>1. \A j \in 1..2 - 1 : j = 1
      OBVIOUS
    <3> QED
      BY <2>1, <2>3, <3>1 DEF Before
  <2> QED
    BY <1>2, <2>2, <2>3 DEF Precedes
<1>3. ASSUME NEW x \in Ahead(S, key, t) PROVE x \in Ahead(S, other, u)
  <2>1. x \in S /\ Before(key[x], key[t])
    BY DEF Ahead
  <2>2. ~Precedes(key[t], key[x])
    BY <1>1, <1>2, <2>1, StrictOrder DEF Keys
  <2>3. /\ {key[x][1], key[x][2], key[t][1], key[t][2], key[u][1], key[u][2]} \subseteq Int
    BY <1>1, <2>1 DEF Keys
  <2>4. Precedes(key[x], key[u])
    BY <2>2, <2>3 DEF Precedes
  <2> QED
    BY <1>1, <1>2, <2>1, <2>4 DEF Ahead
<1>4. t \in Ahead(S, other, u) /\ t \notin Ahead(S, key, t)
  BY <1>1, <1>2, StrictOrder DEF Ahead, Keys
<1>5. IsFiniteSet(Ahead(S, other, u))
  BY FS_Subset DEF Ahead
<1>6. Ahead(S, key, t) = Ahead(S, other, u)
  BY <1>1, <1>3, <1>5, FS_Subset
<1> QED
  BY <1>4, <1>6

\* So they have at each place what is alike in these.
LEMMA PlacesAlike ==
    ASSUME NEW S, IsFiniteSet(S), NEW n \in Nat, n >= 2,
           NEW key, Keys(S, key, n), NEW s, Lists(s, S, key),
           NEW other, Keys(S, other, n), NEW o, Lists(o, S, other),
           \A t \in S : key[t][1] = other[t][1] /\ key[t][2] = other[t][2],
           NEW i \in 1..Cardinality(S)
    PROVE  /\ s[i] \in S /\ o[i] \in S
           /\ key[s[i]][1] = key[o[i]][1] /\ key[s[i]][2] = key[o[i]][2]
<1>1. s[i] \in S /\ o[i] \in S
  BY PlaceInList
<1>2. ~Precedes(key[s[i]], key[o[i]])
  BY NoneAhead
<1>3. ~Precedes(other[o[i]], other[s[i]])
  BY NoneAhead
<1>4. ~Precedes(key[o[i]], key[s[i]])
  BY <1>1, <1>3 DEF Precedes
<1>5. {key[s[i]][1], key[s[i]][2], key[o[i]][1], key[o[i]][2]} \subseteq Int
  BY <1>1 DEF Keys
<1> QED
  BY <1>1, <1>2, <1>4, <1>5 DEF Precedes

\* The home page has its own keys, which begin like those of the list.
LEMMA HomeKeys ==
    ASSUME StorefrontInv, NEW S \in SUBSET Titles
    PROVE  /\ Keys(S, [t \in S |-> HomeKey(t)], 4)
           /\ Keys(S, [t \in S |-> SortKey("POPULAR", t)], 4)
           /\ \A t \in S : /\ HomeKey(t)[1] = -sold[t] /\ HomeKey(t)[2] = Facts[t].demo
                            /\ SortKey("POPULAR", t)[1] = -sold[t]
                            /\ SortKey("POPULAR", t)[2] = Facts[t].demo
<1>1. ASSUME NEW t \in S
      PROVE  /\ HomeKey(t) = <<-sold[t], Facts[t].demo, Facts[t].alphabetic, Facts[t].id>>
             /\ SortKey("POPULAR", t)
                    = <<-sold[t], Facts[t].demo, Facts[t].collated, Facts[t].id>>
  <2>1. CASE \E u \in Titles : sold[u] > 0
    BY <2>1 DEF HomeKey, SortKey
  <2>2. CASE ~\E u \in Titles : sold[u] > 0
    <3>1. -sold[t] = 0
      BY <2>2, FactTypes
    <3> QED
      BY <2>2, <3>1 DEF HomeKey, SortKey
  <2> QED
    BY <2>1, <2>2
<1>2. ASSUME NEW key, key = [t \in S |-> HomeKey(t)] \/ key = [t \in S |-> SortKey("POPULAR", t)]
      PROVE  Keys(S, key, 4)
  <2>1. (\A t \in S : key[t] \in [1..4 -> Int]) /\ (\A t \in S : key[t][4] = Facts[t].id)
    BY <1>1, <1>2, FactTypes
  <2> QED
    BY <2>1, IdsTellApart
<1> QED
  BY <1>1, <1>2

LEMMA SellersAlike ==
    ASSUME StorefrontInv
    PROVE  LET home == HomeSellers
               list == Page(Anything, "POPULAR", HomeLimit, 1)
           IN /\ Len(home) = Len(list)
              /\ \A i \in DOMAIN home :
                     /\ home[i] \in Listed(Anything)
                     /\ sold[home[i]] = sold[list[i]]
                     /\ Facts[home[i]].demo = Facts[list[i]].demo
<1> DEFINE S == Listed(Anything)
           key == [t \in S |-> HomeKey(t)]
           other == [t \in S |-> SortKey("POPULAR", t)]
<1>1. /\ S \in SUBSET Titles /\ IsFiniteSet(S) /\ HomeLimit \in Nat
      /\ HomeSellers = Slice(Ordered(S, key), HomeLimit, 1)
      /\ Page(Anything, "POPULAR", HomeLimit, 1) = Slice(Ordered(S, other), HomeLimit, 1)
  BY StorefrontParameters, FS_Subset DEF Listed, HomeSellers, Page, Sorted
<1>2. /\ Keys(S, key, 4) /\ Keys(S, other, 4)
      /\ \A t \in S : /\ key[t][1] = -sold[t] /\ key[t][2] = Facts[t].demo
                       /\ other[t][1] = -sold[t] /\ other[t][2] = Facts[t].demo
  BY <1>1, HomeKeys
<1>3. \A t \in S : sold[t] \in Nat
  BY <1>1, FactTypes
<1> HIDE DEF S, key, other
<1>4. PICK s : s = Ordered(S, key)
  OBVIOUS
<1>5. PICK o : o = Ordered(S, other)
  OBVIOUS
<1>6. Lists(s, S, key) /\ Lists(o, S, other)
  BY <1>1, <1>2, <1>4, <1>5, OrderedLists
<1>7. PICK c \in Nat : c = Cardinality(S)
  BY <1>1, FS_CardinalityType
<1>8. PICK m \in Nat : m = IF HomeLimit < c THEN HomeLimit ELSE c
  BY <1>1
<1>9. Prefix(HomeSellers, s, m, S) /\ Prefix(Page(Anything, "POPULAR", HomeLimit, 1), o, m, S)
  <2>1. s \in [1..c -> S] /\ o \in [1..c -> S]
    BY <1>6, <1>7 DEF Lists
  <2> QED
    BY <1>1, <1>4, <1>5, <1>8, <2>1, FirstSlice
<1>10. ASSUME NEW i \in 1..m
       PROVE  /\ s[i] \in S /\ o[i] \in S
              /\ sold[s[i]] = sold[o[i]] /\ Facts[s[i]].demo = Facts[o[i]].demo
  <2>1. i \in 1..Cardinality(S)
    BY <1>1, <1>7, <1>8
  <2>2. /\ s[i] \in S /\ o[i] \in S
        /\ key[s[i]][1] = key[o[i]][1] /\ key[s[i]][2] = key[o[i]][2]
    BY <1>1, <1>2, <1>6, <2>1, PlacesAlike
  <2>3. -sold[s[i]] = -sold[o[i]] /\ Facts[s[i]].demo = Facts[o[i]].demo
    BY <1>2, <2>2
  <2> QED
    BY <1>3, <2>2, <2>3
<1> QED
  BY <1>9, <1>10 DEF Prefix, S

LEMMA HomeHolds ==
    ASSUME StorefrontInv
    PROVE  HomeAgrees
<1>1. HomeNewest = Page(Anything, "NEWEST", HomeLimit, 1)
  BY DEF HomeNewest, Page, Sorted, SortKey
<1>2. HomeUpcoming = Page([Anything EXCEPT !.upcoming = TRUE], "RELEASE_ASC", UpcomingLimit, 1)
  <2> DEFINE S == {t \in Listed(Anything) : IsUpcoming(t)}
  <2>1. Listed([Anything EXCEPT !.upcoming = TRUE]) = S
    BY ListedPlain, ListedWith DEF Listed
  <2>2. [t \in S |-> <<Facts[t].released, Facts[t].id>>] = [t \in S |-> SortKey("RELEASE_ASC", t)]
    BY DEF SortKey, ReleaseRank, IsUpcoming
  <2> QED
    BY <2>1, <2>2 DEF HomeUpcoming, Page, Sorted
<1> QED
  BY <1>1, <1>2, SellersAlike DEF HomeAgrees

-----------------------------------------------------------------------------
(* Sequences without repetition. *)

LEMMA OnceCounts ==
    ASSUME NEW s, NEW m, NEW S, Once(s, m, S)
    PROVE  ToSet(s) \subseteq S /\ IsFiniteSet(ToSet(s)) /\ Cardinality(ToSet(s)) = m
<1> DEFINE I == 1..m
<1>1. m \in Nat /\ s \in [I -> S] /\ ToSet(s) = {s[i] : i \in I}
  BY DEF Once, ToSet
<1>2. s \in Bijection(I, ToSet(s))
  BY <1>1 DEF Once, Bijection, Injection, Surjection, IsInjective
<1>3. IsFiniteSet(I) /\ Cardinality(I) = m
  BY <1>1, FS_Interval
<1>4. IsFiniteSet(ToSet(s)) /\ Cardinality(ToSet(s)) = Cardinality(I)
  <2>1. s \in Surjection(I, ToSet(s))
    BY <1>2 DEF Bijection
  <2>2. IsFiniteSet(ToSet(s))
    BY <1>3, <2>1, FS_Surjection
  <2>3. s \in Injection(I, ToSet(s))
    BY <1>2 DEF Bijection
  <2>4. Cardinality(I) = Cardinality(ToSet(s))
    BY <2>1, <2>2, <2>3, FS_Injection
  <2> QED
    BY <2>2, <2>4
<1> QED
  BY <1>1, <1>3, <1>4

\* The first ones of an ordered set.
LEMMA FirstOnes ==
    ASSUME NEW S, IsFiniteSet(S), NEW n \in Nat, NEW key, Keys(S, key, n), NEW size \in Nat
    PROVE  LET c == Cardinality(S)
           IN c \in Nat /\ Once(Slice(Ordered(S, key), size, 1), IF size < c THEN size ELSE c, S)
<1>1. PICK c : c = Cardinality(S)
  OBVIOUS
<1>2. PICK s : s = Ordered(S, key)
  OBVIOUS
<1>3. PICK m : m = IF size < c THEN size ELSE c
  OBVIOUS
<1>4. c \in Nat /\ m \in Nat /\ m <= c
  BY <1>1, <1>3, FS_CardinalityType
<1>5. s \in [1..c -> S] /\ \A i, j \in 1..c : s[i] = s[j] => i = j
  BY <1>1, <1>2, OrderedLists DEF Lists
<1>6. /\ Slice(s, size, 1) \in [1..m -> S] /\ Slice(s, size, 1) \in Seq(S)
      /\ \A i \in 1..m : Slice(s, size, 1)[i] = s[i]
      /\ Len(Slice(s, size, 1)) = m
  <2>1. Prefix(Slice(s, size, 1), s, IF size < c THEN size ELSE c, S)
    BY <1>4, <1>5, FirstSlice
  <2> QED
    BY <1>3, <2>1 DEF Prefix
<1>7. ASSUME NEW i \in 1..m, NEW j \in 1..m, Slice(s, size, 1)[i] = Slice(s, size, 1)[j]
      PROVE  i = j
  <2>1. i \in 1..c /\ j \in 1..c /\ s[i] = s[j]
    BY <1>4, <1>6, <1>7
  <2> QED
    BY <1>5, <2>1
<1>8. Once(Slice(s, size, 1), m, S)
  BY <1>4, <1>6, <1>7 DEF Once
<1> QED
  BY <1>1, <1>2, <1>3, <1>4, <1>8

LEMMA JoinOnce ==
    ASSUME NEW S, NEW s, NEW m, Once(s, m, S), NEW o, NEW k, Once(o, k, S),
           \A i \in 1..k : o[i] \notin ToSet(s)
    PROVE  Once(s \o o, m + k, S)
<1>1. /\ m \in Nat /\ k \in Nat /\ s \in Seq(S) /\ o \in Seq(S) /\ Len(s) = m /\ Len(o) = k
      /\ s \in [1..m -> S] /\ o \in [1..k -> S]
  BY DEF Once
<1>2. /\ s \o o \in Seq(S) /\ Len(s \o o) = m + k
      /\ \A i \in 1..m + k : (s \o o)[i] = IF i <= m THEN s[i] ELSE o[i - m]
  BY <1>1, ConcatProperties
<1>3. s \o o \in [1..m + k -> S]
  BY <1>2, LenProperties
<1>4. \A i \in 1..m, j \in 1..k : s[i] # o[j]
  BY <1>1 DEF ToSet
<1>5. ASSUME NEW i \in 1..m + k, NEW j \in 1..m + k, (s \o o)[i] = (s \o o)[j]
      PROVE  i = j
  <2>1. CASE i <= m /\ j <= m
    <3>1. i \in 1..m /\ j \in 1..m /\ s[i] = s[j]
      BY <1>1, <1>2, <1>5, <2>1
    <3> QED
      BY <3>1 DEF Once
  <2>2. CASE i > m /\ j > m
    <3>1. i - m \in 1..k /\ j - m \in 1..k /\ o[i - m] = o[j - m]
      BY <1>1, <1>2, <1>5, <2>2
    <3>2. i - m = j - m
      BY <3>1 DEF Once
    <3> QED
      BY <1>1, <3>2
  <2>3. CASE i <= m /\ j > m
    <3>1. i \in 1..m /\ j - m \in 1..k /\ s[i] = o[j - m]
      BY <1>1, <1>2, <1>5, <2>3
    <3> QED
      BY <1>4, <3>1
  <2>4. CASE i > m /\ j <= m
    <3>1. j \in 1..m /\ i - m \in 1..k /\ s[j] = o[i - m]
      BY <1>1, <1>2, <1>5, <2>4
    <3> QED
      BY <1>4, <3>1
  <2> QED
    BY <1>1, <2>1, <2>2, <2>3, <2>4
<1> QED
  BY <1>1, <1>2, <1>3, <1>5 DEF Once

-----------------------------------------------------------------------------
(* What is shown can be opened. *)

LEMMA SearchKeys ==
    ASSUME StorefrontInv
    PROVE  /\ IsFiniteSet(Found)
           /\ Keys(Found, [t \in Found |-> <<Facts[t].match, -Facts[t].likeness, Facts[t].collated,
                                             Facts[t].id>>], 4)
<1> DEFINE key == [t \in Found |->
                      <<Facts[t].match, -Facts[t].likeness, Facts[t].collated, Facts[t].id>>]
<1>1. Found \subseteq Titles /\ \A t \in Found : Facts[t].match \in Int
  BY FactTypes DEF Found
<1>2. (\A t \in Found : key[t] \in [1..4 -> Int]) /\ \A t \in Found : key[t][4] = Facts[t].id
  BY <1>1, FactTypes
<1> HIDE DEF key
<1>3. Keys(Found, key, 4)
  BY <1>1, <1>2, IdsTellApart
<1> QED
  BY <1>1, <1>3, StorefrontParameters, FS_Subset DEF key

\* What a search finds, each product once, and what of it is visible.
LEMMA SearchResults ==
    ASSUME StorefrontInv
    PROVE  \E m \in Nat : Once(Kept(SearchOrder, OnShow), m, Titles \cap OnShow)
<1> DEFINE key == [t \in Found |->
                      <<Facts[t].match, -Facts[t].likeness, Facts[t].collated, Facts[t].id>>]
<1>1. IsFiniteSet(Found) /\ Keys(Found, key, 4) /\ Found \subseteq Titles
  BY SearchKeys DEF Found
<1>2. SearchOrder = Ordered(Found, key)
  BY DEF SearchOrder
<1> HIDE DEF key
<1>3. PICK n : n = Cardinality(Found)
  OBVIOUS
<1>4. n \in Nat /\ Lists(SearchOrder, Found, key)
  BY <1>1, <1>2, <1>3, OrderedLists, FS_CardinalityType
<1>5. /\ SearchOrder \in [1..n -> Titles]
      /\ \A i, j \in 1..n : SearchOrder[i] = SearchOrder[j] => i = j
  BY <1>1, <1>3, <1>4 DEF Lists
<1>6. Once(SearchOrder, n, Titles)
  BY <1>4, <1>5 DEF Once
<1>7. Once(Kept(SearchOrder, OnShow), Cardinality(Places(SearchOrder, OnShow)), Titles \cap OnShow)
  BY <1>4, <1>5, <1>6, KeptOf
<1> QED
  BY <1>7 DEF Once

\* The first ones of any list show what is listed.
LEMMA ListsShow ==
    ASSUME StorefrontInv, NEW S \in SUBSET OnShow, NEW sort \in Sorts, NEW size \in Nat,
           NEW i \in DOMAIN Slice(Sorted(S, sort), size, 1)
    PROVE  Slice(Sorted(S, sort), size, 1)[i] \in S
<1> DEFINE key == [t \in S |-> SortKey(sort, t)]
<1>1. S \in SUBSET Titles
  BY DEF OnShow
<1>2. PICK n \in Nat : Keys(S, key, n)
  BY <1>1, SortKeys
<1>3. IsFiniteSet(S) /\ Sorted(S, sort) = Ordered(S, key)
  BY <1>1, SortedLists DEF Sorted
<1> HIDE DEF key
<1>4. Once(Slice(Ordered(S, key), size, 1),
           IF size < Cardinality(S) THEN size ELSE Cardinality(S), S)
  BY <1>2, <1>3, FirstOnes
<1> QED
  BY <1>3, <1>4 DEF Once

LEMMA ShownHolds ==
    ASSUME StorefrontInv
    PROVE  ShownIsVisible
<1>1. ASSUME NEW c \in Menu, NEW t \in Listed([Anything EXCEPT !.slug = c])
      PROVE  Visible(t)
  <2>1. t \in Titles /\ c \in Shelves /\ c # None
    BY StorefrontParameters DEF Menu, Listed
  <2>2. standing[t] = "ACTIVE" /\ InCategory(t, c)
    BY <1>1, <2>1, ListedWith
  <2>3. PICK d \in Facts[t].shelves :
            d \in openShelves /\ (d = c \/ (ShelfAbove[d] = c /\ c \in openShelves))
    BY <2>2 DEF InCategory
  <2>4. OpenShelf(d)
    BY <2>3 DEF Menu, OpenShelf
  <2> QED
    BY <2>2, <2>4 DEF Visible
<1>2. ASSUME NEW s \in {HomeSellers, HomeNewest, HomeUpcoming}, NEW i \in DOMAIN s
      PROVE  s[i] \in Listed(Anything)
  <2> DEFINE U == Listed([Anything EXCEPT !.upcoming = TRUE])
  <2>1. U \subseteq OnShow
    BY ListedWith DEF Listed
  <2>2. /\ HomeNewest = Slice(Sorted(OnShow, "NEWEST"), HomeLimit, 1)
        /\ HomeUpcoming = Slice(Sorted(U, "RELEASE_ASC"), UpcomingLimit, 1)
    BY HomeHolds, ListedPlain DEF HomeAgrees, Page
  <2>3. {"NEWEST", "RELEASE_ASC"} \subseteq Sorts /\ {HomeLimit, UpcomingLimit} \subseteq Nat
    BY StorefrontParameters DEF Sorts
  <2> HIDE DEF U
  <2>4. CASE s = HomeSellers
    BY <1>2, <2>4, SellersAlike
  <2>5. CASE s = HomeNewest
    BY <1>2, <2>2, <2>3, <2>5, ListsShow, ListedPlain
  <2>6. CASE s = HomeUpcoming
    <3>1. s[i] \in U
      BY <1>2, <2>1, <2>2, <2>3, <2>6, ListsShow
    <3> QED
      BY <2>1, <3>1, ListedPlain
  <2> QED
    BY <2>4, <2>5, <2>6
<1>3. ASSUME NEW i \in DOMAIN Kept(SearchOrder, OnShow)
      PROVE  Kept(SearchOrder, OnShow)[i] \in Listed(Anything)
  BY SearchResults, ListedPlain DEF Once
<1>4. ASSUME NEW t \in Titles, Visible(t)
      PROVE  /\ Detail(t).shelves \subseteq Menu
             /\ ToSet(Detail(t).trail) \subseteq Detail(t).shelves
             /\ \A c \in Detail(t).shelves : t \in Listed([Anything EXCEPT !.slug = c])
             /\ MarkedAvailable(t)
  <2>1. /\ Facts[t].shelves \subseteq Shelves /\ Facts[t].primary \in Facts[t].shelves
        /\ standing[t] = "ACTIVE" /\ t \in Titles
    <3>1. Facts[t].shelves # {} /\ standing[t] = "ACTIVE"
      BY <1>4 DEF Visible
    <3> QED
      BY <3>1, FactTypes
  <2>2. Detail(t).shelves = PageShelves(t) /\ Detail(t).trail = Trail(t)
    BY DEF Detail
  <2>3. ASSUME NEW c \in PageShelves(t)
        PROVE  c \in Menu /\ InCategory(t, c)
    <3>1. CASE c \in Facts[t].shelves /\ OpenShelf(c)
      BY <2>1, <3>1 DEF Menu, InCategory, OpenShelf
    <3>2. CASE \E d \in Facts[t].shelves : OpenShelf(d) /\ ShelfAbove[d] # None /\ c = ShelfAbove[d]
      <4>1. PICK d \in Facts[t].shelves : OpenShelf(d) /\ ShelfAbove[d] # None /\ c = ShelfAbove[d]
        BY <3>2
      <4>2. c \in Shelves /\ ShelfAbove[c] = None /\ c \in openShelves /\ d \in openShelves
        BY <2>1, <4>1, StorefrontParameters DEF OpenShelf
      <4> QED
        BY <4>1, <4>2 DEF Menu, InCategory, OpenShelf
    <3> QED
      BY <3>1, <3>2 DEF PageShelves
  <2>4. ToSet(Trail(t)) \subseteq PageShelves(t)
    <3> DEFINE c == Facts[t].primary
    <3>1. CASE ~OpenShelf(c)
      BY <3>1 DEF Trail, ToSet
    <3>2. CASE OpenShelf(c) /\ ShelfAbove[c] = None
      <4>1. Trail(t) = <<c>> /\ c \in PageShelves(t)
        BY <2>1, <3>2 DEF Trail, PageShelves
      <4> HIDE DEF c
      <4> QED
        BY <4>1 DEF ToSet
    <3>3. CASE OpenShelf(c) /\ ShelfAbove[c] # None
      <4>1. Trail(t) = <<ShelfAbove[c], c>> /\ c \in PageShelves(t) /\ ShelfAbove[c] \in PageShelves(t)
        BY <2>1, <3>3 DEF Trail, PageShelves
      <4> HIDE DEF c
      <4> QED
        BY <4>1 DEF ToSet
    <3> QED
      BY <3>1, <3>2, <3>3
  <2>5. \A c \in PageShelves(t) : t \in Listed([Anything EXCEPT !.slug = c])
    <3> SUFFICES ASSUME NEW c \in PageShelves(t)
                 PROVE  t \in Listed([Anything EXCEPT !.slug = c])
      OBVIOUS
    <3>1. c # None
      BY <2>3, StorefrontParameters DEF Menu
    <3> QED
      BY <2>1, <2>3, <3>1, ListedWith
  <2> QED
    BY <2>1, <2>2, <2>3, <2>4, <2>5 DEF MarkedAvailable
<1> QED
  BY <1>1, <1>2, <1>3, <1>4 DEF ShownIsVisible

-----------------------------------------------------------------------------
(* The pages of a list. *)

\* What a page has: the places from one number to another.
OnPage(s, N, size, n, t) == \E j \in 1..N : s[j] = t /\ (n - 1) * size < j /\ j <= n * size

LEMMA PageHas ==
    ASSUME NEW S, NEW N \in Nat, NEW s \in [1..N -> S], NEW size \in 1..2, NEW n \in Nat \ {0},
           NEW t
    PROVE  t \in ToSet(Slice(s, size, n)) <=> OnPage(s, N, size, n, t)
<1>1. PICK a \in Int : a = (n - 1) * size + 1
  OBVIOUS
<1>2. PICK b \in Int : b = IF n * size < N THEN n * size ELSE N
  OBVIOUS
<1>3. Len(s) = N
  BY LenProperties
<1>4. Slice(s, size, n) = SubSeq(s, a, b)
  BY <1>1, <1>2, <1>3 DEF Slice
<1>5. a >= 1 /\ b <= N
  <2>1. CASE size = 1
    BY <1>1, <1>2, <2>1
  <2>2. CASE size = 2
    BY <1>1, <1>2, <2>2
  <2> QED
    BY <2>1, <2>2
<1>6. \A j \in a..b : s[j] \in S
  BY <1>5
<1>7. /\ SubSeq(s, a, b) \in Seq(S)
      /\ Len(SubSeq(s, a, b)) = IF a <= b THEN b - a + 1 ELSE 0
      /\ \A j \in 1..b - a + 1 : SubSeq(s, a, b)[j] = s[a + j - 1]
  BY <1>6, SubSeqProperties
<1>8. DOMAIN SubSeq(s, a, b) = 1..b - a + 1
  <2>1. DOMAIN SubSeq(s, a, b) = 1..Len(SubSeq(s, a, b))
    BY <1>7, LenProperties
  <2> QED
    BY <1>7, <2>1
<1>9. ASSUME t \in ToSet(Slice(s, size, n))
      PROVE  \E j \in a..b : s[j] = t
  <2>1. PICK i \in 1..b - a + 1 : SubSeq(s, a, b)[i] = t
    BY <1>4, <1>8, <1>9 DEF ToSet
  <2>2. s[a + i - 1] = t /\ a + i - 1 \in a..b
    BY <1>7, <2>1
  <2> QED
    BY <2>2
<1>10. ASSUME NEW j \in a..b, s[j] = t
       PROVE  t \in ToSet(Slice(s, size, n))
  <2>1. j - a + 1 \in 1..b - a + 1 /\ a + (j - a + 1) - 1 = j
    OBVIOUS
  <2>2. SubSeq(s, a, b)[j - a + 1] = t
    BY <1>7, <1>10, <2>1
  <2> QED
    BY <1>4, <1>8, <2>1, <2>2 DEF ToSet
<1>11. ASSUME NEW j \in Int
       PROVE  j \in a..b <=> j \in 1..N /\ (n - 1) * size < j /\ j <= n * size
  <2>1. CASE size = 1
    BY <1>1, <1>2, <2>1
  <2>2. CASE size = 2
    BY <1>1, <1>2, <2>2
  <2>3. size = 1 \/ size = 2
    OBVIOUS
  <2> QED
    BY <2>1, <2>2, <2>3, Zenon
<1>12. ASSUME t \in ToSet(Slice(s, size, n))
       PROVE  \E j \in 1..N : s[j] = t /\ (n - 1) * size < j /\ j <= n * size
  <2>1. PICK j \in a..b : s[j] = t
    BY <1>9, <1>12
  <2>2. j \in Int
    OBVIOUS
  <2> QED
    BY <1>11, <2>1, <2>2, Zenon
<1>13. ASSUME NEW j \in 1..N, s[j] = t, (n - 1) * size < j, j <= n * size
       PROVE  t \in ToSet(Slice(s, size, n))
  <2>1. j \in Int
    OBVIOUS
  <2>2. j \in a..b
    BY <1>11, <1>13, <2>1, Zenon
  <2> QED
    BY <1>10, <1>13, <2>2
<1> QED
  BY <1>12, <1>13 DEF OnPage

\* The pages that show a product.
PagesWith(s, N, size, t) == {n \in 1..PageCount(N, size) : t \in ToSet(Slice(s, size, n))}

LEMMA OnePage ==
    ASSUME NEW S, NEW N \in Nat, NEW s \in [1..N -> S], \A i, j \in 1..N : s[i] = s[j] => i = j,
           NEW size \in 1..2, NEW i \in 1..N
    PROVE  Cardinality(PagesWith(s, N, size, s[i])) = 1
<1>1. PICK p \in Nat : p = IF size = 1 THEN i ELSE (i + 1) \div 2
  OBVIOUS
<1>2. PageCount(N, size) = IF size = 1 THEN N ELSE (N + 1) \div 2
  BY DEF PageCount
<1>3. p \in 1..PageCount(N, size)
  BY <1>1, <1>2
<1>4. ASSUME NEW n \in 1..PageCount(N, size)
      PROVE  s[i] \in ToSet(Slice(s, size, n)) <=> n = p
  <2>1. n \in Nat \ {0}
    BY <1>2
  <2>2. s[i] \in ToSet(Slice(s, size, n)) <=> OnPage(s, N, size, n, s[i])
    BY <2>1, PageHas
  <2>3. s[i] \in ToSet(Slice(s, size, n)) <=> (n - 1) * size < i /\ i <= n * size
    <3>1. \A j \in 1..N : s[j] = s[i] <=> j = i
      OBVIOUS
    <3> QED
      BY <2>2, <3>1, Zenon DEF OnPage
  <2>4. CASE size = 1
    BY <1>1, <2>1, <2>3, <2>4
  <2>5. CASE size = 2
    BY <1>1, <2>1, <2>3, <2>5
  <2> QED
    BY <2>4, <2>5
<1>5. PagesWith(s, N, size, s[i]) = {p}
  BY <1>3, <1>4 DEF PagesWith
<1> QED
  BY <1>5, FS_Singleton

LEMMA PagesHold ==
    ASSUME StorefrontInv
    PROVE  PagesPartition
<1> SUFFICES ASSUME NEW sort \in Sorts, NEW size \in 1..2
             PROVE  /\ \A t, u \in OnShow : t # u => SortKey(sort, t) # SortKey(sort, u)
                    /\ \A t \in OnShow :
                           Cardinality({n \in 1..PageCount(Cardinality(OnShow), size) :
                                            t \in ToSet(Page(Anything, sort, size, n))}) = 1
  BY ListedPlain DEF PagesPartition
<1> DEFINE key == [t \in OnShow |-> SortKey(sort, t)]
<1>1. OnShow \in SUBSET Titles
  BY DEF OnShow
<1>2. PICK n \in Nat : Keys(OnShow, key, n)
  BY <1>1, SortKeys
<1>3. \A t, u \in OnShow : t # u => SortKey(sort, t) # SortKey(sort, u)
  BY <1>2 DEF Keys
<1>4. PICK N \in Nat : N = Cardinality(OnShow)
  BY <1>1, SortedLists
<1>5. PICK s : s = Sorted(OnShow, sort)
  OBVIOUS
<1>6. Lists(s, OnShow, key)
  BY <1>1, <1>5, SortedLists
<1> HIDE DEF key
<1>7. /\ s \in [1..N -> OnShow] /\ \A i, j \in 1..N : s[i] = s[j] => i = j
      /\ \A t \in OnShow : \E i \in 1..N : s[i] = t
  BY <1>4, <1>6 DEF Lists
<1>8. \A n1 : Page(Anything, sort, size, n1) = Slice(s, size, n1)
  BY <1>5, ListedPlain DEF Page
<1>9. ASSUME NEW t \in OnShow
      PROVE  Cardinality({n1 \in 1..PageCount(N, size) :
                              t \in ToSet(Page(Anything, sort, size, n1))}) = 1
  <2>1. PICK i \in 1..N : s[i] = t
    BY <1>7
  <2>2. Cardinality(PagesWith(s, N, size, s[i])) = 1
    <3>1. N \in Nat /\ size \in 1..2 /\ i \in 1..N
      OBVIOUS
    <3>2. s \in [1..N -> OnShow]
      BY <1>7
    <3>3. \A h, j \in 1..N : s[h] = s[j] => h = j
      BY <1>7
    <3> QED
      BY <3>1, <3>2, <3>3, OnePage
  <2>3. PagesWith(s, N, size, t) =
            {n1 \in 1..PageCount(N, size) : t \in ToSet(Page(Anything, sort, size, n1))}
    BY <1>8 DEF PagesWith
  <2> QED
    BY <2>1, <2>2, <2>3
<1> QED
  BY <1>3, <1>4, <1>9

-----------------------------------------------------------------------------
(* Search. *)

\* There are places for so many best sellers.
LEMMA SellersBounded ==
    ASSUME StorefrontInv
    PROVE  IsFiniteSet(BestSellers) /\ Cardinality(BestSellers) <= HomeLimit /\ HomeLimit \in Nat
<1> DEFINE some == {t \in Titles : sold[t] > 0}
           key == [t \in some |-> <<-sold[t], Facts[t].id>>]
           I == 0..HomeLimit - 1
<1>1. some \in SUBSET Titles /\ IsFiniteSet(some) /\ HomeLimit \in Nat
  BY StorefrontParameters, FS_Subset
<1>2. (\A t \in some : key[t] \in [1..2 -> Int]) /\ \A t \in some : key[t][2] = Facts[t].id
  BY FactTypes
<1>3. \A t \in some : Ahead(some, key, t) =
          {u \in some : Before(<<-sold[u], Facts[u].id>>, <<-sold[t], Facts[t].id>>)}
  BY DEF Ahead
<1>4. BestSellers = {t \in some : Cardinality(Ahead(some, key, t)) < HomeLimit}
  BY <1>3 DEF BestSellers
<1> HIDE DEF some, key
<1>5. Keys(some, key, 2)
  BY <1>1, <1>2, IdsTellApart
<1> DEFINE r == [t \in BestSellers |-> Cardinality(Ahead(some, key, t))]
<1>6. /\ \A t \in some : Cardinality(Ahead(some, key, t)) \in Nat
      /\ \A t, u \in some : Cardinality(Ahead(some, key, t)) = Cardinality(Ahead(some, key, u)) => t = u
  <2>1. /\ Cardinality(some) \in Nat
        /\ \A t \in some : Cardinality(Ahead(some, key, t)) \in 0..Cardinality(some) - 1
        /\ \A t, u \in some :
               Cardinality(Ahead(some, key, t)) = Cardinality(Ahead(some, key, u)) => t = u
    BY <1>1, <1>5, EveryPlaceTaken
  <2> QED
    BY <2>1
<1>7. r \in [BestSellers -> I] /\ \A t, u \in BestSellers : r[t] = r[u] => t = u
  BY <1>1, <1>4, <1>6
<1> HIDE DEF r
<1>8. r \in Injection(BestSellers, I)
  BY <1>7 DEF Injection, IsInjective
<1>9. IsFiniteSet(I) /\ Cardinality(I) = HomeLimit
  BY <1>1, FS_Interval
<1> HIDE DEF I
<1>10. IsFiniteSet(BestSellers) /\ Cardinality(BestSellers) <= Cardinality(I)
  BY <1>8, <1>9, FS_Injection
<1> QED
  BY <1>1, <1>9, <1>10

LEMMA SuggestionsHold ==
    ASSUME StorefrontInv
    PROVE  SuggestionsAgree
<1> SUFFICES ASSUME NEW limit \in 1..2
             PROVE  LET s == Suggestions(limit) IN
                    /\ [i \in DOMAIN s |-> s[i].title] = ResultPage(Anything, limit, 1)
                    /\ Cardinality({i \in DOMAIN s : s[i].seller}) <= HomeLimit
                    /\ Cardinality({i \in DOMAIN s : s[i].best}) <= 1
  BY DEF SuggestionsAgree
<1>1. PICK m \in Nat : Once(Kept(SearchOrder, OnShow), m, Titles \cap OnShow)
  BY SearchResults
<1>2. PICK seen : seen = Kept(SearchOrder, OnShow)
  OBVIOUS
<1>3. PICK first : first = Slice(seen, limit, 1)
  OBVIOUS
<1>4. PICK k \in Nat : k = IF limit < m THEN limit ELSE m
  OBVIOUS
<1>5. seen \in [1..m -> Titles] /\ \A i, j \in 1..m : seen[i] = seen[j] => i = j
  BY <1>1, <1>2 DEF Once
<1>6. first \in [1..k -> Titles] /\ \A i \in 1..k : first[i] = seen[i]
  <2>1. Prefix(Slice(seen, limit, 1), seen, IF limit < m THEN limit ELSE m, Titles)
    <3>1. limit \in Nat /\ m \in Nat
      OBVIOUS
    <3>2. seen \in [1..m -> Titles]
      BY <1>5
    <3> QED
      BY <3>1, <3>2, FirstSlice
  <2> QED
    BY <1>3, <1>4, <2>1 DEF Prefix
<1>7. \A i, j \in 1..k : first[i] = first[j] => i = j
  BY <1>4, <1>5, <1>6
<1> DEFINE s == Suggestions(limit)
<1>8. /\ DOMAIN s = 1..k
      /\ \A i \in 1..k : s[i].title = first[i]
      /\ \A i \in 1..k : s[i].seller => first[i] \in BestSellers
      /\ \A i \in 1..k : s[i].best => i = 1
  BY <1>2, <1>3, <1>6 DEF Suggestions
<1> HIDE DEF s
<1>9. [i \in DOMAIN s |-> s[i].title] = ResultPage(Anything, limit, 1)
  <2>1. ResultPage(Anything, limit, 1) = first
    BY <1>2, <1>3, ListedPlain DEF ResultPage
  <2>2. [i \in DOMAIN s |-> s[i].title] = first
    BY <1>6, <1>8
  <2> QED
    BY <2>1, <2>2
<1>10. Cardinality({i \in DOMAIN s : s[i].seller}) <= HomeLimit
  <2> DEFINE A == {i \in DOMAIN s : s[i].seller}
             f == [i \in A |-> first[i]]
  <2>1. f \in [A -> BestSellers] /\ \A i, j \in A : f[i] = f[j] => i = j
    BY <1>7, <1>8
  <2> HIDE DEF A, f
  <2>2. f \in Injection(A, BestSellers)
    BY <2>1 DEF Injection, IsInjective
  <2>3. IsFiniteSet(A) /\ Cardinality(A) <= Cardinality(BestSellers)
    BY <2>2, SellersBounded, FS_Injection
  <2>4. Cardinality(A) \in Nat /\ Cardinality(BestSellers) \in Nat
    BY <2>3, SellersBounded, FS_CardinalityType
  <2>5. Cardinality(A) <= HomeLimit
    BY <2>3, <2>4, SellersBounded
  <2> QED
    BY <2>5 DEF A
<1>11. Cardinality({i \in DOMAIN s : s[i].best}) <= 1
  <2> DEFINE A == {i \in DOMAIN s : s[i].best}
  <2>1. A \in SUBSET {1}
    BY <1>8
  <2>2. IsFiniteSet({1}) /\ Cardinality({1}) = 1
    BY FS_Singleton
  <2> HIDE DEF A
  <2>3. Cardinality(A) <= 1
    BY <2>1, <2>2, FS_Subset
  <2> QED
    BY <2>3 DEF A
<1> QED
  BY <1>9, <1>10, <1>11 DEF s

-----------------------------------------------------------------------------
(* Related products: three tiers fill the places that are asked for. *)

\* Fame orders products of any kind.
FameKey(u) == <<-sold[u], -Facts[u].rating, -Facts[u].created, Facts[u].id>>
AlikeKeys(t, S) == [u \in S |-> <<-Score(t, u)>> \o FameKey(u)]
FameKeys(S) == [u \in S |-> FameKey(u)]
NewKeys(S) == [u \in S |-> <<-Facts[u].created, -sold[u], -Facts[u].rating, Facts[u].id>>]

LEMMA RelatedKeys ==
    ASSUME StorefrontInv, NEW S \in SUBSET Titles, NEW t \in Titles
    PROVE  /\ IsFiniteSet(S)
           /\ Keys(S, AlikeKeys(t, S), 5) /\ Keys(S, FameKeys(S), 4) /\ Keys(S, NewKeys(S), 4)
<1>1. IsFiniteSet(S)
  BY StorefrontParameters, FS_Subset
<1>2. \A u \in S : Score(t, u) \in Int
  BY DEF Score, Share
<1>3. Keys(S, AlikeKeys(t, S), 5)
  <2>1. ASSUME NEW u \in S
        PROVE  /\ AlikeKeys(t, S)[u] \in [1..5 -> Int]
               /\ AlikeKeys(t, S)[u][5] = Facts[u].id
    <3>1. PICK n \in Int : n = -Score(t, u)
      BY <1>2
    <3>2. FameKey(u) \in Seq(Int) /\ Len(FameKey(u)) = 4 /\ FameKey(u)[4] = Facts[u].id
      BY FactTypes DEF FameKey
    <3>3. PICK one \in Seq(Int) : one = <<n>> /\ Len(one) = 1
      <4>1. <<n>> \in Seq(Int)
        OBVIOUS
      <4>2. Len(<<n>>) = 1
        OBVIOUS
      <4> QED
        BY <4>1, <4>2, Zenon
    <3>4. PICK f \in Seq(Int) : f = FameKey(u)
      BY <3>2
    <3>5. Len(f) = 4
      BY <3>2, <3>4
    <3>6. PICK k : k = one \o f
      OBVIOUS
    <3>7. /\ one \o f \in Seq(Int) /\ Len(one \o f) = Len(one) + Len(f)
          /\ \A i \in 1..Len(one) + Len(f) :
                 (one \o f)[i] = IF i <= Len(one) THEN one[i] ELSE f[i - Len(one)]
      BY ConcatProperties
    <3>8. k \in Seq(Int) /\ Len(k) = 5 /\ k[5] = f[4]
      BY <3>5, <3>7, <3>3, <3>6
    <3>9. k \in [1..5 -> Int]
      BY <3>8, LenProperties
    <3>10. k[5] = FameKey(u)[4]
      BY <3>4, <3>8
    <3> QED
      BY <3>1, <3>2, <3>3, <3>6, <3>4, <3>9, <3>10 DEF AlikeKeys
  <2> QED
    BY <2>1, IdsTellApart
<1>4. Keys(S, FameKeys(S), 4)
  <2>1. /\ \A u \in S : FameKeys(S)[u] \in [1..4 -> Int]
        /\ \A u \in S : FameKeys(S)[u][4] = Facts[u].id
    BY FactTypes DEF FameKeys, FameKey
  <2> QED
    BY <2>1, IdsTellApart
<1>5. Keys(S, NewKeys(S), 4)
  <2>1. /\ \A u \in S : NewKeys(S)[u] \in [1..4 -> Int]
        /\ \A u \in S : NewKeys(S)[u][4] = Facts[u].id
    BY FactTypes DEF NewKeys
  <2> QED
    BY <2>1, IdsTellApart
<1> QED
  BY <1>1, <1>3, <1>4, <1>5

\* One tier: the first ones of what the tiers before it have not taken.
LEMMA Tier ==
    ASSUME NEW pool, IsFiniteSet(pool), NEW before, NEW m, Once(before, m, pool),
           NEW S, S \subseteq pool \ ToSet(before), NEW n \in Nat, NEW key, Keys(S, key, n),
           NEW size \in Nat
    PROVE  LET o == Slice(Ordered(S, key), size, 1)
               k == IF size < Cardinality(S) THEN size ELSE Cardinality(S)
           IN /\ Cardinality(S) \in Nat /\ k \in Nat /\ k <= size
              /\ Len(o) = k /\ Once(before \o o, m + k, pool)
<1>1. PICK o : o = Slice(Ordered(S, key), size, 1)
  OBVIOUS
<1>2. PICK k : k = IF size < Cardinality(S) THEN size ELSE Cardinality(S)
  OBVIOUS
<1>3. IsFiniteSet(S) /\ S \subseteq pool
  BY FS_Subset
<1>4. Cardinality(S) \in Nat /\ Once(o, k, S)
  BY <1>1, <1>2, <1>3, FirstOnes
<1>5. k \in Nat /\ k <= size
  BY <1>2, <1>4
<1>6. Once(o, k, pool)
  BY <1>3, <1>4 DEF Once
<1>7. \A i \in 1..k : o[i] \notin ToSet(before)
  BY <1>4 DEF Once
<1>8. Once(before \o o, m + k, pool)
  BY <1>6, <1>7, JoinOnce
<1> QED
  BY <1>1, <1>2, <1>4, <1>5, <1>8 DEF Once

\* As many as were asked for, or all there are.
LEMMA RelatedFills ==
    ASSUME StorefrontInv, NEW t \in Titles, NEW limit \in Nat
    PROVE  Once(RelatedIds(t, limit),
                IF limit < Cardinality(Pool(t)) THEN limit ELSE Cardinality(Pool(t)), Pool(t))
<1> DEFINE alike == {u \in Pool(t) : Score(t, u) > 0}
<1>1. PICK pool : pool = Pool(t)
  OBVIOUS
<1>2. pool \in SUBSET Titles /\ IsFiniteSet(pool) /\ Cardinality(pool) \in Nat
  <2>1. pool \in SUBSET Titles
    BY <1>1 DEF Pool
  <2> QED
    BY <2>1, StorefrontParameters, FS_Subset, FS_CardinalityType
<1>3. Once(<<>>, 0, pool) /\ ToSet(<<>>) = {}
  <2>1. <<>> \in Seq(pool) /\ Len(<<>>) = 0 /\ <<>> \in [1..0 -> pool]
    OBVIOUS
  <2> QED
    BY <2>1 DEF Once, ToSet
<1>4. PICK similar : similar = Slice(Ordered(alike, AlikeKeys(t, alike)), limit, 1)
  OBVIOUS
<1>5. PICK popular : popular = {u \in pool : sold[u] > 0} \ ToSet(similar)
  OBVIOUS
<1>6. PICK sellers : sellers =
          Slice(Ordered(popular, FameKeys(popular)), Remaining(limit - Len(similar)), 1)
  OBVIOUS
<1>7. PICK rest : rest = pool \ ToSet(similar \o sellers)
  OBVIOUS
<1>8. PICK newest : newest =
          Slice(Ordered(rest, NewKeys(rest)), Remaining(limit - Len(similar) - Len(sellers)), 1)
  OBVIOUS
<1>9. RelatedIds(t, limit) = Slice(similar \o sellers \o newest, limit, 1)
  BY <1>1, <1>4, <1>5, <1>6, <1>7, <1>8
     DEF RelatedIds, AlikeKeys, FameKeys, FameKey, NewKeys, NewestOf
<1>10. alike \subseteq pool
  BY <1>1
<1> HIDE DEF alike
<1>11. PICK a \in Nat : a <= limit /\ Len(similar) = a /\ Once(similar, a, pool)
  <2>1. IsFiniteSet(alike) /\ Keys(alike, AlikeKeys(t, alike), 5)
    BY <1>2, <1>10, RelatedKeys
  <2>2. PICK k : k = IF limit < Cardinality(alike) THEN limit ELSE Cardinality(alike)
    OBVIOUS
  <2>3. Cardinality(alike) \in Nat /\ Once(similar, k, alike)
    BY <1>4, <2>1, <2>2, FirstOnes
  <2>4. k \in Nat /\ k <= limit
    BY <2>2, <2>3
  <2> QED
    BY <1>10, <2>3, <2>4 DEF Once
<1>12. Remaining(limit - Len(similar)) = limit - a /\ limit - a \in Nat
  BY <1>11 DEF Remaining
<1>13. PICK b \in Nat : b <= limit - a /\ Len(sellers) = b /\ Once(similar \o sellers, a + b, pool)
  <2>1. popular \subseteq pool \ ToSet(similar)
    BY <1>5
  <2>2. Keys(popular, FameKeys(popular), 4)
    BY <1>2, <2>1, RelatedKeys
  <2>3. PICK size \in Nat : size = limit - a
    BY <1>12
  <2>4. PICK k : k = IF size < Cardinality(popular) THEN size ELSE Cardinality(popular)
    OBVIOUS
  <2>5. sellers = Slice(Ordered(popular, FameKeys(popular)), size, 1)
    BY <1>6, <1>12, <2>3
  <2>6. k \in Nat /\ k <= size /\ Len(sellers) = k /\ Once(similar \o sellers, a + k, pool)
    BY <1>2, <1>11, <2>1, <2>2, <2>4, <2>5, Tier
  <2> QED
    BY <2>3, <2>6
<1>14. Remaining(limit - Len(similar) - Len(sellers)) = limit - (a + b) /\ limit - (a + b) \in Nat
  BY <1>11, <1>13 DEF Remaining
<1>15. /\ Cardinality(rest) = Cardinality(pool) - (a + b)
       /\ Cardinality(rest) \in Nat /\ rest \subseteq pool
  <2>1. PICK gone : gone = ToSet(similar \o sellers)
    OBVIOUS
  <2>2. gone \subseteq pool /\ Cardinality(gone) = a + b
    BY <1>13, <2>1, OnceCounts
  <2>3. pool \cap gone = gone /\ rest = pool \ gone
    BY <1>7, <2>1, <2>2
  <2>4. /\ IsFiniteSet(pool \ gone)
        /\ Cardinality(pool \ gone) = Cardinality(pool) - Cardinality(pool \cap gone)
    BY <1>2, FS_Difference
  <2> QED
    BY <2>2, <2>3, <2>4, FS_CardinalityType
<1>16. PICK c \in Nat : /\ c = IF limit - (a + b) < Cardinality(rest) THEN limit - (a + b)
                               ELSE Cardinality(rest)
                        /\ Once(similar \o sellers \o newest, a + b + c, pool)
  <2>1. Keys(rest, NewKeys(rest), 4)
    BY <1>2, <1>15, RelatedKeys
  <2>2. PICK size \in Nat : size = limit - (a + b)
    BY <1>14
  <2>3. PICK k : k = IF size < Cardinality(rest) THEN size ELSE Cardinality(rest)
    OBVIOUS
  <2>4. newest = Slice(Ordered(rest, NewKeys(rest)), size, 1)
    BY <1>8, <1>14, <2>2
  <2>5. PICK gone : gone = similar \o sellers
    OBVIOUS
  <2>6. rest \subseteq pool \ ToSet(gone) /\ Once(gone, a + b, pool)
    BY <1>7, <1>13, <2>5
  <2>7. k \in Nat /\ Once(gone \o newest, a + b + k, pool)
    BY <1>2, <2>1, <2>3, <2>4, <2>6, Tier
  <2> QED
    BY <2>2, <2>3, <2>5, <2>7
<1>17. a + b + c = IF limit < Cardinality(pool) THEN limit ELSE Cardinality(pool)
  BY <1>2, <1>11, <1>13, <1>14, <1>15, <1>16
<1>18. PICK s : s = similar \o sellers \o newest
  OBVIOUS
<1>19. PICK n \in Nat : n = a + b + c
  OBVIOUS
<1>20. Once(s, n, pool) /\ n <= limit
  BY <1>2, <1>16, <1>17, <1>18, <1>19
<1>21. Slice(s, limit, 1) = s
  <2>1. s \in [1..n -> pool] /\ Len(s) = n
    BY <1>20 DEF Once
  <2>2. Prefix(Slice(s, limit, 1), s, IF limit < n THEN limit ELSE n, pool)
    BY <2>1, FirstSlice
  <2>3. (IF limit < n THEN limit ELSE n) = n
    BY <1>20
  <2>4. Prefix(Slice(s, limit, 1), s, n, pool)
    BY <2>2, <2>3
  <2> QED
    BY <2>1, <2>4 DEF Prefix
<1> QED
  BY <1>1, <1>9, <1>17, <1>18, <1>19, <1>20, <1>21

LEMMA RelatedHolds ==
    ASSUME StorefrontInv
    PROVE  RelatedComplete
<1> SUFFICES ASSUME NEW t \in Titles, NEW asked \in 1..RelatedLimit, Visible(t)
             PROVE  LET s == Related(t, asked)
                        others == Cardinality({u \in Titles \ {t} : Visible(u)})
                    IN /\ Len(s) = IF asked < others THEN asked ELSE others
                       /\ Cardinality(ToSet(s)) = Len(s) /\ t \notin ToSet(s)
  BY DEF RelatedComplete
<1>1. RelatedLimit \in Nat /\ asked \in Nat
  BY StorefrontParameters
<1>2. PICK pool : pool = {u \in Titles \ {t} : Visible(u)}
  OBVIOUS
<1>3. Pool(t) = pool
  BY <1>2 DEF Pool, Visible, OpenShelf
<1>4. PICK n : n = IF asked < Cardinality(pool) THEN asked ELSE Cardinality(pool)
  OBVIOUS
<1>5. PICK s : s = RelatedIds(t, asked)
  OBVIOUS
<1>6. Once(s, n, pool)
  BY <1>1, <1>3, <1>4, <1>5, RelatedFills
<1>7. Related(t, asked) = s
  <2>1. Related(t, asked) = Kept(s, OnShow)
    BY <1>1, <1>5 DEF Related
  <2>2. n \in Nat /\ s \in [1..n -> pool]
    BY <1>6 DEF Once
  <2>3. \A i \in 1..n : s[i] \in OnShow
    BY <1>2, <2>2 DEF OnShow
  <2>4. Kept(s, OnShow) = s
    BY <2>2, <2>3, KeptAll
  <2> QED
    BY <2>1, <2>4
<1>8. Len(s) = n /\ Cardinality(ToSet(s)) = n /\ ToSet(s) \subseteq pool
  BY <1>6, OnceCounts DEF Once
<1> QED
  BY <1>2, <1>4, <1>7, <1>8

-----------------------------------------------------------------------------
(* The pages together. *)

\* The queries of the public pages agree on what is visible, what it costs, in
\* which order it comes and how much of it there is (StorefrontCatalogService).
THEOREM StorefrontCorrect == StorefrontSpec => []StorefrontAgrees
<1>1. StorefrontInv => StorefrontAgrees
  BY PricesHold, ShownHolds, PagesHold, RelatedHolds, FacetsHold, SuggestionsHold, HomeHolds
     DEF StorefrontAgrees
<1> QED
  BY <1>1, StorefrontInvariance, PTL

-----------------------------------------------------------------------------
(* The parts of MCStore.  Each behaves as its own specification says, so    *)
(* what is proved of it holds of the composition.                           *)

\* A step of the composition is a step or a stutter of every part.
LEMMA StoreStep ==
    [StoreNext]_storeVars =>
        /\ [TransactionNext]_transactionVars /\ [CatalogNext]_catalogVars
        /\ [CategoryNext]_categoryVars /\ [ImageNext]_imageVars /\ [ParcelNext]_parcel
        /\ [CheckoutNext]_checkoutVars /\ [StorefrontNext]_storefrontVars
BY DEF StoreNext, storeVars, CatalogStep, PageStep, catalogTables, pageTables

\* The composition hides no operation of a part and adds none.
THEOREM StoreSidesImplemented ==
    StoreSpec => /\ TransactionSpec /\ CatalogSpec /\ CategorySpec /\ ImageSpec
                 /\ ParcelSpec /\ CheckoutSpec /\ StorefrontSpec
<1>1. StoreInit => /\ TransactionInit /\ CatalogInit /\ CategoryInit /\ ImageInit
                   /\ ParcelInit /\ CheckoutInit /\ StorefrontInit
  BY DEF StoreInit
<1> QED
  BY <1>1, StoreStep, PTL
     DEF StoreSpec, TransactionSpec, CatalogSpec, CategorySpec, ImageSpec, ParcelSpec,
         CheckoutSpec, StorefrontSpec

\* Receipts, products, categories, pictures, parcels, carts and pages keep their
\* types, whoever works on them.
THEOREM StoreTypeCorrect == StoreSpec => []StoreTypeOK
<1>1. /\ TransactionTypeOK /\ CatalogTypeOK /\ CategoryTypeOK /\ ImageTypeOK
      /\ ParcelTypeOK /\ CheckoutTypeOK /\ StorefrontTypeOK
      => StoreTypeOK
  BY DEF StoreTypeOK
<1> QED
  BY <1>1, StoreSidesImplemented, TransactionsTypeCorrect, CatalogTypeCorrect, CategoryTypeCorrect,
     ImageTypeCorrect, ParcelTypeCorrect, CheckoutTypeCorrect, StorefrontTypeCorrect, PTL

\* Variants name values that are there and differ, and galleries stay in order,
\* whatever is renamed, moved or removed (products repository).
THEOREM CatalogResolvesAlways == StoreSpec => []CatalogResolves
<1>1. VariantsResolve /\ GalleriesInOrder => CatalogResolves
  BY DEF CatalogResolves
<1> QED
  BY <1>1, StoreSidesImplemented, CatalogKeepsResolving, PTL

\* The queries of the public pages agree, whatever is edited, sold or over by
\* the next of them.
THEOREM ShopPagesAgreeAlways == StoreSpec => []ShopPagesAgree
<1>1. StorefrontAgrees => ShopPagesAgree
  BY DEF ShopPagesAgree
<1> QED
  BY <1>1, StoreSidesImplemented, StorefrontCorrect, PTL

\* What is proved of the ledger, receipts, slugs, pictures, orders and fees holds
\* in every behaviour of the composition too.
THEOREM StoreCorrect ==
    StoreSpec => /\ [](LedgerChains /\ ReceivedOnce /\ SlugsFollowTree /\ ShownIsStored)
                 /\ []OrdersAsPreviewed /\ ActsAtomically /\ FeeNeverFalls
BY StoreSidesImplemented, TransactionsKeepLedger, TransactionsReceiveOnce, TransactionsActAtomically,
   SlugsKeepFollowingTree, ShownStaysStored, OrdersStayAsPreviewed, FeesNeverFall, PTL
=============================================================================
