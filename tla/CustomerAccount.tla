--------------------------- MODULE CustomerAccount ---------------------------
(***************************************************************************)
(* What a customer keeps after buying: reviews and a wish list             *)
(* (ReviewsService, WishlistsService), next to the order pages and the     *)
(* dashboard, which count the same rows in queries of their own            *)
(* (CustomerOrdersService, AccountDashboardRepository).  An order is known *)
(* here by how far it is; OrderPayments has what moves it.  A review is    *)
(* written in one serializable transaction; the visibility of a review and *)
(* an addition to the wish list are a read and a later write.              *)
(***************************************************************************)
EXTENDS Naturals, FiniteSets

CONSTANTS
    Buyers,
    Nobody,
    Purchases,       \* orders
    Books,           \* products
    ReviewIds,       \* bound: reviews that are ever written
    NoReview,
    Stars,           \* 1..5
    MaxRequests      \* bound: requests about reviews, wishes and products

ASSUME AccountParameters ==
    /\ IsFiniteSet(Purchases) /\ IsFiniteSet(Books) /\ IsFiniteSet(ReviewIds)
    /\ MaxRequests \in Nat

VARIABLES
    purchase,        \* orders with their order_items
    shelved,         \* products.status, or "GONE"
    review,          \* reviews, by id
    wishes,          \* wishlists
    saving,          \* additions to a wish list past their check
    moderating,      \* changes of visibility past their read
    requests         \* how many have been made

accountVars == <<purchase, shelved, review, wishes, saving, moderating, requests>>

Stages == {"NONE", "OPEN", "SHIPPING", "COMPLETED", "CANCELLED"}

PurchaseRow == [by: Buyers \cup {Nobody}, stage: Stages, received: BOOLEAN, lines: SUBSET Books]
NoPurchase == [by |-> Nobody, stage |-> "NONE", received |-> FALSE, lines |-> {}]

\* A row that was removed stays as "REMOVED": its id is not used again.
ReviewRow == [state: {"NONE", "HERE", "REMOVED"}, by: Buyers \cup {Nobody},
              about: (Purchases \X Books) \cup {NoReview}, stars: Stars \cup {0}, visible: BOOLEAN]
EmptyReview == [state |-> "NONE", by |-> Nobody, about |-> NoReview, stars |-> 0, visible |-> FALSE]

AccountTypeOK ==
    /\ purchase \in [Purchases -> PurchaseRow]
    /\ shelved \in [Books -> {"DRAFT", "ACTIVE", "INACTIVE", "GONE"}]
    /\ review \in [ReviewIds -> ReviewRow]
    /\ wishes \subseteq Buyers \X Books
    /\ saving \subseteq Buyers \X Books
    /\ moderating \subseteq ReviewIds \X BOOLEAN
    /\ requests \in 0..MaxRequests

AccountInit ==
    /\ purchase = [o \in Purchases |-> NoPurchase]
    /\ shelved = [b \in Books |-> "ACTIVE"]
    /\ review = [r \in ReviewIds |-> EmptyReview]
    /\ wishes = {} /\ saving = {} /\ moderating = {}
    /\ requests = 0

OneMore == requests < MaxRequests /\ requests' = requests + 1

-----------------------------------------------------------------------------
(* Orders, as far as they matter here. *)

Purchase(o, u, B) ==
    /\ purchase[o].stage = "NONE"
    /\ B # {} /\ \A b \in B : shelved[b] = "ACTIVE"
    /\ purchase' = [purchase EXCEPT ![o] =
                       [by |-> u, stage |-> "OPEN", received |-> FALSE, lines |-> B]]
    /\ UNCHANGED <<shelved, review, wishes, saving, moderating, requests>>

\* The steps of the branch, from NEXT_STATUS and with the customer's word.
Advance(o, from, to) ==
    /\ purchase[o].stage = from
    /\ to = "COMPLETED" => purchase[o].received
    /\ purchase' = [purchase EXCEPT ![o].stage = to]
    /\ UNCHANGED <<shelved, review, wishes, saving, moderating, requests>>

\* confirmReceived, which changes nothing the second time.
Receive(o) ==
    /\ purchase[o].stage = "SHIPPING" /\ ~purchase[o].received
    /\ purchase' = [purchase EXCEPT ![o].received = TRUE]
    /\ UNCHANGED <<shelved, review, wishes, saving, moderating, requests>>

-----------------------------------------------------------------------------
(* Reviews. *)

Here == {r \in ReviewIds : review[r].state = "HERE"}

\* @@unique([userId, orderId, productId]).
Unwritten(u, o, b) == \A r \in Here : ~(review[r].by = u /\ review[r].about = <<o, b>>)

\* create: what the transaction asks of the order and the product.
MayReview(u, o, b) ==
    /\ purchase[o].by = u
    /\ purchase[o].stage = "COMPLETED"
    /\ b \in purchase[o].lines
    /\ shelved[b] # "GONE"
    /\ Unwritten(u, o, b)

CreateReview(r, u, o, b, n) ==
    /\ OneMore
    /\ review[r].state = "NONE"
    /\ MayReview(u, o, b)
    /\ review' = [review EXCEPT ![r] = [state |-> "HERE", by |-> u, about |-> <<o, b>>,
                                        stars |-> n, visible |-> TRUE]]
    /\ UNCHANGED <<purchase, shelved, wishes, saving, moderating>>

\* update: of one's own review; what a moderator decided stays.
UpdateReview(r, u, n) ==
    /\ OneMore
    /\ r \in Here /\ review[r].by = u
    /\ review' = [review EXCEPT ![r].stars = n]
    /\ UNCHANGED <<purchase, shelved, wishes, saving, moderating>>

RemoveReview(r, u) ==
    /\ OneMore
    /\ r \in Here /\ review[r].by = u
    /\ review' = [review EXCEPT ![r] = [EmptyReview EXCEPT !.state = "REMOVED"]]
    /\ UNCHANGED <<purchase, shelved, wishes, saving, moderating>>

\* setVisibility: it reads the review and answers, if nothing is to change.
ReadReview(r, visible) ==
    /\ OneMore
    /\ r \in Here /\ review[r].visible # visible
    /\ moderating' = moderating \cup {<<r, visible>>}
    /\ UNCHANGED <<purchase, shelved, review, wishes, saving>>

\* updateVisibility: by id; the request fails if the review is gone.
WriteVisibility(r, visible) ==
    /\ <<r, visible>> \in moderating
    /\ moderating' = moderating \ {<<r, visible>>}
    /\ review' = IF r \in Here THEN [review EXCEPT ![r].visible = visible] ELSE review
    /\ UNCHANGED <<purchase, shelved, wishes, saving, requests>>

-----------------------------------------------------------------------------
(* The wish list. *)

\* add: the product has to be visible.
CheckWish(u, b) ==
    /\ OneMore
    /\ shelved[b] = "ACTIVE"
    /\ saving' = saving \cup {<<u, b>>}
    /\ UNCHANGED <<purchase, shelved, review, wishes, moderating>>

\* upsert; the foreign key refuses a product that is gone.
SaveWish(u, b) ==
    /\ <<u, b>> \in saving
    /\ saving' = saving \ {<<u, b>>}
    /\ wishes' = IF shelved[b] = "GONE" THEN wishes ELSE wishes \cup {<<u, b>>}
    /\ UNCHANGED <<purchase, shelved, review, moderating, requests>>

RemoveWish(u, b) ==
    /\ OneMore
    /\ wishes' = wishes \ {<<u, b>>}
    /\ UNCHANGED <<purchase, shelved, review, saving, moderating>>

-----------------------------------------------------------------------------
(* Products. *)

Reshelve(b, s) ==
    /\ OneMore
    /\ shelved[b] \notin {"GONE", s}
    /\ shelved' = [shelved EXCEPT ![b] = s]
    /\ UNCHANGED <<purchase, review, wishes, saving, moderating>>

\* Mutant: only what the product itself is named in stands in the way.
Untouched(b) ==
    /\ \A r \in Here : review[r].about[2] # b
    /\ \A u \in Buyers : <<u, b>> \notin wishes

\* remove: the references that stand in the way.
Unreferenced(b) ==
    /\ \A r \in Here : review[r].about[2] # b
    /\ \A u \in Buyers : <<u, b>> \notin wishes
    /\ \A o \in Purchases : b \notin purchase[o].lines

RemoveBook(b) ==
    /\ OneMore
    /\ shelved[b] = "DRAFT"
    /\ Unreferenced(b)
    /\ shelved' = [shelved EXCEPT ![b] = "GONE"]
    /\ UNCHANGED <<purchase, review, wishes, saving, moderating>>

-----------------------------------------------------------------------------
(* What the pages of a customer say. *)

OrdersOf(u) == {o \in Purchases : purchase[o].by = u}

\* list: the tabs for what is on its way and for what has arrived.
ShippingTab(u) == {o \in OrdersOf(u) : purchase[o].stage = "SHIPPING" /\ ~purchase[o].received}
ReceivedTab(u) ==
    {o \in OrdersOf(u) : \/ purchase[o].stage = "SHIPPING" /\ purchase[o].received
                         \/ purchase[o].stage = "COMPLETED"}

\* listMine and countWritten.
Written(u) == {r \in Here : review[r].by = u}

\* listPending: order_items of completed orders without a review.
PendingReviews(u) ==
    {line \in Purchases \X Books :
        LET o == line[1]
            b == line[2] IN
        /\ purchase[o].by = u /\ purchase[o].stage = "COMPLETED"
        /\ b \in purchase[o].lines
        /\ Unwritten(u, o, b)}

\* reviewActions: what the row of an order offers.
ReviewAction(o) ==
    LET eligible == purchase[o].lines
        reviewed == {b \in eligible : ~Unwritten(purchase[o].by, o, b)}
        count == Cardinality(eligible) - Cardinality(reviewed)
    IN IF purchase[o].stage # "COMPLETED" THEN [type |-> "NONE", count |-> 0]
       ELSE IF count > 0 THEN [type |-> "WRITE", count |-> count]
       ELSE IF reviewed # {} THEN [type |-> "VIEW", count |-> Cardinality(reviewed)]
       ELSE [type |-> "NONE", count |-> 0]

\* The dashboard.
Dashboard(u) ==
    [orders   |-> Cardinality(OrdersOf(u)),
     shipping |-> Cardinality({o \in OrdersOf(u) : purchase[o].stage = "SHIPPING"
                                                   /\ ~purchase[o].received}),
     written  |-> Cardinality(Written(u)),
     pending  |-> Cardinality(PendingReviews(u))]

\* listPublic: the reviews of a product that everybody sees, and how many give
\* each number of stars.
VisibleReviews(b) == {r \in Here : review[r].about[2] = b /\ review[r].visible}
Distribution(b) == [n \in Stars |-> Cardinality({r \in VisibleReviews(b) : review[r].stars = n})]

\* The pages of a list together: where the shop sends a reader of one number of stars.
ListedUnder(b, n) == {r \in VisibleReviews(b) : review[r].stars = n}

-----------------------------------------------------------------------------
AccountNext ==
    \/ \E o \in Purchases :
           \/ \E u \in Buyers, B \in SUBSET Books : Purchase(o, u, B)
           \/ Advance(o, "OPEN", "SHIPPING") \/ Advance(o, "OPEN", "CANCELLED")
           \/ Advance(o, "SHIPPING", "COMPLETED") \/ Receive(o)
    \/ \E r \in ReviewIds, u \in Buyers :
           \/ \E o \in Purchases, b \in Books, n \in Stars : CreateReview(r, u, o, b, n)
           \/ \E n \in Stars : UpdateReview(r, u, n)
           \/ RemoveReview(r, u)
    \/ \E r \in ReviewIds, visible \in BOOLEAN :
           ReadReview(r, visible) \/ WriteVisibility(r, visible)
    \/ \E u \in Buyers, b \in Books : CheckWish(u, b) \/ SaveWish(u, b) \/ RemoveWish(u, b)
    \/ \E b \in Books :
           RemoveBook(b) \/ \E s \in {"DRAFT", "ACTIVE", "INACTIVE"} : Reshelve(b, s)

AccountSpec == AccountInit /\ [][AccountNext]_accountVars

-----------------------------------------------------------------------------
(* Properties. *)

\* A review is of something its author has received, once, and of a product
\* that can still be opened in the back office; so is every wish.
ReviewsBacked ==
    /\ \A r \in Here :
           LET o == review[r].about[1]
               b == review[r].about[2]
           IN /\ purchase[o].by = review[r].by /\ purchase[o].stage = "COMPLETED"
              /\ b \in purchase[o].lines
              /\ shelved[b] # "GONE"
    /\ \A r, s \in Here : r # s /\ review[r].by = review[s].by => review[r].about # review[s].about
    /\ \A wish \in wishes : shelved[wish[2]] # "GONE"

\* What a customer is asked to review can be reviewed, and the other way round;
\* the orders, the list and the dashboard count it alike; and what was bought
\* and arrived is either reviewed or still to be.
PendingAgrees ==
    \A u \in Buyers :
        /\ PendingReviews(u) =
               {line \in Purchases \X Books : MayReview(u, line[1], line[2])}
        /\ \A o \in OrdersOf(u) :
               LET here == Cardinality({p \in PendingReviews(u) : p[1] = o}) IN
               /\ ReviewAction(o).type = "WRITE" <=> here > 0
               /\ here > 0 => ReviewAction(o).count = here
               /\ ReviewAction(o).type = "VIEW" =>
                      ReviewAction(o).count =
                          Cardinality({r \in Written(u) : review[r].about[1] = o})
        /\ Dashboard(u).written + Dashboard(u).pending =
               Cardinality({line \in Purchases \X Books :
                               /\ line[1] \in OrdersOf(u)
                               /\ purchase[line[1]].stage = "COMPLETED"
                               /\ line[2] \in purchase[line[1]].lines})

\* An order that is on its way or has arrived is in one of the two tabs, and
\* the dashboard counts those that the first one shows.
TabsPartition ==
    \A u \in Buyers :
        /\ ShippingTab(u) \cap ReceivedTab(u) = {}
        /\ ShippingTab(u) \cup ReceivedTab(u) =
               {o \in OrdersOf(u) : purchase[o].stage \in {"SHIPPING", "COMPLETED"}}
        /\ Dashboard(u).shipping = Cardinality(ShippingTab(u))

\* Every visible review is listed under one number of stars, as often as the
\* distribution says.
StarsAddUp ==
    \A b \in Books :
        /\ UNION {ListedUnder(b, n) : n \in Stars} = VisibleReviews(b)
        /\ \A n \in Stars : Distribution(b)[n] = Cardinality(ListedUnder(b, n))

\* The pages of a customer agree with each other and with what the services
\* accept, whatever moderators, other requests and the catalog do in between.
AccountAgrees == ReviewsBacked /\ PendingAgrees /\ TabsPartition /\ StarsAddUp
=============================================================================
