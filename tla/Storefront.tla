------------------------------ MODULE Storefront ------------------------------
(***************************************************************************)
(* What the public pages of the shop show of the catalog: lists with their *)
(* filters, orders, pages and facets, search, related products and the     *)
(* home page (StorefrontCatalogRepository, StorefrontCatalogService).      *)
(* Each of them decides again, in its own query, what is visible and what  *)
(* it costs at the moment; the catalog, the clock and the sales change in  *)
(* between.  Texts are compared by the rank that the search gives them,    *)
(* names by the two orders that the queries know: the collation of the     *)
(* database and the alphabet of the server.  An id is a ULID, which both   *)
(* put in the same order.  Stars, pictures and descriptions are data.      *)
(***************************************************************************)
EXTENDS Integers, FiniteSets, Sequences, SequencesExt

CONSTANTS
    Titles,          \* products
    Facts,           \* what does not change about each
    Shelves,         \* categories
    ShelfAbove,      \* the parent of each, or None
    None,            \* NULL, or a filter that is not asked for
    Originals,       \* prices that requests name
    Discounts,
    RelatedLimit,    \* STOREFRONT_RELATED_LIMIT: 3
    HomeLimit,       \* 5 best sellers and 5 newest on the home page
    UpcomingLimit,   \* and 3 of those not yet released
    Dates,           \* the instants that a sale starts and ends at
    LastInstant,     \* bound: the clock
    MaxEdits         \* bound: changes to the catalog and sales

\* What the tables guarantee: ids tell products apart, the main category of a
\* product that has any is one of them, and categories have two levels.  An
\* attribute has one type, and a value reads the same wherever it is written.
FactRow(f) ==
    /\ {f.id, f.collated, f.alphabetic, f.created, f.demo, f.rating, f.likeness} \subseteq Int
    /\ f.released \in Int \cup {None} /\ f.match \in Int \cup {None}
    /\ f.shelves \subseteq Shelves /\ (f.shelves # {} => f.primary \in f.shelves)
    /\ \A r \in f.traits : r.folded # None => r.parts = {}

ASSUME StorefrontParameters ==
    /\ IsFiniteSet(Titles)
    /\ \A t \in Titles : FactRow(Facts[t])
    /\ \A t, u \in Titles : Facts[t].id = Facts[u].id => t = u
    /\ \A t, u \in Titles : \A r \in Facts[t].traits, s \in Facts[u].traits :
           r.code = s.code =>
               ((r.folded = None) <=> (s.folded = None)) /\ (r.value = s.value => r = s)
    /\ \A c \in Shelves : ShelfAbove[c] # None =>
           ShelfAbove[c] \in Shelves /\ ShelfAbove[ShelfAbove[c]] = None
    /\ None \notin Shelves /\ None \notin Originals \cup Discounts \cup Dates
    /\ Originals # {} /\ Originals \cup Discounts \subseteq Nat /\ Dates \subseteq Int
    /\ {RelatedLimit, HomeLimit, UpcomingLimit, LastInstant, MaxEdits} \subseteq Nat

VARIABLES
    standing,        \* "ACTIVE", "OFF", or "BARE": active without an active default variant
    price,           \* the prices of each default variant
    openShelves,     \* categories that are active
    sold,            \* copies in completed orders
    clock,
    edits            \* how much has been changed

storefrontVars == <<standing, price, openShelves, sold, clock, edits>>

Standings == {"ACTIVE", "OFF", "BARE"}

\* The sale price, and from when until when it holds.
PriceRow == [original: Originals, sale: Discounts \cup {None},
             from: Dates \cup {None}, until: Dates \cup {None}]

\* assertPrice: a sale price does not exceed the original one, and its period
\* is given in full or not at all.
AcceptedPrice(row) ==
    /\ row.sale # None => row.sale <= row.original
    /\ row.sale = None => row.from = None /\ row.until = None
    /\ (row.from = None) <=> (row.until = None)
    /\ row.from # None => row.from < row.until

FullPrice(n) == [original |-> n, sale |-> None, from |-> None, until |-> None]

StorefrontTypeOK ==
    /\ standing \in [Titles -> Standings]
    /\ price \in [Titles -> {row \in PriceRow : AcceptedPrice(row)}]
    /\ openShelves \subseteq Shelves
    /\ sold \in [Titles -> 0..MaxEdits]
    /\ clock \in 0..LastInstant /\ edits \in 0..MaxEdits

StorefrontInit ==
    /\ standing = [t \in Titles |-> "ACTIVE"]
    /\ price = [t \in Titles |-> FullPrice(CHOOSE n \in Originals : TRUE)]
    /\ openShelves = Shelves
    /\ sold = [t \in Titles |-> 0]
    /\ clock = 0
    /\ edits = 0

-----------------------------------------------------------------------------
(* What is visible. *)

\* activeCategoryWhere.
OpenShelf(c) == c \in openShelves /\ (ShelfAbove[c] = None \/ ShelfAbove[c] \in openShelves)

\* publicProductVisibilityWhere.
Visible(t) == standing[t] = "ACTIVE" /\ \E c \in Facts[t].shelves : OpenShelf(c)
OnShow == {t \in Titles : Visible(t)}

\* listCategories: what a visitor can pick a category from.
Menu == {c \in Shelves : OpenShelf(c)}

\* The filter of a list by category, which takes the place of the one above.
InCategory(t, slug) ==
    \E c \in Facts[t].shelves :
        c \in openShelves /\ (c = slug \/ (ShelfAbove[c] = slug /\ slug \in openShelves))

-----------------------------------------------------------------------------
(* What it costs: four readings of the same row. *)

Running(row) ==
    /\ row.from = None \/ row.from <= clock
    /\ row.until = None \/ row.until > clock

\* StorefrontPriceService.resolve.
OnSale(row) == row.sale # None /\ row.sale < row.original /\ Running(row)
Shown(row) == IF OnSale(row) THEN row.sale ELSE row.original

\* listOrderedProductIds: effectivePrice.
SortedBy(row) == IF row.sale # None /\ Running(row) THEN row.sale ELSE row.original

\* listRelatedProductIds: effective_price, with the last instant of the sale.
ComparedBy(row) ==
    IF /\ row.sale # None
       /\ row.from = None \/ row.from <= clock
       /\ row.until = None \/ row.until >= clock
    THEN row.sale ELSE row.original

Within(n, lowest, highest) ==
    (lowest # None => n >= lowest) /\ (highest # None => n <= highest)

\* Mutant: a sale that ends now counts as over and as running.
AskedLoosely(row, lowest, highest) ==
    \/ row.sale # None /\ Within(row.sale, lowest, highest)
       /\ (row.from = None \/ row.from <= clock) /\ (row.until = None \/ row.until >= clock)
    \/ Within(row.original, lowest, highest)
       /\ (row.sale = None \/ (row.from # None /\ row.from > clock)
                           \/ (row.until # None /\ row.until <= clock))

\* priceWhere.
AskedPrice(row, lowest, highest) ==
    \/ row.sale # None /\ Within(row.sale, lowest, highest) /\ Running(row)
    \/ Within(row.original, lowest, highest)
       /\ (row.sale = None \/ (row.from # None /\ row.from > clock)
                           \/ (row.until # None /\ row.until <= clock))

-----------------------------------------------------------------------------
(* Lists. *)

Anything == [slug |-> None, authors |-> {}, publishers |-> {}, traits |-> {}, onSale |-> FALSE,
             lowest |-> None, highest |-> None, upcoming |-> FALSE]

IsUpcoming(t) == Facts[t].released # None /\ Facts[t].released > clock

\* A value of an attribute: as it is written, its letters without case when the
\* attribute is a text (None when not), and what a list of choices holds.  A filter
\* finds a text by its letters and a list by one of its choices, and numbers, dates
\* and yes-or-no values by nothing.
HasTrait(t, asked) ==
    \E r \in Facts[t].traits :
        /\ r.code = asked.code
        /\ (r.folded # None /\ r.folded = asked.folded) \/ asked.value \in r.parts

\* listWhere.
Matches(t, q) ==
    /\ standing[t] = "ACTIVE"
    /\ IF q.slug = None THEN Visible(t) ELSE InCategory(t, q.slug)
    /\ q.authors # {} => Facts[t].authors \cap q.authors # {}
    /\ q.publishers # {} => Facts[t].publisher \in q.publishers
    /\ \A asked \in q.traits : HasTrait(t, asked)
    /\ q.onSale => price[t].sale # None /\ Running(price[t])
    /\ (q.lowest # None \/ q.highest # None) => AskedPrice(price[t], q.lowest, q.highest)
    /\ q.upcoming => IsUpcoming(t)

Listed(q) == {t \in Titles : Matches(t, q)}

\* Keys are compared place by place; the smaller one comes first.
Before(k, l) ==
    \E i \in DOMAIN k : k[i] < l[i] /\ \A j \in 1..i - 1 : k[j] = l[j]

\* The members of a set in the order of their keys.
Ordered(S, key) ==
    CHOOSE s \in SetToSeqs(S) : \A i, j \in DOMAIN s : i < j => ~Before(key[s[j]], key[s[i]])

\* What a sequence has of a set, in the order of the sequence.
Kept(s, S) ==
    LET places == {i \in DOMAIN s : s[i] \in S}
        kept == Ordered(places, [i \in places |-> <<i>>])
    IN [k \in DOMAIN kept |-> s[kept[k]]]

Sorts == {"POPULAR", "NEWEST", "PRICE_ASC", "PRICE_DESC", "NAME_ASC", "RELEASE_ASC"}

\* A product without a release date comes last.
ReleaseRank(t) == IF Facts[t].released = None THEN LastInstant + 2 ELSE Facts[t].released

\* listOrderedProductIds: ORDER BY.
SortKey(sort, t) ==
    IF sort = "NEWEST" THEN <<-Facts[t].created, -Facts[t].id>>
    ELSE IF sort = "PRICE_ASC" THEN <<SortedBy(price[t]), Facts[t].id>>
    ELSE IF sort = "PRICE_DESC" THEN <<-SortedBy(price[t]), Facts[t].id>>
    ELSE IF sort = "RELEASE_ASC" THEN <<ReleaseRank(t), Facts[t].id>>
    ELSE IF sort = "NAME_ASC" THEN <<Facts[t].collated, Facts[t].id>>
    ELSE <<-sold[t], Facts[t].demo, Facts[t].collated, Facts[t].id>>

Sorted(S, sort) == Ordered(S, [t \in S |-> SortKey(sort, t)])

Slice(s, size, page) ==
    SubSeq(s, (page - 1) * size + 1, IF page * size < Len(s) THEN page * size ELSE Len(s))

\* list: the pages there are.
PageCount(total, size) == IF total = 0 THEN 1 ELSE (total + size - 1) \div size

\* listProductPage.
Page(q, sort, size, page) == Slice(Sorted(Listed(q), sort), size, page)

\* listFacets: the authors, publishers, categories and values of attributes of what
\* is listed, with how many.  A category counts whether or not it is open, and not
\* for the one above it; a value counts as it is written, whatever its type.
AuthorFacet(q, a) == Cardinality({t \in Listed(q) : a \in Facts[t].authors})
PublisherFacet(q, b) == Cardinality({t \in Listed(q) : Facts[t].publisher = b})
CategoryFacet(q, c) == Cardinality({t \in Listed(q) : c \in Facts[t].shelves})
TraitFacet(q, row) ==
    Cardinality({t \in Listed(q) :
                    \E r \in Facts[t].traits : r.code = row.code /\ r.value = row.value})

-----------------------------------------------------------------------------
(* Search. *)

\* searchProductMatches: whatever is found, best match first; the match of a
\* product with the text, and how alike they are, are facts.
Found == {t \in Titles : Facts[t].match # None}
SearchOrder ==
    Ordered(Found, [t \in Found |->
        <<Facts[t].match, -Facts[t].likeness, Facts[t].collated, Facts[t].id>>])

\* A page of results in the order of the search.
ResultPage(q, size, page) ==
    Slice(Kept(SearchOrder, Listed(q)), size, page)

\* The best sellers of the search: five, sold at least once.
BestSellers ==
    LET some == {t \in Titles : sold[t] > 0} IN
    {t \in some : Cardinality({u \in some : Before(<<-sold[u], Facts[u].id>>,
                                                   <<-sold[t], Facts[t].id>>)}) < HomeLimit}

\* searchSuggestions: only the first can be the best match, and that is not
\* called a best seller.
Suggestions(limit) ==
    LET seen == Kept(SearchOrder, OnShow)
        first == Slice(seen, limit, 1)
        best(i) == i = 1 /\ Facts[first[i]].match <= 2
    IN [i \in DOMAIN first |->
           [title |-> first[i], best |-> best(i),
            seller |-> ~best(i) /\ first[i] \in BestSellers]]

-----------------------------------------------------------------------------
(* Related products. *)

\* candidate_pool, which joins the default variant and asks for the rest of
\* visibility in its own words.
Pool(t) ==
    {u \in Titles \ {t} :
        /\ standing[u] = "ACTIVE"
        /\ \E c \in Facts[u].shelves :
               c \in openShelves /\ (ShelfAbove[c] = None \/ ShelfAbove[c] \in openShelves)}

Share(condition, score) == IF condition THEN score ELSE 0

\* candidate_scores.
Score(t, u) ==
    LET mine == {c \in Facts[t].shelves : OpenShelf(c)} IN
    Share(\E c \in Facts[u].shelves : OpenShelf(c) /\ c \in mine, 5)
      + Share(Facts[t].authors \cap Facts[u].authors # {}, 4)
      + Share(\E c \in Facts[u].shelves \cap openShelves, d \in mine :
                  ShelfAbove[d] # None /\ ShelfAbove[c] = ShelfAbove[d], 3)
      + Share(Facts[t].publisher # None /\ Facts[u].publisher = Facts[t].publisher, 2)
      + Share(/\ ComparedBy(price[t]) > 0
              /\ 4 * ComparedBy(price[u]) >= 3 * ComparedBy(price[t])
              /\ 4 * ComparedBy(price[u]) <= 5 * ComparedBy(price[t]), 1)

Remaining(n) == IF n < 0 THEN 0 ELSE n

\* newest_ranked: what the first two tiers have not taken.
NewestOf(pool, taken) == pool \ taken

\* listRelatedProductIds: by similarity, then best sellers, then the newest.
RelatedIds(t, limit) ==
    LET pool == Pool(t)
        fame(u) == <<-sold[u], -Facts[u].rating, -Facts[u].created, Facts[u].id>>
        alike == {u \in pool : Score(t, u) > 0}
        similar == Slice(Ordered(alike, [u \in alike |-> <<-Score(t, u)>> \o fame(u)]), limit, 1)
        popular == {u \in pool : sold[u] > 0} \ ToSet(similar)
        sellers == Slice(Ordered(popular, [u \in popular |-> fame(u)]),
                         Remaining(limit - Len(similar)), 1)
        rest == NewestOf(pool, ToSet(similar \o sellers))
        newest == Slice(Ordered(rest, [u \in rest |->
                            <<-Facts[u].created, -sold[u], -Facts[u].rating, Facts[u].id>>]),
                        Remaining(limit - Len(similar) - Len(sellers)), 1)
    IN Slice(similar \o sellers \o newest, limit, 1)

\* relatedProducts, of a visible product: the records of the ids that are visible.
Related(t, asked) ==
    LET limit == IF asked > RelatedLimit THEN RelatedLimit ELSE asked IN
    Kept(RelatedIds(t, limit), OnShow)

-----------------------------------------------------------------------------
(* Pages of one product, and lists of known ones. *)

\* productSummaries: what is visible of a list of ids, in the order of the list.
Summaries(ids) == Kept(ids, OnShow)

\* detail, of a visible product: its categories with their parents, and the one
\* that leads to it.
PageShelves(t) ==
    LET mine == {c \in Facts[t].shelves : OpenShelf(c)} IN
    mine \cup {ShelfAbove[c] : c \in {d \in mine : ShelfAbove[d] # None}}
Trail(t) ==
    LET c == Facts[t].primary IN
    IF ~OpenShelf(c) THEN <<>> ELSE IF ShelfAbove[c] = None THEN <<c>> ELSE <<ShelfAbove[c], c>>
Detail(t) == [shelves |-> PageShelves(t), trail |-> Trail(t), price |-> Shown(price[t])]

\* isProductAvailable: how a wish list marks a product; any active variant will do.
MarkedAvailable(t) == standing[t] = "ACTIVE" \/ (standing[t] = "BARE" /\ Facts[t].spare)

-----------------------------------------------------------------------------
(* The home page. *)

\* sortPopular: sales count once there are any, and names go by the alphabet.
HomeKey(t) ==
    LET hasSales == \E u \in Titles : sold[u] > 0 IN
    <<IF hasSales THEN -sold[t] ELSE 0, Facts[t].demo, Facts[t].alphabetic, Facts[t].id>>

\* home.
HomeSellers ==
    LET S == Listed(Anything) IN Slice(Ordered(S, [t \in S |-> HomeKey(t)]), HomeLimit, 1)
HomeNewest ==
    LET S == Listed(Anything)
    IN Slice(Ordered(S, [t \in S |-> <<-Facts[t].created, -Facts[t].id>>]), HomeLimit, 1)
HomeUpcoming ==
    LET S == {t \in Listed(Anything) : IsUpcoming(t)}
    IN Slice(Ordered(S, [t \in S |-> <<Facts[t].released, Facts[t].id>>]), UpcomingLimit, 1)

-----------------------------------------------------------------------------
(* What changes meanwhile. *)

Edit == edits < MaxEdits /\ edits' = edits + 1

\* updateStatus and the variants of a product (ProductCatalog).
SetStanding(t, s) ==
    /\ Edit
    /\ standing[t] # s /\ (s = "BARE" => standing[t] = "ACTIVE")
    /\ standing' = [standing EXCEPT ![t] = s]
    /\ UNCHANGED <<price, openShelves, sold, clock>>

\* updateVariant.
Reprice(t, row) ==
    /\ Edit
    /\ AcceptedPrice(row)
    /\ price' = [price EXCEPT ![t] = row]
    /\ UNCHANGED <<standing, openShelves, sold, clock>>

\* update of a category: isActive.
ToggleShelf(c) ==
    /\ Edit
    /\ openShelves' = IF c \in openShelves THEN openShelves \ {c} ELSE openShelves \cup {c}
    /\ UNCHANGED <<standing, price, sold, clock>>

\* An order with the product is completed (OrderPayments).
Sell(t) ==
    /\ Edit
    /\ sold' = [sold EXCEPT ![t] = @ + 1]
    /\ UNCHANGED <<standing, price, openShelves, clock>>

PassTime ==
    /\ clock < LastInstant
    /\ clock' = clock + 1
    /\ UNCHANGED <<standing, price, openShelves, sold, edits>>

StorefrontNext ==
    \/ \E t \in Titles :
           \/ \E s \in Standings : SetStanding(t, s)
           \/ \E row \in PriceRow : Reprice(t, row)
           \/ Sell(t)
    \/ \E c \in Shelves : ToggleShelf(c)
    \/ PassTime

StorefrontSpec == StorefrontInit /\ [][StorefrontNext]_storefrontVars

-----------------------------------------------------------------------------
(* Properties. *)

Bounds == Originals \cup Discounts \cup {None}

\* The price that a visitor sees is the one that the price filter and the price
\* orders go by, at every instant of a sale; related products are compared by it
\* too, but for the instant that a sale ends at; what is shown as reduced is found
\* by the filter for offers.
PricesAgree ==
    \A t \in Titles :
        /\ SortedBy(price[t]) = Shown(price[t])
        /\ price[t].until # clock => ComparedBy(price[t]) = Shown(price[t])
        /\ \A lowest, highest \in Bounds :
               AskedPrice(price[t], lowest, highest) <=> Within(Shown(price[t]), lowest, highest)
        /\ Visible(t) /\ OnSale(price[t]) => t \in Listed([Anything EXCEPT !.onSale = TRUE])

\* Wherever a product is shown it can be opened, with the one exception that a
\* list by the slug of a closed category's subcategory makes (listWhere); its
\* page links to categories that the menu has and that list it, and no wish
\* list calls it unavailable.
ShownIsVisible ==
    /\ \A c \in Menu : \A t \in Listed([Anything EXCEPT !.slug = c]) : Visible(t)
    /\ \A s \in {HomeSellers, HomeNewest, HomeUpcoming, Kept(SearchOrder, OnShow)} :
           \A i \in DOMAIN s : s[i] \in Listed(Anything)
    /\ \A t \in Titles :
           Visible(t) =>
               /\ Detail(t).shelves \subseteq Menu
               /\ ToSet(Detail(t).trail) \subseteq Detail(t).shelves
               /\ \A c \in Detail(t).shelves : t \in Listed([Anything EXCEPT !.slug = c])
               /\ MarkedAvailable(t)

\* Each product has a place of its own in every order, so that the pages of a
\* list together show what it found once.
PagesPartition ==
    \A sort \in Sorts, size \in 1..2 :
        LET S == Listed(Anything) IN
        /\ \A t, u \in S : t # u => SortKey(sort, t) # SortKey(sort, u)
        /\ \A t \in S :
               Cardinality({n \in 1..PageCount(Cardinality(S), size) :
                               t \in ToSet(Page(Anything, sort, size, n))}) = 1

\* As many related products as were asked for, if that many can be seen at all.
RelatedComplete ==
    \A t \in Titles, asked \in 1..RelatedLimit :
        Visible(t) =>
            LET s == Related(t, asked)
                others == Cardinality({u \in Titles \ {t} : Visible(u)})
            IN /\ Len(s) = IF asked < others THEN asked ELSE others
               /\ Cardinality(ToSet(s)) = Len(s) /\ t \notin ToSet(s)

\* What a visitor has asked for before choosing a facet.
Asking(slug, onSale, upcoming) ==
    [Anything EXCEPT !.slug = slug, !.onSale = onSale, !.upcoming = upcoming]
Bases == {Asking(None, FALSE, FALSE), Asking(None, TRUE, FALSE), Asking(None, FALSE, TRUE)}

Traits == UNION {Facts[t].traits : t \in Titles}
Spellings(row) ==
    {r \in Traits : r.code = row.code /\ r.folded = row.folded}

\* A facet of an author or a publisher says how many products choosing it lists,
\* whatever else is asked for.  One of a category in the menu or of a text never
\* says more, and says less only for a category with others below it and for a
\* text that is also written with other capitals.  Nothing is said of categories that
\* are not in the menu and of values that are no texts: the code counts them as
\* well, and its filter finds no number, date or truth value.
FacetsCount ==
    /\ \A q \in Bases \cup {Asking(c, FALSE, FALSE) : c \in Menu} :
           /\ \A a \in UNION {Facts[t].authors : t \in Titles} :
                  AuthorFacet(q, a) = Cardinality(Listed([q EXCEPT !.authors = {a}]))
           /\ \A b \in {Facts[t].publisher : t \in Titles} \ {None} :
                  PublisherFacet(q, b) = Cardinality(Listed([q EXCEPT !.publishers = {b}]))
           /\ \A row \in {r \in Traits : r.folded # None} :
                  LET chosen == Cardinality(Listed([q EXCEPT !.traits = {row}])) IN
                  /\ TraitFacet(q, row) <= chosen
                  /\ Spellings(row) = {row} => TraitFacet(q, row) = chosen
    /\ \A q \in Bases, c \in Menu :
           LET chosen == Cardinality(Listed([q EXCEPT !.slug = c])) IN
           /\ CategoryFacet(q, c) <= chosen
           /\ (\A d \in Shelves : ShelfAbove[d] # c) => CategoryFacet(q, c) = chosen

\* The suggestions below the search field are the head of the page of results,
\* and not more are called best sellers than there are places for.
SuggestionsAgree ==
    \A limit \in 1..2 :
        LET s == Suggestions(limit) IN
        /\ [i \in DOMAIN s |-> s[i].title] = ResultPage(Anything, limit, 1)
        /\ Cardinality({i \in DOMAIN s : s[i].seller}) <= HomeLimit
        /\ Cardinality({i \in DOMAIN s : s[i].best}) <= 1

\* The home page and the lists have one order.  Among best sellers that sold
\* as well and are as prominent, names decide, and the two alphabets may put another
\* product in a place: one that is as good.
HomeAgrees ==
    /\ LET home == HomeSellers
           list == Page(Anything, "POPULAR", HomeLimit, 1)
       IN /\ Len(home) = Len(list)
          /\ \A i \in DOMAIN home :
                 /\ sold[home[i]] = sold[list[i]]
                 /\ Facts[home[i]].demo = Facts[list[i]].demo
    /\ HomeNewest = Page(Anything, "NEWEST", HomeLimit, 1)
    /\ HomeUpcoming = Page([Anything EXCEPT !.upcoming = TRUE], "RELEASE_ASC", UpcomingLimit, 1)

\* The queries that the public pages are made of agree on what is visible, what
\* it costs, in which order it comes and how much there is of it, as far as each
\* part says, whatever is edited, sold or over by the next of them.
StorefrontAgrees ==
    /\ PricesAgree /\ ShownIsVisible /\ PagesPartition
    /\ RelatedComplete /\ FacetsCount /\ SuggestionsAgree /\ HomeAgrees
=============================================================================
