-------------------------------- MODULE MCStore --------------------------------
(***************************************************************************)
(* One run for the parts of the shop that share no table with each other:  *)
(* `part` picks at the start whose operations a behavior shows, and the    *)
(* tables of the others stay as they are, so the run explores the union of *)
(* the parts and not their product.                                        *)
(***************************************************************************)
EXTENDS StockTransactions, ProductCatalog, CategoryTree, ImageStorage, ShippingFees,
        CheckoutFlow, Storefront, TLC

VARIABLE part

Parts == {"STOCK", "CATALOG", "CATEGORIES", "IMAGES", "SHIPPING", "CHECKOUT", "STOREFRONT"}

\* The tables that a step of one part leaves alone, by the parts around it.
catalogTables == <<catalogVars, categoryVars, imageVars>>
pageTables    == <<parcel, storefrontVars>>

\* The parts that start in more than one way do so only when they are shown; the
\* price that goods start with stands for any, since nothing else tells prices apart.
StoreInit ==
    /\ part \in Parts
    /\ TransactionInit /\ CatalogInit /\ CategoryInit /\ ImageInit
    /\ ParcelInit /\ CheckoutInit /\ StorefrontInit
    /\ \A g \in Goods : shop.price[g] = CHOOSE n \in Prices : TRUE
    /\ part # "CHECKOUT" => cart.shop = CHOOSE b \in Shops : TRUE

CatalogStep ==
    /\ part \in {"CATALOG", "CATEGORIES", "IMAGES"}
    /\ UNCHANGED <<transactionVars, checkoutVars, pageTables>>
    /\ \/ part = "CATALOG" /\ UNCHANGED <<categoryVars, imageVars>> /\ CatalogNext
       \/ part = "CATEGORIES" /\ UNCHANGED <<catalogVars, imageVars>> /\ CategoryNext
       \/ part = "IMAGES" /\ UNCHANGED <<catalogVars, categoryVars>> /\ ImageNext

PageStep ==
    /\ part \in {"SHIPPING", "STOREFRONT"}
    /\ UNCHANGED <<transactionVars, catalogTables, checkoutVars>>
    /\ \/ part = "SHIPPING" /\ UNCHANGED storefrontVars /\ ParcelNext
       \/ part = "STOREFRONT" /\ UNCHANGED parcel /\ StorefrontNext

StoreNext ==
    /\ part' = part
    /\ \/ /\ part = "STOCK" /\ UNCHANGED <<catalogTables, checkoutVars, pageTables>>
          /\ TransactionNext
       \/ /\ part = "CHECKOUT" /\ UNCHANGED <<transactionVars, catalogTables, pageTables>>
          /\ CheckoutNext
       \/ CatalogStep \/ PageStep

storeVars == <<part, transactionVars, catalogTables, checkoutVars, pageTables>>

StoreSpec == StoreInit /\ [][StoreNext]_storeVars

\* Every part keeps its types; the others keep the ones they start with.
StoreTypeOK ==
    /\ part = "STOCK" => TransactionTypeOK
    /\ part = "CATALOG" => CatalogTypeOK
    /\ part = "CATEGORIES" => CategoryTypeOK
    /\ part = "IMAGES" => ImageTypeOK
    /\ part = "SHIPPING" => ParcelTypeOK
    /\ part = "CHECKOUT" => CheckoutTypeOK
    /\ part = "STOREFRONT" => StorefrontTypeOK

-----------------------------------------------------------------------------
(* Properties of parts whose tables are read only when they are shown. *)

\* Whatever options, values, variants and pictures are renamed, switched off,
\* moved and removed, variants name values that are there, one combination each,
\* and every gallery stays in order with one first picture.
CatalogResolves == part = "CATALOG" => VariantsResolve /\ GalleriesInOrder

\* The queries behind the public pages agree on what is visible, what it costs,
\* in which order it comes and how much there is of it, as far as the parts of
\* StorefrontAgrees say.
ShopPagesAgree == part = "STOREFRONT" => StorefrontAgrees

-----------------------------------------------------------------------------
(* Values of the constants. *)

\* Three names of which two, put together, read like the third.
ShelfNames == {"a", "b", "a-b"}
ShelfSlugOf ==
    [p \in ShelfNames \cup {Root} |-> [n \in ShelfNames |-> IF p = Root THEN n ELSE p \o "-" \o n]]
ShelfSlugs == UNION {{ShelfSlugOf[p][n] : n \in ShelfNames} : p \in ShelfNames \cup {Root}}

\* Three books: the first two share a day and an author, and the database and the
\* alphabet put their names in opposite orders; two covers differ in a capital only.
Cover(text) == [code |-> "cover", value |-> text, folded |-> "hard", parts |-> {}]
Pages == [code |-> "pages", value |-> "300", folded |-> None, parts |-> {}]
Ages == [code |-> "ages", value |-> "[6,7]", folded |-> None, parts |-> {"6", "7"}]
BookFacts ==
    [t1 |-> [id |-> 1, collated |-> 1, alphabetic |-> 2, created |-> 2, released |-> 1,
             demo |-> 9, rating |-> 3, authors |-> {"a"}, publisher |-> "p",
             traits |-> {Cover("hard"), Ages}, spare |-> TRUE,
             shelves |-> {"novel"}, primary |-> "novel", match |-> 2, likeness |-> 5],
     t2 |-> [id |-> 2, collated |-> 2, alphabetic |-> 1, created |-> 2, released |-> None,
             demo |-> 9, rating |-> 4, authors |-> {"a", "b"}, publisher |-> None,
             traits |-> {Cover("Hard"), Pages}, spare |-> FALSE,
             shelves |-> {"fiction"}, primary |-> "fiction", match |-> 2, likeness |-> 5],
     t3 |-> [id |-> 3, collated |-> 3, alphabetic |-> 3, created |-> 1, released |-> 2,
             demo |-> 1, rating |-> 4, authors |-> {}, publisher |-> "p",
             traits |-> {Cover("hard")}, spare |-> FALSE,
             shelves |-> {"novel", "fiction"}, primary |-> "fiction", match |-> 4,
             likeness |-> 1]]
ShelfTree == [fiction |-> None, novel |-> "fiction"]

\* Ids of different parts share model values.
Symmetry ==
    Permutations(LineIds) \cup Permutations(OrderKeys) \cup Permutations(Clicks)
=============================================================================
