---------------------------- MODULE ProductCatalog ----------------------------
(***************************************************************************)
(* One product of the catalog with what belongs to it: its options and     *)
(* their values, its variants, and its image galleries (ProductsRepository *)
(* and ProductMediaRepository).  Every write is one serializable           *)
(* transaction, one action here.  Names, prices and attributes are left    *)
(* out, since the checks on them are the request's own; the codes that a   *)
(* combination of values is known by are not.                              *)
(***************************************************************************)
EXTENDS Naturals, FiniteSets

CONSTANTS
    OptionIds,
    ValueIds,
    ValueCodes,      \* codes of options, and the technical values of their values
    VariantIds,
    MediaIds,
    General,         \* the gallery of the product itself, not of a variant
    GeneralLimit,    \* PRODUCT_GENERAL_MEDIA_LIMIT: 12
    VariantLimit     \* PRODUCT_VARIANT_MEDIA_LIMIT: 8

ASSUME CatalogParameters ==
    /\ General \notin VariantIds
    /\ IsFiniteSet(MediaIds)
    /\ GeneralLimit \in Nat /\ VariantLimit \in Nat

VARIABLES
    status,        \* products.status
    categorized,   \* the product has a category
    optionCode,    \* the options, each with its code
    values,        \* the values of each option, with theirs
    variant,       \* product_variants with their option values
    media,         \* product_media
    referenced     \* variants with stock, or in a cart, an order or a receipt

catalogVars == <<status, categorized, optionCode, values, variant, media, referenced>>

ProductStatuses == {"NONE", "DRAFT", "ACTIVE", "INACTIVE", "DISCONTINUED"}
Galleries == VariantIds \cup {General}

NoVariant == [present |-> FALSE, active |-> FALSE, default |-> FALSE, links |-> {}, key |-> {}]
NoMedia == [present |-> FALSE, gallery |-> General, order |-> 0, primary |-> FALSE]

Options == DOMAIN optionCode
HasCodes(f) == DOMAIN f \subseteq ValueIds /\ f \in [DOMAIN f -> ValueCodes]

CatalogTypeOK ==
    /\ status \in ProductStatuses
    /\ categorized \in BOOLEAN
    /\ Options \subseteq OptionIds /\ optionCode \in [Options -> ValueCodes]
    /\ DOMAIN values = Options
    /\ \A o \in Options : HasCodes(values[o])
    /\ variant \in [VariantIds -> [present: BOOLEAN, active: BOOLEAN, default: BOOLEAN,
                                   links: SUBSET (OptionIds \X ValueIds),
                                   key: SUBSET (ValueCodes \X ValueCodes)]]
    /\ media \in [MediaIds -> [present: BOOLEAN, gallery: Galleries,
                               order: 0..Cardinality(MediaIds), primary: BOOLEAN]]
    /\ referenced \in SUBSET VariantIds

NoEntries == [o \in {} |-> {}]

CatalogInit ==
    /\ status = "NONE"
    /\ categorized = FALSE
    /\ optionCode = NoEntries
    /\ values = NoEntries
    /\ variant = [v \in VariantIds |-> NoVariant]
    /\ media = [m \in MediaIds |-> NoMedia]
    /\ referenced = {}

-----------------------------------------------------------------------------
Exists == status # "NONE"
Present == {v \in VariantIds : variant[v].present}
ActiveVariants == {v \in Present : variant[v].active}

\* Mutant: only active variants are asked.
LinkedWhileActive(o) == \E v \in ActiveVariants, w \in ValueIds : <<o, w>> \in variant[v].links

\* countLinkedVariants of an option.
Linked(o) == \E v \in Present, w \in ValueIds : <<o, w>> \in variant[v].links

\* prepareVariant: one value of each option of the product.
Complete(links) ==
    /\ \A o \in Options : Cardinality({w \in ValueIds : <<o, w>> \in links}) = 1
    /\ \A link \in links : link[1] \in Options /\ link[2] \in DOMAIN values[link[1]]

\* prepareVariant for a product without options: the one default variant.
Simple(others, links, default, active) ==
    links = {} /\ others = {} /\ default /\ active

\* combinationKey: the codes of the options with those of the values.
Combination(links) == {<<optionCode[link[1]], values[link[1]][link[2]]>> : link \in links}

\* The stored keys are unique in the product.
KeyFree(others, links) == \A v \in others : variant[v].key # Combination(links)

Prepared(others, links, default, active) ==
    /\ Exists
    /\ IF Options = {} THEN Simple(others, links, default, active) ELSE Complete(links)
    /\ KeyFree(others, links)

\* updateMany isDefault: false, for the other variants of the product.
Undefaulted == [v \in VariantIds |-> [variant[v] EXCEPT !.default = FALSE]]

Stored(links, default, active) ==
    [present |-> TRUE, active |-> active, default |-> default, links |-> links,
     key |-> Combination(links)]

\* persistVariant.
Persist(v, links, default, active) ==
    variant' = [IF default THEN Undefaulted ELSE variant
                   EXCEPT ![v] = Stored(links, default, active)]

-----------------------------------------------------------------------------
(* The product. *)

CreateProduct(withCategory) ==
    /\ status = "NONE"
    /\ status' = "DRAFT"
    /\ categorized' = withCategory
    /\ UNCHANGED <<optionCode, values, variant, media, referenced>>

\* update: the categories are replaced when the request names them.
UpdateProduct(withCategory) ==
    /\ Exists
    /\ categorized' = withCategory
    /\ UNCHANGED <<status, optionCode, values, variant, media, referenced>>

GalleryOf(g) == {m \in MediaIds : media[m].present /\ media[m].gallery = g}
PrimaryOf(g) == {m \in GalleryOf(g) : media[m].primary}

\* updateStatus: what a product must have to become ACTIVE.
MayActivateProduct ==
    /\ Cardinality({v \in ActiveVariants : variant[v].default}) = 1
    /\ categorized
    /\ \A v \in ActiveVariants :
           IF Options = {} THEN variant[v].links = {}
           ELSE Cardinality(variant[v].links) = Cardinality(Options)
    /\ Cardinality(PrimaryOf(General)) = 1
    /\ \A g \in VariantIds : GalleryOf(g) # {} => Cardinality(PrimaryOf(g)) = 1

UpdateStatus(s) ==
    /\ Exists
    /\ s = "ACTIVE" => MayActivateProduct
    /\ status' = s
    /\ UNCHANGED <<categorized, optionCode, values, variant, media, referenced>>

\* remove: a draft that nothing refers to; what belongs to it goes with it.
RemoveProduct ==
    /\ status = "DRAFT" /\ referenced = {}
    /\ status' = "NONE"
    /\ categorized' = FALSE
    /\ optionCode' = NoEntries
    /\ values' = NoEntries
    /\ variant' = [v \in VariantIds |-> NoVariant]
    /\ media' = [m \in MediaIds |-> NoMedia]
    /\ UNCHANGED referenced

-----------------------------------------------------------------------------
(* Options. *)

\* Codes are unique: of the options of a product, of the values of an option.
CodeUnused(codes, id, c) == \A other \in DOMAIN codes \ {id} : codes[other] # c
Coded(codes, id, c) == [other \in DOMAIN codes \cup {id} |-> IF other = id THEN c ELSE codes[other]]
Uncoded(codes, id) == [other \in DOMAIN codes \ {id} |-> codes[other]]

\* createOption: not beside the variant of a product without options.
CreateOption(o, c) ==
    /\ Exists /\ o \notin Options
    /\ \A v \in Present : variant[v].key # {}
    /\ CodeUnused(optionCode, o, c)
    /\ optionCode' = Coded(optionCode, o, c)
    /\ values' = [p \in Options \cup {o} |-> IF p = o THEN NoEntries ELSE values[p]]
    /\ UNCHANGED <<status, categorized, variant, media, referenced>>

\* updateOption: the code stays once a variant is linked.
RenameOption(o, c) ==
    /\ o \in Options
    /\ c = optionCode[o] \/ ~Linked(o)
    /\ CodeUnused(optionCode, o, c)
    /\ optionCode' = Coded(optionCode, o, c)
    /\ UNCHANGED <<status, categorized, values, variant, media, referenced>>

RemoveOption(o) ==
    /\ o \in Options /\ ~Linked(o)
    /\ optionCode' = Uncoded(optionCode, o)
    /\ values' = [p \in Options \ {o} |-> values[p]]
    /\ UNCHANGED <<status, categorized, variant, media, referenced>>

CreateOptionValue(o, w, c) ==
    /\ o \in Options
    /\ \A p \in Options : w \notin DOMAIN values[p]
    /\ CodeUnused(values[o], w, c)
    /\ values' = [values EXCEPT ![o] = Coded(@, w, c)]
    /\ UNCHANGED <<status, categorized, optionCode, variant, media, referenced>>

ValueLinked(o, w) == \E v \in Present : <<o, w>> \in variant[v].links

\* updateOptionValue: so does the value of a value.
RenameOptionValue(o, w, c) ==
    /\ o \in Options /\ w \in DOMAIN values[o]
    /\ c = values[o][w] \/ ~ValueLinked(o, w)
    /\ CodeUnused(values[o], w, c)
    /\ values' = [values EXCEPT ![o] = Coded(@, w, c)]
    /\ UNCHANGED <<status, categorized, optionCode, variant, media, referenced>>

RemoveOptionValue(o, w) ==
    /\ o \in Options /\ w \in DOMAIN values[o]
    /\ ~ValueLinked(o, w)
    /\ values' = [values EXCEPT ![o] = Uncoded(@, w)]
    /\ UNCHANGED <<status, categorized, optionCode, variant, media, referenced>>

-----------------------------------------------------------------------------
(* Variants. *)

CreateVariant(v, links, default, active) ==
    /\ v \notin Present
    /\ Prepared(Present, links, default, active)
    /\ Persist(v, links, Options = {} \/ default, active)
    /\ UNCHANGED <<status, categorized, optionCode, values, media, referenced>>

\* bulkCreateVariants, of two: each is prepared against what is stored, then
\* both are persisted; one of the batch is the default if nothing active is.
BulkCreate(v, w, linksV, linksW, defaultV, defaultW) ==
    /\ v # w /\ {v, w} \cap Present = {}
    /\ linksV # linksW
    /\ Prepared(Present, linksV, defaultV, TRUE) /\ Prepared(Present, linksW, defaultW, TRUE)
    /\ ~(defaultV /\ defaultW)
    /\ (\A u \in ActiveVariants : ~variant[u].default) => defaultV \/ defaultW
    /\ variant' = [IF defaultV \/ defaultW THEN Undefaulted ELSE variant
                      EXCEPT ![v] = Stored(linksV, defaultV, TRUE),
                             ![w] = Stored(linksW, defaultW, TRUE)]
    /\ UNCHANGED <<status, categorized, optionCode, values, media, referenced>>

\* updateVariant: the current default cannot be turned off.
UpdateVariant(v, links, default, active) ==
    /\ v \in Present
    /\ ~(variant[v].default /\ ~active)
    /\ Prepared(Present \ {v}, links, default, active)
    /\ Persist(v, links, Options = {} \/ default, active)
    /\ UNCHANGED <<status, categorized, optionCode, values, media, referenced>>

SetDefaultVariant(v) ==
    /\ v \in ActiveVariants
    /\ variant' = [Undefaulted EXCEPT ![v] = [variant[v] EXCEPT !.default = TRUE]]
    /\ UNCHANGED <<status, categorized, optionCode, values, media, referenced>>

\* removeVariant, with the gallery of the variant.
RemoveVariant(v) ==
    /\ v \in Present /\ ~variant[v].default /\ v \notin referenced
    /\ variant' = [variant EXCEPT ![v] = NoVariant]
    /\ media' = [m \in MediaIds |-> IF m \in GalleryOf(v) THEN NoMedia ELSE media[m]]
    /\ UNCHANGED <<status, categorized, optionCode, values, referenced>>

\* A variant is put in stock, a cart, an order or a receipt.
Refer(v) ==
    /\ v \in ActiveVariants /\ status = "ACTIVE" /\ v \notin referenced
    /\ referenced' = referenced \cup {v}
    /\ UNCHANGED <<status, categorized, optionCode, values, variant, media>>

-----------------------------------------------------------------------------
(* Galleries. *)

GalleryExists(g) == Exists /\ (g = General \/ g \in Present)
GalleryMaximum(g) == IF g = General THEN GeneralLimit ELSE VariantLimit

\* The rows of a gallery lose the primary mark.
Unmarked(g) ==
    [m \in MediaIds |-> IF m \in GalleryOf(g) THEN [media[m] EXCEPT !.primary = FALSE]
                        ELSE media[m]]

CreateMedia(m, g, primary) ==
    /\ ~media[m].present
    /\ GalleryExists(g)
    /\ Cardinality(GalleryOf(g)) < GalleryMaximum(g)
    /\ LET first == GalleryOf(g) = {} IN
       media' = [IF primary /\ ~first THEN Unmarked(g) ELSE media
                    EXCEPT ![m] = [present |-> TRUE, gallery |-> g,
                                   order |-> Cardinality(GalleryOf(g)),
                                   primary |-> first \/ primary]]
    /\ UNCHANGED <<status, categorized, optionCode, values, variant, referenced>>

SetPrimaryMedia(m) ==
    /\ media[m].present /\ ~media[m].primary
    /\ media' = [Unmarked(media[m].gallery) EXCEPT ![m] = [media[m] EXCEPT !.primary = TRUE]]
    /\ UNCHANGED <<status, categorized, optionCode, values, variant, referenced>>

\* reorder: a list of all the rows of the gallery, as a position for each.
ReorderMedia(g, position) ==
    /\ GalleryExists(g)
    /\ media' = [m \in MediaIds |->
                    IF m \in DOMAIN position THEN [media[m] EXCEPT !.order = position[m]]
                    ELSE media[m]]
    /\ UNCHANGED <<status, categorized, optionCode, values, variant, referenced>>

Orderings(S) ==
    {p \in [S -> 0..Cardinality(S) - 1] : \A m, n \in S : p[m] = p[n] => m = n}

\* Mutant: the rest keeps its numbers.
PlaceAsBefore(m, n) == media[n].order

\* The place of a row once m is gone: the rest is numbered again in its order.
PlaceWithout(m, n) ==
    Cardinality({k \in GalleryOf(media[m].gallery) \ {m} : media[k].order < media[n].order})

DeleteMedia(m) ==
    LET g == media[m].gallery
        rest == GalleryOf(g) \ {m}
    IN /\ media[m].present
       /\ ~(g = General /\ rest = {} /\ status = "ACTIVE")
       /\ media' = [n \in MediaIds |->
              IF n = m THEN NoMedia
              ELSE IF n \in rest
                   THEN [media[n] EXCEPT !.order = PlaceWithout(m, n),
                             !.primary = @ \/ (media[m].primary /\ PlaceWithout(m, n) = 0)]
              ELSE media[n]]
       /\ UNCHANGED <<status, categorized, optionCode, values, variant, referenced>>

-----------------------------------------------------------------------------
ProductStep ==
    \/ \E b \in BOOLEAN : CreateProduct(b) \/ UpdateProduct(b)
    \/ \E s \in ProductStatuses \ {"NONE"} : UpdateStatus(s)
    \/ RemoveProduct

OptionStep ==
    \E o \in OptionIds :
        \/ RemoveOption(o)
        \/ \E c \in ValueCodes : CreateOption(o, c) \/ RenameOption(o, c)
        \/ \E w \in ValueIds, c \in ValueCodes :
               CreateOptionValue(o, w, c) \/ RenameOptionValue(o, w, c)
        \/ \E w \in ValueIds : RemoveOptionValue(o, w)

\* The links that a request can name: a value for each option.
Links == {{<<o, f[o]>> : o \in Options} : f \in [Options -> ValueIds]}

VariantStep ==
    \/ \E v \in VariantIds, links \in Links, default, active \in BOOLEAN :
           CreateVariant(v, links, default, active) \/ UpdateVariant(v, links, default, active)
    \/ \E v, w \in VariantIds, linksV, linksW \in Links, dv, dw \in BOOLEAN :
           BulkCreate(v, w, linksV, linksW, dv, dw)
    \/ \E v \in VariantIds : SetDefaultVariant(v) \/ RemoveVariant(v) \/ Refer(v)

MediaStep ==
    \/ \E m \in MediaIds, g \in Galleries, primary \in BOOLEAN : CreateMedia(m, g, primary)
    \/ \E m \in MediaIds : SetPrimaryMedia(m) \/ DeleteMedia(m)
    \/ \E g \in Galleries : \E position \in Orderings(GalleryOf(g)) : ReorderMedia(g, position)

CatalogNext == ProductStep \/ OptionStep \/ VariantStep \/ MediaStep

CatalogSpec == CatalogInit /\ [][CatalogNext]_catalogVars

-----------------------------------------------------------------------------
(* Properties. *)

\* A variant keeps the values it was made of, and is stored under the key that
\* their codes give now, whatever is removed from the options or renamed meanwhile;
\* no two variants are the same combination, and one at most is the default,
\* before the two unique indexes have to say so.
VariantsResolve ==
    /\ \A v \in Present :
           /\ \A link \in variant[v].links :
                  link[1] \in Options /\ link[2] \in DOMAIN values[link[1]]
           /\ variant[v].key = Combination(variant[v].links)
    /\ \A v, w \in Present : v # w =>
           /\ variant[v].links # variant[w].links
           /\ ~(variant[v].default /\ variant[w].default)

\* The rows of a gallery are numbered from 0 without a gap, and one of them is
\* the primary one, through additions, deletions and every new order; a product
\* on sale has an image.
GalleriesInOrder ==
    /\ \A g \in Galleries :
           /\ {media[m].order : m \in GalleryOf(g)} = 0..Cardinality(GalleryOf(g)) - 1
           /\ GalleryOf(g) # {} => Cardinality(PrimaryOf(g)) = 1
    /\ status = "ACTIVE" => GalleryOf(General) # {}

\* "A product must have exactly one active default variant": the message of
\* PRODUCT_DEFAULT_VARIANT_REQUIRED, asked of a product on sale.
OneActiveDefault ==
    status = "ACTIVE" =>
        Cardinality({v \in ActiveVariants : variant[v].default}) = 1
=============================================================================
