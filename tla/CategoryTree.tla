----------------------------- MODULE CategoryTree -----------------------------
(***************************************************************************)
(* The categories of the shop, two levels deep, and the slugs they are     *)
(* reached by: a slug is built from a category's name and its parent's     *)
(* (CategoriesRepository).  Every write is one serializable transaction,   *)
(* one action here.  Descriptions, the order of siblings and is_active are *)
(* left out: nothing is decided by them.                                   *)
(***************************************************************************)
EXTENDS FiniteSets

CONSTANTS
    Categories,
    Names,          \* names that differ once they are normalized
    Types,          \* CategoryType
    Root,           \* "no parent", and the name of it
    Slugs,
    SlugOf          \* buildCategorySlug: by the parent's name, then one's own

ASSUME CategoryParameters ==
    /\ Root \notin Categories \cup Names
    /\ SlugOf \in [Names \cup {Root} -> [Names -> Slugs]]

VARIABLES
    category,       \* categories; their rows are there for the ids in its domain
    inUse           \* categories with products

categoryVars == <<category, inUse>>

CategoryRow == [name: Names, parent: Categories \cup {Root}, type: Types, slug: Slugs]

CategoryTypeOK ==
    /\ \E ids \in SUBSET Categories : category \in [ids -> CategoryRow]
    /\ inUse \subseteq DOMAIN category

CategoryInit ==
    /\ category = [c \in {} |-> Root]
    /\ inUse = {}

-----------------------------------------------------------------------------
Known == DOMAIN category
Children(c) == {d \in Known : category[d].parent = c}

NameOf(parent) == IF parent = Root THEN Root ELSE category[parent].name

\* assertNameAvailable: siblings, and for a root those of its type.
NameAvailable(others, name, parent, type) ==
    \A d \in others :
        category[d].parent = parent /\ (parent = Root => category[d].type = type)
            => category[d].name # name

\* assertValidParent.
ValidParent(parent, type) ==
    parent # Root =>
        /\ parent \in Known
        /\ category[parent].parent = Root
        /\ category[parent].type = type

\* assertSlugsAvailable: the new slugs, and those of the other categories.
SlugsAvailable(slugs) ==
    /\ \A c, d \in DOMAIN slugs : c # d => slugs[c] # slugs[d]
    /\ \A d \in Known \ DOMAIN slugs, c \in DOMAIN slugs : category[d].slug # slugs[c]

Row(name, parent, type, slug) ==
    [name |-> name, parent |-> parent, type |-> type, slug |-> slug]

\* create.
CreateCategory(c, name, parent, type) ==
    LET slug == SlugOf[NameOf(parent)][name] IN
    /\ c \notin Known
    /\ NameAvailable(Known, name, parent, type)
    /\ ValidParent(parent, type)
    /\ SlugsAvailable([d \in {c} |-> slug])
    /\ category' = [d \in Known \cup {c} |->
                       IF d = c THEN Row(name, parent, type, slug) ELSE category[d]]
    /\ UNCHANGED inUse

\* Mutant: the children of a renamed root keep their slugs.
RewrittenAlone(c, name, parent) == {c}

\* The categories whose slug an update builds again: a root that is renamed
\* takes its children along.
Rewritten(c, name, parent) ==
    {c} \cup (IF parent = Root /\ name # category[c].name THEN Children(c) ELSE {})

NewSlugs(c, name, parent) ==
    [d \in Rewritten(c, name, parent) |->
        IF d = c THEN SlugOf[NameOf(parent)][name] ELSE SlugOf[name][category[d].name]]

\* A category moves only as a leaf, and changes its type only when it is alone.
MayMove(c, parent) == parent # c /\ (Children(c) # {} => parent = Root)

MayRetype(c, type) ==
    type = category[c].type \/ (category[c].parent = Root /\ Children(c) = {})

\* update; the slugs go through a temporary value inside the transaction.
UpdateCategory(c, name, parent, type) ==
    LET slugs == NewSlugs(c, name, parent) IN
    /\ c \in Known
    /\ MayMove(c, parent)
    /\ MayRetype(c, type)
    /\ NameAvailable(Known \ {c}, name, parent, type)
    /\ ValidParent(parent, type)
    /\ SlugsAvailable(slugs)
    /\ category' = [d \in Known |->
                       IF d = c THEN Row(name, parent, type, slugs[c])
                       ELSE IF d \in DOMAIN slugs
                            THEN Row(category[d].name, category[d].parent, category[d].type, slugs[d])
                       ELSE category[d]]
    /\ UNCHANGED inUse

\* delete: neither with children nor while a product is in it.
DeleteCategory(c) ==
    /\ c \in Known
    /\ Children(c) = {} /\ c \notin inUse
    /\ category' = [d \in Known \ {c} |-> category[d]]
    /\ UNCHANGED inUse

\* Products are put into a category, or all taken out (ProductsRepository).
Categorize(c) ==
    /\ c \in Known
    /\ inUse' \in {inUse \cup {c}, inUse \ {c}}
    /\ UNCHANGED category

CategoryNext ==
    \E c \in Categories :
        \/ \E name \in Names, parent \in Categories \cup {Root}, type \in Types :
               CreateCategory(c, name, parent, type) \/ UpdateCategory(c, name, parent, type)
        \/ DeleteCategory(c)
        \/ Categorize(c)

CategorySpec == CategoryInit /\ [][CategoryNext]_categoryVars

-----------------------------------------------------------------------------
\* Through every rename, move and change of type, the tree keeps two levels of
\* one type, and each category is found by exactly the slug that its name and
\* its parent's name give now (what the reconciliation script would leave as it
\* is), which no other category has.
SlugsFollowTree ==
    /\ \A c \in Known :
           /\ ValidParent(category[c].parent, category[c].type)
           /\ category[c].slug = SlugOf[NameOf(category[c].parent)][category[c].name]
    /\ \A c, d \in Known : c # d => category[c].slug # category[d].slug
=============================================================================
