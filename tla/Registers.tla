------------------------------- MODULE Registers -------------------------------
(***************************************************************************)
(* The registers that products are described with: suppliers, publishers,  *)
(* authors and attributes (SuppliersRepository, PublishersRepository,      *)
(* AuthorsRepository, ProductAttributesRepository), and what products and  *)
(* stock receipts refer to in them (ProductsRepository).  The four are     *)
(* built alike; `kind` says which one a behavior shows.  Every write is    *)
(* one serializable transaction, one action here.  A name is known by how  *)
(* it reads without regard to case and by the slug it gives; addresses,    *)
(* telephones and descriptions are data.                                   *)
(***************************************************************************)
EXTENDS Naturals, FiniteSets

CONSTANTS
    Entries,         \* the ids of the register
    Articles,        \* the ids of products
    Deliveries,      \* the ids of stock receipts
    NoEntry,         \* NULL, or no row
    Omitted,         \* a field that the request leaves out
    Labels,          \* normalized names
    Folded,          \* how a name compares: ILIKE
    SlugBy,          \* toSlug; "" if nothing of the name is left
    AttributeCodes,  \* codes of attributes
    AttributeTypes,  \* ProductAttributeType
    Releases,        \* release dates
    Topics,          \* categories
    Forms,           \* values of attributes as requests give them
    MaxFields,       \* bound: how many fields an update names
    MaxWrites        \* bound: requests

VARIABLES
    kind,            \* "SUPPLIER", "PUBLISHER", "AUTHOR" or "ATTRIBUTE"
    entry,           \* the rows of the register
    article,         \* products with what they refer to
    delivery,        \* the supplier of a stock receipt
    writes           \* how many requests there were

registerVars == <<kind, entry, article, delivery, writes>>

RegisterKinds == {"SUPPLIER", "PUBLISHER", "AUTHOR", "ATTRIBUTE"}

\* The columns that keep what is referred to.
Columns == {"ID", "text", "number", "boolean", "date", "json"}

RegisterSlugs == {SlugBy[n] : n \in Labels}
EntryRow == [name: Labels, key: RegisterSlugs \cup AttributeCodes, type: AttributeTypes \cup {NoEntry}]

\* A slug that was taken gets the product's own suffix.
ArticleRow == [name: Labels, release: Releases, uses: SUBSET (Entries \X Columns),
               topics: SUBSET Topics, primary: Topics \cup {NoEntry},
               slug: RegisterSlugs \X (Articles \cup {NoEntry})]

\* NULL is no row and no value of one.
ASSUME RegisterParameters ==
    /\ NoEntry \notin Entries \cup Articles \cup Topics \cup Columns
    /\ NoEntry \notin EntryRow /\ NoEntry \notin ArticleRow
    /\ MaxWrites \in Nat

RegistersTypeOK ==
    /\ kind \in RegisterKinds
    /\ entry \in [Entries -> EntryRow \cup {NoEntry}]
    /\ article \in [Articles -> ArticleRow \cup {NoEntry}]
    /\ delivery \in [Deliveries -> Entries \cup {NoEntry}]
    /\ writes \in 0..MaxWrites

RegistersInit ==
    /\ kind \in RegisterKinds
    /\ entry = [e \in Entries |-> NoEntry]
    /\ article = [a \in Articles |-> NoEntry]
    /\ delivery = [d \in Deliveries |-> NoEntry]
    /\ writes = 0

Submit == writes < MaxWrites /\ writes' = writes + 1 /\ kind' = kind

Registered == {e \in Entries : entry[e] # NoEntry}
Articled   == {a \in Articles : article[a] # NoEntry}

\* A field that a request leaves out stays as it is.
Kept(field, current) == IF field = Omitted THEN current ELSE field

-----------------------------------------------------------------------------
(* The register. *)

Unread(others, name) == \A d \in others : Folded[entry[d].name] # Folded[name]

\* assertAvailable of suppliers, publishers and authors.
SlugAvailable(others, name) ==
    /\ Unread(others, name)
    /\ SlugBy[name] # "" /\ \A d \in others : entry[d].key # SlugBy[name]

\* assertAvailable of attributes, whose names give no slug.
CodeAvailable(others, name, code) ==
    Unread(others, name) /\ \A d \in others : entry[d].key # code

Put(e, row) == entry' = [entry EXCEPT ![e] = row] /\ UNCHANGED <<article, delivery>>
Named(name) == [name |-> name, key |-> SlugBy[name], type |-> NoEntry]

CreateNamed(e, name) ==
    /\ Submit
    /\ entry[e] = NoEntry
    /\ SlugAvailable(Registered, name)
    /\ Put(e, Named(name))

CreateSupplier(e, name)  == kind = "SUPPLIER" /\ CreateNamed(e, name)
CreatePublisher(e, name) == kind = "PUBLISHER" /\ CreateNamed(e, name)
CreateAuthor(e, name)    == kind = "AUTHOR" /\ CreateNamed(e, name)

CreateAttribute(e, name, code, type) ==
    /\ Submit
    /\ kind = "ATTRIBUTE" /\ entry[e] = NoEntry
    /\ CodeAvailable(Registered, name, code)
    /\ Put(e, [name |-> name, key |-> code, type |-> type])

\* A supplier's address and telephone can change without its name.
UpdateSupplier(e, name) ==
    /\ Submit
    /\ kind = "SUPPLIER" /\ e \in Registered
    /\ SlugAvailable(Registered \ {e}, Kept(name, entry[e].name))
    /\ Put(e, IF name = Omitted THEN entry[e] ELSE Named(name))

\* Of a publisher or an author there is nothing else to change.
Rename(e, name) ==
    /\ Submit
    /\ e \in Registered
    /\ name # Omitted => SlugAvailable(Registered \ {e}, name)
    /\ Put(e, IF name = Omitted THEN entry[e] ELSE Named(name))

UpdatePublisher(e, name) == kind = "PUBLISHER" /\ Rename(e, name)
UpdateAuthor(e, name)    == kind = "AUTHOR" /\ Rename(e, name)

InArticles(e)   == \E a \in Articled : \E use \in article[a].uses : use[1] = e
InDeliveries(e) == \E d \in Deliveries : delivery[d] = e

\* Mutant: a used attribute keeps its code only.
KeepsCode(e, key, type) == InArticles(e) => key = entry[e].key

\* The values of a used attribute were stored by its type and are asked for by its code.
KeepsMeaning(e, key, type) == InArticles(e) => key = entry[e].key /\ type = entry[e].type

UpdateAttribute(e, name, code, type) ==
    LET row == [name |-> Kept(name, entry[e].name), key |-> Kept(code, entry[e].key),
                type |-> Kept(type, entry[e].type)] IN
    /\ Submit
    /\ kind = "ATTRIBUTE" /\ e \in Registered
    /\ CodeAvailable(Registered \ {e}, row.name, row.key)
    /\ KeepsMeaning(e, row.key, row.type)
    /\ Put(e, row)

RemoveUnused(e) ==
    /\ Submit
    /\ e \in Registered /\ ~InArticles(e)
    /\ Put(e, NoEntry)

RemoveSupplier(e)  == kind = "SUPPLIER" /\ ~InDeliveries(e) /\ RemoveUnused(e)
RemovePublisher(e) == kind = "PUBLISHER" /\ RemoveUnused(e)
RemoveAuthor(e)    == kind = "AUTHOR" /\ RemoveUnused(e)
RemoveAttribute(e) == kind = "ATTRIBUTE" /\ RemoveUnused(e)

-----------------------------------------------------------------------------
(* Products. *)

\* attributeStorage: the column of a type, and the values that it takes.
ColumnOf(type) ==
    IF type \in {"TEXT", "SINGLE_SELECT"} THEN "text"
    ELSE IF type = "NUMBER"  THEN "number"
    ELSE IF type = "BOOLEAN" THEN "boolean"
    ELSE IF type = "DATE"    THEN "date"
    ELSE "json"

Takes(type) ==
    IF type \in {"TEXT", "SINGLE_SELECT"} THEN {"WORD", "NUMERAL"}
    ELSE IF type = "NUMBER"  THEN {"NUMERAL", "NUMBER"}
    ELSE IF type = "BOOLEAN" THEN {"TRUTH"}
    ELSE IF type = "DATE"    THEN {"NUMERAL"}
    ELSE {"WORDS"}

\* What a request of each kind may refer to: ids, and of attributes the values.
References ==
    [k \in RegisterKinds |->
        IF k = "ATTRIBUTE"   THEN SUBSET (Entries \X Forms)
        ELSE IF k = "AUTHOR" THEN SUBSET (Entries \X {"ID"})
        ELSE {{}} \cup {{<<e, "ID">>} : e \in Entries}]

\* CreateProductDto, and UpdateProductDto, whose fields can all be left out.
Creation ==
    [k \in RegisterKinds |-> [name: Labels, release: Releases, given: References[k],
                      topics: SUBSET Topics, primary: Topics \cup {NoEntry}]]
Changes ==
    [k \in RegisterKinds |->
        {dto \in [name: Labels \cup {Omitted}, release: Releases \cup {Omitted},
                  given: References[k] \cup {Omitted}, topics: (SUBSET Topics) \cup {Omitted},
                  primary: Topics \cup {NoEntry, Omitted}] :
            Cardinality({f \in DOMAIN dto : dto[f] # Omitted}) \in 1..MaxFields}]

\* assertRelations and prepareAttributeValues: no attribute twice.
Acceptable(given) ==
    /\ \A g \in given : g[1] \in Registered
    /\ kind = "ATTRIBUTE" =>
           /\ \A g, f \in given : g[1] = f[1] => g = f
           /\ \A g \in given : g[2] \in Takes(entry[g[1]].type)

StoredUses(given) ==
    {<<g[1], IF kind = "ATTRIBUTE" THEN ColumnOf(entry[g[1]].type) ELSE "ID">> : g \in given}

\* assertProductNameAvailable: among those of one supplier, publisher and date.
Scope(release, uses) == <<release, IF kind \in {"SUPPLIER", "PUBLISHER"} THEN uses ELSE {}>>
NameFree(others, name, release, uses) ==
    \A b \in others :
        Folded[article[b].name] = Folded[name]
            => Scope(article[b].release, article[b].uses) # Scope(release, uses)

\* availableSlug: the random suffix is taken to be the product's own.
SlugFor(a, name) ==
    <<SlugBy[name],
      IF \E b \in Articled \ {a} : article[b].slug = <<SlugBy[name], NoEntry>> THEN a ELSE NoEntry>>

\* prepareProductInput: a product in any category has a main one.
PrimaryFits(topics, primary) ==
    /\ topics # {} => primary # NoEntry
    /\ primary # NoEntry => primary \in topics

CreateArticle(a, dto) ==
    /\ Submit
    /\ article[a] = NoEntry
    /\ PrimaryFits(dto.topics, dto.primary)
    /\ Acceptable(dto.given)
    /\ NameFree(Articled, dto.name, dto.release, StoredUses(dto.given))
    /\ SlugBy[dto.name] # ""
    /\ article' = [article EXCEPT ![a] =
           [name |-> dto.name, release |-> dto.release, uses |-> StoredUses(dto.given),
            topics |-> dto.topics, primary |-> dto.primary, slug |-> SlugFor(a, dto.name)]]
    /\ UNCHANGED <<entry, delivery>>

\* update: what is left out stays.  A main category that comes without the
\* categories is checked, and not stored.
UpdateArticle(a, dto) ==
    LET row  == article[a]
        name == Kept(dto.name, row.name)
        main == IF dto.primary = Omitted /\ dto.topics # Omitted THEN NoEntry
                ELSE Kept(dto.primary, row.primary)
        uses == IF dto.given = Omitted THEN row.uses ELSE StoredUses(dto.given)
    IN
    /\ Submit
    /\ a \in Articled
    /\ PrimaryFits(Kept(dto.topics, row.topics), main)
    /\ dto.given # Omitted => Acceptable(dto.given)
    /\ NameFree(Articled \ {a}, name, Kept(dto.release, row.release), uses)
    /\ name # row.name => SlugBy[name] # ""
    /\ article' = [article EXCEPT ![a] =
           [name |-> name, release |-> Kept(dto.release, row.release), uses |-> uses,
            topics |-> Kept(dto.topics, row.topics),
            primary |-> IF dto.topics = Omitted THEN row.primary ELSE main,
            slug |-> IF name = row.name THEN row.slug ELSE SlugFor(a, name)]]
    /\ UNCHANGED <<entry, delivery>>

\* remove, where ProductCatalog allows it: what it referred to goes with it.
RemoveArticle(a) ==
    /\ Submit
    /\ a \in Articled
    /\ article' = [article EXCEPT ![a] = NoEntry]
    /\ UNCHANGED <<entry, delivery>>

\* requireSupplier: a draft receipt names its supplier, or none.
SupplyReceipt(d, e) ==
    /\ Submit
    /\ kind = "SUPPLIER"
    /\ e # NoEntry => e \in Registered
    /\ delivery' = [delivery EXCEPT ![d] = e]
    /\ UNCHANGED <<entry, article>>

\* attributeValue: the column that is read for a product's page.
ReadBack(e, columns) ==
    IF ColumnOf(entry[e].type) \in columns THEN ColumnOf(entry[e].type) ELSE NoEntry

\* displayAttributeValue: the shop shows the first column that has anything.
ShownFrom(columns) ==
    IF "text" \in columns         THEN "text"
    ELSE IF "number" \in columns  THEN "number"
    ELSE IF "boolean" \in columns THEN "boolean"
    ELSE IF "date" \in columns    THEN "date"
    ELSE IF "json" \in columns    THEN "json"
    ELSE NoEntry

RegisterStep(e) ==
    \/ \E name \in Labels :
           \/ CreateSupplier(e, name) \/ CreatePublisher(e, name) \/ CreateAuthor(e, name)
           \/ \E code \in AttributeCodes, type \in AttributeTypes :
                  CreateAttribute(e, name, code, type)
    \/ \E name \in Labels \cup {Omitted} :
           \/ UpdateSupplier(e, name) \/ UpdatePublisher(e, name) \/ UpdateAuthor(e, name)
           \/ \E code \in AttributeCodes \cup {Omitted}, type \in AttributeTypes \cup {Omitted} :
                  UpdateAttribute(e, name, code, type)
    \/ RemoveSupplier(e) \/ RemovePublisher(e) \/ RemoveAuthor(e) \/ RemoveAttribute(e)

RegistersNext ==
    \/ \E e \in Entries : RegisterStep(e)
    \/ \E a \in Articles :
           \/ \E dto \in Creation[kind] : CreateArticle(a, dto)
           \/ \E dto \in Changes[kind] : UpdateArticle(a, dto)
           \/ RemoveArticle(a)
    \/ \E d \in Deliveries, e \in Entries \cup {NoEntry} : SupplyReceipt(d, e)

RegistersSpec == RegistersInit /\ [][RegistersNext]_registerVars

-----------------------------------------------------------------------------
(* Properties. *)

\* Whatever a product or a receipt refers to is there, and whatever is stored
\* of an attribute is what its page and the shop read back.
UsesResolve ==
    /\ \A a \in Articled : \A use \in article[a].uses :
           /\ use[1] \in Registered
           /\ kind = "ATTRIBUTE" =>
                  LET columns == {u[2] : u \in {v \in article[a].uses : v[1] = use[1]}} IN
                  ReadBack(use[1], columns) # NoEntry /\ ShownFrom(columns) = ReadBack(use[1], columns)
    /\ \A d \in Deliveries : delivery[d] # NoEntry => delivery[d] \in Registered

\* Through every rename and every change of what tells them apart, no two rows
\* of a register and no two products of one origin read alike, and each is
\* found by the slug that its name gives now.
NamesTellApart ==
    /\ \A e, d \in Registered :
           e # d => Folded[entry[e].name] # Folded[entry[d].name] /\ entry[e].key # entry[d].key
    /\ \A e \in Registered : kind # "ATTRIBUTE" => entry[e].key = SlugBy[entry[e].name]
    /\ \A a, b \in Articled :
           a # b => /\ article[a].slug # article[b].slug
                    /\ NameFree({b}, article[a].name, article[a].release, article[a].uses)
    /\ \A a \in Articled : article[a].slug[1] = SlugBy[article[a].name]

\* A product in any category has its main one among them.
PrimariesFit == \A a \in Articled : PrimaryFits(article[a].topics, article[a].primary)

\* The registers and the products described with them stay consistent, however
\* they are renamed, retyped and removed.
RegistersResolve == UsesResolve /\ NamesTellApart /\ PrimariesFit
=============================================================================
