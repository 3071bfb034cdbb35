----------------------------- MODULE CatalogProofs -----------------------------
(***************************************************************************)
(* Proofs about three parts of the catalog that share no state: the tree   *)
(* of categories with its slugs (CategoryTree), the images that rows show  *)
(* (ImageStorage), and a product with its options, variants and galleries  *)
(* (ProductCatalog), for any number of categories, rows, requests, options *)
(* and pictures.                                                           *)
(***************************************************************************)
EXTENDS ProductCatalog, CategoryTree, ImageStorage, FiniteSetTheorems, TLAPS

-----------------------------------------------------------------------------
(* Categories.  Types and slugs are inductive together. *)

CategoryInv ==
    /\ Known \subseteq Categories
    /\ category \in [Known -> CategoryRow]
    /\ inUse \subseteq Known
    /\ SlugsFollowTree

LEMMA NameOfType ==
    ASSUME CategoryInv, NEW parent, NEW type, ValidParent(parent, type)
    PROVE  NameOf(parent) \in Names \cup {Root}
BY DEF CategoryInv, CategoryRow, ValidParent, NameOf

\* What the tables hold of a category.
LEMMA KnownRow ==
    ASSUME CategoryInv, NEW c \in Known
    PROVE  /\ c \in Categories /\ c # Root
           /\ category[c] \in CategoryRow
           /\ category[c].name \in Names /\ category[c].type \in Types
           /\ category[c].parent \in Categories \cup {Root} /\ category[c].slug \in Slugs
           /\ ValidParent(category[c].parent, category[c].type)
           /\ category[c].slug = SlugOf[NameOf(category[c].parent)][category[c].name]
BY CategoryParameters DEF CategoryInv, CategoryRow, SlugsFollowTree

LEMMA RowFields ==
    ASSUME NEW name, NEW parent, NEW type, NEW slug
    PROVE  LET r == Row(name, parent, type, slug) IN
           r.name = name /\ r.parent = parent /\ r.type = type /\ r.slug = slug
BY DEF Row

LEMMA SlugType ==
    ASSUME NEW p \in Names \cup {Root}, NEW n \in Names
    PROVE  SlugOf[p][n] \in Slugs
BY CategoryParameters

LEMMA CreateCategoryKeeps ==
    ASSUME CategoryInv, NEW c \in Categories, NEW name \in Names,
           NEW parent \in Categories \cup {Root}, NEW type \in Types,
           CreateCategory(c, name, parent, type)
    PROVE  CategoryInv'
<1> DEFINE slug == SlugOf[NameOf(parent)][name]
           new == Row(name, parent, type, slug)
<1>1. /\ c \notin Known /\ ValidParent(parent, type)
      /\ SlugsAvailable([d \in {c} |-> slug])
      /\ category' = [d \in Known \cup {c} |-> IF d = c THEN new ELSE category[d]]
      /\ inUse' = inUse
  BY DEF CreateCategory
<1>2. slug \in Slugs
  BY <1>1, NameOfType, SlugType
<1>3. \A d \in Known : category[d].slug # slug
  BY <1>1 DEF SlugsAvailable
<1>4. /\ new \in CategoryRow
      /\ new.name = name /\ new.parent = parent /\ new.type = type /\ new.slug = slug
  BY <1>2 DEF Row, CategoryRow
<1> HIDE DEF new
<1>5. /\ Known' = Known \cup {c} /\ category'[c] = new
      /\ \A d \in Known : category'[d] = category[d]
  BY <1>1 DEF Known
<1>6. category' \in [Known' -> CategoryRow]
  BY <1>1, <1>4, <1>5, KnownRow
<1>7. ASSUME NEW p, NEW t, ValidParent(p, t)
      PROVE  /\ (p # Root => p \in Known' /\ category'[p].parent = Root /\ category'[p].type = t)
             /\ (IF p = Root THEN Root ELSE category'[p].name) = NameOf(p)
  BY <1>5, <1>7 DEF ValidParent, NameOf
<1>8. ASSUME NEW d \in Known'
      PROVE  /\ ValidParent(category[d].parent, category[d].type)'
             /\ category'[d].slug = SlugOf[NameOf(category[d].parent)'][category'[d].name]
  <2>1. CASE d = c
    BY <1>1, <1>4, <1>5, <1>7, <2>1 DEF ValidParent, NameOf
  <2>2. CASE d # c
    BY <1>5, <1>7, <2>2, KnownRow DEF ValidParent, NameOf
  <2> QED
    BY <2>1, <2>2
<1>9. \A d, e \in Known' : d # e => category'[d].slug # category'[e].slug
  BY <1>3, <1>4, <1>5 DEF CategoryInv, SlugsFollowTree
<1>10. SlugsFollowTree'
  BY <1>8, <1>9 DEF SlugsFollowTree
<1> QED
  BY <1>1, <1>5, <1>6, <1>10 DEF CategoryInv

LEMMA UpdateCategoryKeeps ==
    ASSUME CategoryInv, NEW c \in Categories, NEW name \in Names,
           NEW parent \in Categories \cup {Root}, NEW type \in Types,
           UpdateCategory(c, name, parent, type)
    PROVE  CategoryInv'
<1> DEFINE slugs == NewSlugs(c, name, parent)
           again == Rewritten(c, name, parent)
<1>1. /\ c \in Known /\ MayMove(c, parent) /\ MayRetype(c, type) /\ ValidParent(parent, type)
      /\ SlugsAvailable(slugs)
      /\ category' = [d \in Known |->
             IF d = c THEN Row(name, parent, type, slugs[c])
             ELSE IF d \in DOMAIN slugs
                  THEN Row(category[d].name, category[d].parent, category[d].type, slugs[d])
             ELSE category[d]]
      /\ inUse' = inUse
  BY DEF UpdateCategory
<1>2. /\ DOMAIN slugs = again /\ c \in again
      /\ \A d \in again : d # c => d \in Children(c) /\ parent = Root /\ name # category[c].name
      /\ \A d \in Children(c) : parent = Root /\ name # category[c].name => d \in again
      /\ again \subseteq Known
  BY <1>1 DEF NewSlugs, Rewritten, Children
<1>3. /\ slugs[c] = SlugOf[NameOf(parent)][name]
      /\ \A d \in again : d # c => slugs[d] = SlugOf[name][category[d].name]
  BY <1>2 DEF NewSlugs
<1>4. \A d \in again : slugs[d] \in Slugs
  BY <1>1, <1>2, <1>3, NameOfType, KnownRow, SlugType
<1> HIDE DEF slugs, again
<1>5. Known' = Known
  BY <1>1 DEF Known
<1>6. /\ category'[c].name = name /\ category'[c].parent = parent /\ category'[c].type = type
      /\ category'[c].slug = slugs[c] /\ category'[c] \in CategoryRow
  BY <1>1, <1>2, <1>4 DEF Row, CategoryRow
<1>7. ASSUME NEW d \in Known, d # c
      PROVE  /\ category'[d].name = category[d].name /\ category'[d].parent = category[d].parent
             /\ category'[d].type = category[d].type
             /\ category'[d].slug = (IF d \in again THEN slugs[d] ELSE category[d].slug)
             /\ category'[d] \in CategoryRow
  <2>1. CASE d \in again
    <3>1. category'[d] = Row(category[d].name, category[d].parent, category[d].type, slugs[d])
      BY <1>1, <1>2, <1>7, <2>1
    <3>2. Row(category[d].name, category[d].parent, category[d].type, slugs[d]) \in CategoryRow
      BY <1>4, <2>1, KnownRow DEF Row, CategoryRow
    <3> QED
      BY <2>1, <3>1, <3>2, RowFields
  <2>2. CASE d \notin again
    BY <1>1, <1>2, <1>7, <2>2, KnownRow
  <2> QED
    BY <2>1, <2>2
<1>8. category' \in [Known' -> CategoryRow]
  BY <1>1, <1>5, <1>6, <1>7
\* A parent is another category than its child, and keeps its place and its type.
<1>9. c # parent /\ (parent # Root => Children(c) = {})
  BY <1>1 DEF MayMove
<1>10. Children(c) # {} => type = category[c].type /\ parent = Root
  BY <1>1, <1>9 DEF MayRetype
<1>11. ASSUME NEW d \in Known
       PROVE  /\ ValidParent(category[d].parent, category[d].type)'
              /\ category'[d].slug = SlugOf[NameOf(category[d].parent)'][category'[d].name]
  <2>1. CASE d = c
    <3>1. parent # Root => category'[parent].parent = Root /\ category'[parent].type = type
                           /\ category'[parent].name = category[parent].name /\ parent \in Known
      BY <1>1, <1>7, <1>9 DEF ValidParent
    <3>2. NameOf(parent) = IF parent = Root THEN Root ELSE category'[parent].name
      BY <3>1 DEF NameOf
    <3>3. ValidParent(parent, type)'
      BY <1>5, <3>1 DEF ValidParent
    <3> QED
      BY <1>3, <1>6, <2>1, <3>1, <3>2, <1>5 DEF ValidParent, NameOf
  <2>2. CASE d # c /\ d \in Children(c)
    <3>1. /\ category[d].parent = c /\ c # Root /\ category[d].type = type /\ parent = Root
          /\ category[c].type = type
      BY <1>1, <1>10, <2>2, KnownRow DEF Children, ValidParent
    <3>2. ValidParent(category[d].parent, category[d].type)'
      BY <1>1, <1>5, <1>6, <1>7, <2>2, <3>1 DEF ValidParent
    <3>3. NameOf(category[d].parent)' = name
      BY <1>6, <1>7, <2>2, <3>1 DEF NameOf
    <3>4. CASE name # category[c].name
      <4>1. d \in again
        BY <1>2, <2>2, <3>1, <3>4
      <4> QED
        BY <1>3, <1>7, <2>2, <3>2, <3>3, <4>1
    <3>5. CASE name = category[c].name
      <4>1. d \notin again
        BY <1>2, <2>2, <3>5
      <4>2. category[d].slug = SlugOf[category[c].name][category[d].name]
        BY <3>1, KnownRow DEF NameOf
      <4> QED
        BY <1>7, <2>2, <3>2, <3>3, <3>5, <4>1, <4>2
    <3> QED
      BY <3>4, <3>5
  <2>3. CASE d # c /\ d \notin Children(c)
    <3>1. d \notin again
      BY <1>2, <2>3
    <3>2. /\ category'[d].slug = category[d].slug /\ category'[d].name = category[d].name
          /\ category'[d].parent = category[d].parent /\ category'[d].type = category[d].type
      BY <1>7, <2>3, <3>1
    <3>3. category[d].parent # c
      BY <2>3 DEF Children
    <3>4. category[d].parent # Root =>
              /\ category[d].parent \in Known /\ category[category[d].parent].parent = Root
              /\ category[category[d].parent].type = category[d].type
      BY KnownRow DEF ValidParent
    <3>5. category[d].parent # Root =>
              /\ category'[category[d].parent].parent = Root
              /\ category'[category[d].parent].type = category[d].type
              /\ category'[category[d].parent].name = category[category[d].parent].name
      BY <1>7, <3>3, <3>4
    <3>6. NameOf(category[d].parent)' = NameOf(category[d].parent)
      BY <3>2, <3>5 DEF NameOf
    <3>7. ValidParent(category[d].parent, category[d].type)'
      BY <1>5, <3>2, <3>4, <3>5 DEF ValidParent
    <3> QED
      BY <3>2, <3>6, <3>7, KnownRow
  <2> QED
    BY <2>1, <2>2, <2>3
<1>12. ASSUME NEW d \in Known, NEW e \in Known, d # e
       PROVE  category'[d].slug # category'[e].slug
  <2>1. \A x \in Known : category'[x].slug = IF x \in again THEN slugs[x] ELSE category[x].slug
    BY <1>2, <1>6, <1>7
  <2>2. CASE d \in again /\ e \in again
    BY <1>1, <1>2, <1>12, <2>1, <2>2 DEF SlugsAvailable
  <2>3. CASE d \in again /\ e \notin again
    BY <1>1, <1>2, <2>1, <2>3 DEF SlugsAvailable
  <2>4. CASE d \notin again /\ e \in again
    BY <1>1, <1>2, <2>1, <2>4 DEF SlugsAvailable
  <2>5. CASE d \notin again /\ e \notin again
    BY <1>12, <2>1, <2>5 DEF CategoryInv, SlugsFollowTree
  <2> QED
    BY <2>2, <2>3, <2>4, <2>5
<1>13. SlugsFollowTree'
  BY <1>5, <1>11, <1>12 DEF SlugsFollowTree
<1> QED
  BY <1>1, <1>5, <1>8, <1>13 DEF CategoryInv

LEMMA DeleteCategoryKeeps ==
    ASSUME CategoryInv, NEW c \in Categories, DeleteCategory(c)
    PROVE  CategoryInv'
<1>1. /\ c \in Known /\ Children(c) = {} /\ c \notin inUse /\ inUse' = inUse
      /\ category' = [d \in Known \ {c} |-> category[d]]
  BY DEF DeleteCategory
<1>2. Known' = Known \ {c} /\ \A d \in Known \ {c} : category'[d] = category[d]
  BY <1>1 DEF Known
<1>3. category' \in [Known' -> CategoryRow]
  BY <1>1, <1>2, KnownRow
<1>4. ASSUME NEW d \in Known'
      PROVE  /\ ValidParent(category[d].parent, category[d].type)'
             /\ category'[d].slug = SlugOf[NameOf(category[d].parent)'][category'[d].name]
  <2>1. d \in Known /\ category'[d] = category[d] /\ category[d].parent # c
    BY <1>1, <1>2 DEF Children
  <2>2. category[d].parent # Root => category[d].parent \in Known \ {c}
    BY <2>1, KnownRow DEF ValidParent
  <2> QED
    BY <1>2, <2>1, <2>2, KnownRow DEF ValidParent, NameOf
<1>5. \A d, e \in Known' : d # e => category'[d].slug # category'[e].slug
  BY <1>2 DEF CategoryInv, SlugsFollowTree
<1>6. SlugsFollowTree'
  BY <1>4, <1>5 DEF SlugsFollowTree
<1> QED
  BY <1>1, <1>2, <1>3, <1>6 DEF CategoryInv

LEMMA CategorizeKeeps ==
    ASSUME CategoryInv, category' = category, inUse' \subseteq Known
    PROVE  CategoryInv'
<1>1. Known' = Known
  BY DEF Known
<1> QED
  BY <1>1 DEF CategoryInv, SlugsFollowTree, ValidParent, NameOf

LEMMA CategoryInitHolds == ASSUME CategoryInit PROVE CategoryInv
BY DEF CategoryInit, CategoryInv, SlugsFollowTree, Known

LEMMA CategoryNextKeeps ==
    ASSUME CategoryInv, [CategoryNext]_categoryVars PROVE CategoryInv'
<1>1. CASE UNCHANGED categoryVars
  BY <1>1, CategorizeKeeps DEF categoryVars, CategoryInv
<1>2. ASSUME NEW c \in Categories, Categorize(c) PROVE CategoryInv'
  BY <1>2, CategorizeKeeps DEF Categorize, CategoryInv
<1>3. CASE CategoryNext
  BY <1>2, <1>3, CreateCategoryKeeps, UpdateCategoryKeeps, DeleteCategoryKeeps DEF CategoryNext
<1> QED
  BY <1>1, <1>3

\* The types: a product is only in a category that is there.
THEOREM CategoryTypeCorrect == CategorySpec => []CategoryTypeOK
<1>1. CategoryInv => CategoryTypeOK
  BY DEF CategoryInv, CategoryTypeOK, Known
<1> QED
  BY <1>1, CategoryInitHolds, CategoryNextKeeps, PTL DEF CategorySpec

\* The tree keeps two levels of one type, and every slug is the one that the names
\* give, and nobody else's, through any renames and moves.
THEOREM SlugsKeepFollowingTree == CategorySpec => []SlugsFollowTree
<1>1. CategoryInv => SlugsFollowTree
  BY DEF CategoryInv
<1> QED
  BY <1>1, CategoryInitHolds, CategoryNextKeeps, PTL DEF CategorySpec

-----------------------------------------------------------------------------
(* Images.  What a row shows is safe because every key is used once: the   *)
(* image that a request has uploaded is no row's and no other request's,   *)
(* the one that it replaces is shown by its own row if by any, and the one *)
(* that it deletes by none whose writes were all answered.                 *)

Uses(j) == {job[j].old, job[j].new, job[j].victim}

ImageTyped ==
    /\ ImageTypeOK
    /\ \A o \in Owners : shown[o] # NoImage => shown[o] \in taken /\ o \in row
    /\ \A j \in Jobs : Uses(j) \subseteq taken \cup {NoImage}

ShownApart ==
    \A o, p \in Owners : o # p /\ shown[o] # NoImage => shown[o] # shown[p]

\* Whoever has an image to replace; to publish; to delete.
OldIsOwn ==
    \A j \in Jobs, o \in Owners :
        job[j].old # NoImage /\ o # job[j].owner => shown[o] # job[j].old

NewIsFresh ==
    \A j \in Jobs : job[j].new # NoImage =>
        /\ job[j].phase = "WRITE" /\ job[j].new \in stored
        /\ job[j].new # job[j].old /\ job[j].new # job[j].victim
        /\ \A o \in Owners : shown[o] # job[j].new
        /\ \A k \in Jobs : k # j => job[j].new \notin Uses(k)

VictimIsUnseen ==
    \A j \in Jobs, o \in row \ unanswered :
        job[j].victim # NoImage => shown[o] # job[j].victim

ImageInv ==
    /\ ImageTyped /\ ShownApart /\ OldIsOwn /\ NewIsFresh /\ VictimIsUnseen /\ ShownIsStored

-----------------------------------------------------------------------------
LEMMA AtFields ==
    ASSUME NEW task, NEW phase, NEW o, NEW old, NEW new, NEW victim
    PROVE  LET r == At(task, phase, o, old, new, victim) IN
           /\ r.task = task /\ r.phase = phase /\ r.owner = o
           /\ r.old = old /\ r.new = new /\ r.victim = victim
BY DEF At

LEMMA AtType ==
    ASSUME NEW task \in Tasks, NEW phase \in Phases, NEW o \in Owners,
           NEW old \in Images \cup {NoImage}, NEW new \in Images \cup {NoImage},
           NEW victim \in Images \cup {NoImage}
    PROVE  At(task, phase, o, old, new, victim) \in JobRow
BY DEF At, JobRow

LEMMA JobFields ==
    ASSUME ImageInv, NEW j \in Jobs
    PROVE  /\ job[j] \in JobRow
           /\ job[j].task \in Tasks /\ job[j].phase \in Phases /\ job[j].owner \in Owners
           /\ job[j].old \in Images \cup {NoImage} /\ job[j].new \in Images \cup {NoImage}
           /\ job[j].victim \in Images \cup {NoImage}
           /\ Uses(j) \subseteq taken \cup {NoImage}
BY DEF ImageInv, ImageTyped, ImageTypeOK, JobRow

\* A request j reaches a phase with these images; the others stay.
JobBecomes(j, phase, o, old, new, victim) ==
    /\ job' \in [Jobs -> JobRow]
    /\ job'[j].phase = phase /\ job'[j].owner = o
    /\ job'[j].old = old /\ job'[j].new = new /\ job'[j].victim = victim
    /\ \A k \in Jobs : k # j => job'[k] = job[k]
    /\ Uses(j)' = {old, new, victim}
    /\ \A k \in Jobs : k # j => Uses(k)' = Uses(k)

LEMMA JobWrite ==
    ASSUME ImageInv, NEW j \in Jobs, NEW task \in Tasks, NEW phase \in Phases, NEW o \in Owners,
           NEW old \in Images \cup {NoImage}, NEW new \in Images \cup {NoImage},
           NEW victim \in Images \cup {NoImage},
           SetJob(j, At(task, phase, o, old, new, victim))
    PROVE  JobBecomes(j, phase, o, old, new, victim)
<1> DEFINE r == At(task, phase, o, old, new, victim)
<1>1. r \in JobRow
  BY AtType
<1>2. /\ r.phase = phase /\ r.owner = o
      /\ r.old = old /\ r.new = new /\ r.victim = victim
  BY AtFields
<1> HIDE DEF r
<1>3. job' = [job EXCEPT ![j] = r] /\ job \in [Jobs -> JobRow]
  BY DEF SetJob, ImageInv, ImageTyped, ImageTypeOK, r
<1>4. /\ job' \in [Jobs -> JobRow] /\ job'[j] = r
      /\ \A k \in Jobs : k # j => job'[k] = job[k]
  BY <1>1, <1>3
<1> QED
  BY <1>2, <1>4 DEF JobBecomes, Uses

LEMMA SomePhases ==
    {"IDLE", "UPLOAD", "WRITE", "CLEAN"} \subseteq Phases /\ NoImage \in Images \cup {NoImage}
BY DEF Phases

\* A request that ends, or gives up what it uploaded.
LEMMA GivesUp ==
    ASSUME ImageInv, NEW j \in Jobs, UNCHANGED <<row, shown, stored, taken, unanswered>>,
           SetJob(j, Ended(job[j])) \/ SetJob(j, Cleaning(job[j], job[j].new))
    PROVE  ImageInv'
<1>1. PICK phase \in {"IDLE", "CLEAN"}, victim \in {NoImage, job[j].new} :
          SetJob(j, At(job[j].task, phase, job[j].owner, NoImage, NoImage, victim))
  BY DEF Ended, Cleaning
<1>2. /\ phase \in Phases /\ victim \in Images \cup {NoImage}
      /\ victim \in taken \cup {NoImage}
  BY JobFields DEF Phases, Uses
<1>3. /\ job' \in [Jobs -> JobRow] /\ job'[j].owner = job[j].owner
      /\ job'[j].old = NoImage /\ job'[j].new = NoImage /\ job'[j].victim = victim
      /\ \A k \in Jobs : k # j => job'[k] = job[k]
      /\ Uses(j)' = {NoImage, victim} /\ \A k \in Jobs : k # j => Uses(k)' = Uses(k)
  <2>1. JobBecomes(j, phase, job[j].owner, NoImage, NoImage, victim)
    BY <1>1, <1>2, SomePhases, JobFields, JobWrite
  <2> QED
    BY <2>1 DEF JobBecomes
<1>4. ImageTyped'
  BY <1>2, <1>3 DEF ImageInv, ImageTyped, ImageTypeOK
<1>5. OldIsOwn'
  BY <1>3 DEF ImageInv, OldIsOwn
<1>6. NewIsFresh'
  BY <1>3 DEF ImageInv, NewIsFresh, Uses
<1>7. VictimIsUnseen'
  BY <1>3 DEF ImageInv, VictimIsUnseen, NewIsFresh, ImageTyped, ImageTypeOK
<1> QED
  BY <1>4, <1>5, <1>6, <1>7 DEF ImageInv, ShownApart, ShownIsStored

LEMMA AddRowKeeps ==
    ASSUME ImageInv, NEW o \in Owners, AddRow(o)
    PROVE  ImageInv'
<1>1. shown[o] = NoImage
  BY DEF AddRow, ImageInv, ImageTyped
<1> QED
  BY <1>1 DEF AddRow, ImageInv, ImageTyped, ImageTypeOK, ShownApart, OldIsOwn, NewIsFresh,
              VictimIsUnseen, ShownIsStored, Uses

LEMMA ReadKeeps ==
    ASSUME ImageInv, NEW j \in Jobs, NEW task \in Tasks, NEW o \in Owners, Read(j, task, o)
    PROVE  ImageInv'
<1>1. PICK phase \in {"UPLOAD", "WRITE"} :
          /\ SetJob(j, At(task, phase, o, shown[o], NoImage, NoImage))
          /\ UNCHANGED <<row, shown, stored, taken, unanswered>>
  BY DEF Read
<1>2. shown[o] \in Images \cup {NoImage} /\ shown[o] \in taken \cup {NoImage}
  BY DEF ImageInv, ImageTyped, ImageTypeOK
<1>3. /\ job' \in [Jobs -> JobRow]
      /\ job'[j].owner = o /\ job'[j].old = shown[o]
      /\ job'[j].new = NoImage /\ job'[j].victim = NoImage
      /\ \A k \in Jobs : k # j => job'[k] = job[k]
      /\ Uses(j)' = {shown[o], NoImage} /\ \A k \in Jobs : k # j => Uses(k)' = Uses(k)
  <2>1. phase \in Phases
    BY SomePhases
  <2>2. JobBecomes(j, phase, o, shown[o], NoImage, NoImage)
    BY <1>1, <1>2, <2>1, SomePhases, JobWrite
  <2> QED
    BY <2>2 DEF JobBecomes
<1>4. ImageTyped'
  BY <1>1, <1>2, <1>3 DEF ImageInv, ImageTyped, ImageTypeOK
<1>5. OldIsOwn'
  BY <1>1, <1>3 DEF ImageInv, OldIsOwn, ShownApart
<1>6. NewIsFresh'
  <2>1. \A k \in Jobs : job[k].new # NoImage => shown[o] # job[k].new
    BY DEF ImageInv, NewIsFresh
  <2> QED
    BY <1>1, <1>3, <2>1 DEF ImageInv, NewIsFresh
<1>7. VictimIsUnseen'
  BY <1>1, <1>3 DEF ImageInv, VictimIsUnseen
<1> QED
  BY <1>1, <1>4, <1>5, <1>6, <1>7 DEF ImageInv, ShownApart, ShownIsStored

LEMMA UploadKeeps ==
    ASSUME ImageInv, NEW j \in Jobs, NEW i \in Images, Upload(j, i)
    PROVE  ImageInv'
<1>1. /\ job[j].phase = "UPLOAD" /\ i \notin taken
      /\ stored' = stored \cup {i} /\ taken' = taken \cup {i}
      /\ SetJob(j, At(job[j].task, "WRITE", job[j].owner, job[j].old, i, NoImage))
      /\ UNCHANGED <<row, shown, unanswered>>
  BY DEF Upload
<1>2. i # NoImage /\ NoImage \in Images \cup {NoImage}
  BY ImageParameters
<1>3. JobBecomes(j, "WRITE", job[j].owner, job[j].old, i, NoImage)
  <2>1. "WRITE" \in Phases
    BY SomePhases
  <2> QED
    BY <1>1, <2>1, SomePhases, JobFields, JobWrite
<1>4. /\ job' \in [Jobs -> JobRow] /\ job'[j].phase = "WRITE"
      /\ job'[j].owner = job[j].owner /\ job'[j].old = job[j].old
      /\ job'[j].new = i /\ job'[j].victim = NoImage
      /\ \A k \in Jobs : k # j => job'[k] = job[k]
      /\ Uses(j)' = {job[j].old, i, NoImage} /\ \A k \in Jobs : k # j => Uses(k)' = Uses(k)
  BY <1>3 DEF JobBecomes
<1>5. \A o \in Owners : shown[o] # i
  BY <1>1, <1>2 DEF ImageInv, ImageTyped
<1>6. \A k \in Jobs : i \notin Uses(k)
  BY <1>1, <1>2, JobFields
<1>7. ImageTyped'
  BY <1>1, <1>4, JobFields DEF ImageInv, ImageTyped, ImageTypeOK, Uses
<1>8. OldIsOwn'
  BY <1>1, <1>4 DEF ImageInv, OldIsOwn
<1>9. NewIsFresh'
  <2>1. ASSUME NEW k \in Jobs, k # j, job[k].new # NoImage
        PROVE  job[k].new \notin Uses(j)' /\ job[k].new \in stored'
    <3>1. job[k].new \notin Uses(j) /\ job[k].new \in stored /\ job[k].new \in Uses(k)
      BY <2>1 DEF ImageInv, NewIsFresh, Uses
    <3> QED
      BY <1>1, <1>4, <1>6, <2>1, <3>1 DEF Uses
  <2>2. \A k \in Jobs : k # j => i \notin Uses(k)'
    BY <1>4, <1>6
  <2>3. i # job[j].old
    BY <1>6 DEF Uses
  <2> QED
    BY <1>1, <1>2, <1>4, <1>5, <2>1, <2>2, <2>3 DEF ImageInv, NewIsFresh
<1>10. VictimIsUnseen'
  BY <1>1, <1>4 DEF ImageInv, VictimIsUnseen
<1>11. ShownIsStored'
  BY <1>1 DEF ImageInv, ShownIsStored
<1> QED
  BY <1>1, <1>7, <1>8, <1>9, <1>10, <1>11 DEF ImageInv, ShownApart

\* The row of a request shows what was uploaded, or nothing: with the answer the
\* old image is deleted, without it the new one.
LEMMA PublishKeeps ==
    ASSUME ImageInv, NEW j \in Jobs, job[j].phase = "WRITE", UNCHANGED <<stored, taken>>,
           row' = row \cup {job[j].owner},
           shown' = [shown EXCEPT ![job[j].owner] = job[j].new],
           \/ /\ unanswered' = unanswered \ {job[j].owner}
              /\ SetJob(j, Cleaning(job[j], job[j].old))
           \/ /\ unanswered' = unanswered \cup {job[j].owner}
              /\ SetJob(j, Cleaning(job[j], job[j].new))
    PROVE  ImageInv'
<1> DEFINE o == job[j].owner
           new == job[j].new
<1>1. PICK victim \in {job[j].old, new} :
          /\ SetJob(j, Cleaning(job[j], victim))
          /\ \/ unanswered' = unanswered \ {o} /\ victim = job[j].old
             \/ unanswered' = unanswered \cup {o} /\ victim = new
  OBVIOUS
<1>2. JobBecomes(j, "CLEAN", o, NoImage, NoImage, victim)
  <2>1. victim \in Images \cup {NoImage} /\ "CLEAN" \in Phases
    BY JobFields, SomePhases
  <2>2. SetJob(j, At(job[j].task, "CLEAN", o, NoImage, NoImage, victim))
    BY <1>1 DEF Cleaning
  <2> QED
    BY <2>1, <2>2, SomePhases, JobFields, JobWrite
<1>3. /\ job' \in [Jobs -> JobRow]
      /\ job'[j].old = NoImage /\ job'[j].new = NoImage /\ job'[j].victim = victim
      /\ \A k \in Jobs : k # j => job'[k] = job[k]
      /\ Uses(j)' = {NoImage, victim} /\ \A k \in Jobs : k # j => Uses(k)' = Uses(k)
  BY <1>2 DEF JobBecomes
<1>4. o \in Owners /\ victim \in Uses(j) /\ new \in Uses(j) /\ new \in Images \cup {NoImage}
  BY <1>1, JobFields DEF Uses
<1>5. /\ shown'[o] = new
      /\ \A p \in Owners : p # o => shown'[p] = shown[p]
      /\ shown' \in [Owners -> Images \cup {NoImage}]
  BY <1>4 DEF ImageInv, ImageTyped, ImageTypeOK
<1>6. new # NoImage => /\ new \in stored /\ new # job[j].old
                       /\ \A p \in Owners : shown[p] # new
                       /\ \A k \in Jobs : k # j => new \notin Uses(k)
  BY DEF ImageInv, NewIsFresh
<1>7. \A p \in Owners : p # o /\ job[j].old # NoImage => shown[p] # job[j].old
  BY DEF ImageInv, OldIsOwn
<1> HIDE DEF o, new
<1>8. row' = row \cup {o} /\ unanswered' \subseteq unanswered \cup {o} /\ UNCHANGED <<stored, taken>>
  BY <1>1 DEF o
<1>9. ImageTyped'
  <2>1. ImageTypeOK'
    BY <1>3, <1>4, <1>5, <1>8 DEF ImageInv, ImageTyped, ImageTypeOK
  <2>2. \A p \in Owners : shown'[p] # NoImage => shown'[p] \in taken /\ p \in row'
    BY <1>4, <1>5, <1>8, JobFields DEF ImageInv, ImageTyped
  <2>3. \A k \in Jobs : Uses(k)' \subseteq taken \cup {NoImage}
    BY <1>3, <1>4, JobFields
  <2> QED
    BY <1>8, <2>1, <2>2, <2>3 DEF ImageTyped
<1>10. ShownApart'
  BY <1>5, <1>6 DEF ImageInv, ShownApart
<1>11. OldIsOwn'
  <2>1. \A k \in Jobs : k # j /\ new # NoImage => new # job[k].old
    BY <1>6 DEF Uses
  <2> QED
    BY <1>3, <1>5, <2>1 DEF ImageInv, OldIsOwn
<1>12. NewIsFresh'
  <2>1. ASSUME NEW k \in Jobs, k # j, job[k].new # NoImage
        PROVE  job[k].new \notin Uses(j)' /\ \A p \in Owners : shown'[p] # job[k].new
    <3>1. job[k].new \notin Uses(j) /\ \A p \in Owners : shown[p] # job[k].new
      BY <2>1 DEF ImageInv, NewIsFresh
    <3> QED
      BY <1>3, <1>4, <1>5, <2>1, <3>1
  <2> QED
    BY <1>3, <1>8, <2>1 DEF ImageInv, NewIsFresh
<1>13. VictimIsUnseen'
  <2>1. SUFFICES ASSUME NEW k \in Jobs, NEW p \in row' \ unanswered', job'[k].victim # NoImage
        PROVE  shown'[p] # job'[k].victim
    BY DEF VictimIsUnseen
  <2>2. p \in Owners /\ (p # o => p \in row \ unanswered)
    BY <1>1, <1>4, <1>8, <2>1 DEF ImageInv, ImageTyped, ImageTypeOK
  <2>3. CASE k # j /\ p # o
    BY <1>3, <1>5, <2>1, <2>2, <2>3 DEF ImageInv, VictimIsUnseen
  <2>4. CASE k # j /\ p = o
    BY <1>3, <1>5, <1>6, <2>1, <2>4 DEF Uses
  <2>5. CASE k = j /\ p # o
    BY <1>1, <1>3, <1>5, <1>6, <1>7, <2>1, <2>2, <2>5
  <2>6. CASE k = j /\ p = o
    BY <1>1, <1>3, <1>5, <1>6, <2>1, <2>6
  <2> QED
    BY <2>3, <2>4, <2>5, <2>6
<1>14. ShownIsStored'
  <2>1. \A p \in row' \ unanswered' : p # o => p \in row \ unanswered /\ p \in Owners
    BY <1>1, <1>8 DEF ImageInv, ImageTyped, ImageTypeOK
  <2> QED
    BY <1>5, <1>6, <1>8, <2>1 DEF ImageInv, ShownIsStored
<1> QED
  BY <1>9, <1>10, <1>11, <1>12, <1>13, <1>14 DEF ImageInv

\* A row goes, and one image with it that no other row shows.
LEMMA RemovalKeeps ==
    ASSUME ImageInv, NEW j \in Jobs, NEW o \in Owners, RemoveRow(o), UNCHANGED <<stored, taken>>,
           NEW task \in Tasks, NEW victim \in Images \cup {NoImage},
           SetJob(j, At(task, "CLEAN", o, NoImage, NoImage, victim)),
           victim # NoImage => /\ victim \in taken
                               /\ \A p \in Owners : p # o => shown[p] # victim
                               /\ \A k \in Jobs : k # j => job[k].new # victim
    PROVE  ImageInv'
<1>1. JobBecomes(j, "CLEAN", o, NoImage, NoImage, victim)
  <2>1. "CLEAN" \in Phases
    BY SomePhases
  <2> QED
    BY <2>1, SomePhases, JobWrite
<1>2. /\ job' \in [Jobs -> JobRow]
      /\ job'[j].old = NoImage /\ job'[j].new = NoImage /\ job'[j].victim = victim
      /\ \A k \in Jobs : k # j => job'[k] = job[k]
      /\ Uses(j)' = {NoImage, victim} /\ \A k \in Jobs : k # j => Uses(k)' = Uses(k)
  BY <1>1 DEF JobBecomes
<1>3. /\ shown'[o] = NoImage /\ \A p \in Owners : p # o => shown'[p] = shown[p]
      /\ shown' \in [Owners -> Images \cup {NoImage}]
      /\ row' = row \ {o} /\ unanswered' = unanswered \ {o}
  BY DEF RemoveRow, ImageInv, ImageTyped, ImageTypeOK
<1>4. \A p \in row' \ unanswered' : p # o /\ p \in row \ unanswered /\ p \in Owners
  BY <1>3 DEF ImageInv, ImageTyped, ImageTypeOK
<1>5. ImageTyped'
  BY <1>2, <1>3 DEF ImageInv, ImageTyped, ImageTypeOK
<1>6. ShownApart'
  BY <1>3 DEF ImageInv, ShownApart
<1>7. OldIsOwn'
  BY <1>2, <1>3 DEF ImageInv, OldIsOwn
<1>8. NewIsFresh'
  BY <1>2, <1>3 DEF ImageInv, NewIsFresh
<1>9. VictimIsUnseen'
  BY <1>2, <1>3, <1>4 DEF ImageInv, VictimIsUnseen
<1>10. ShownIsStored'
  BY <1>3, <1>4 DEF ImageInv, ShownIsStored
<1> QED
  BY <1>5, <1>6, <1>7, <1>8, <1>9, <1>10 DEF ImageInv

LEMMA DeleteRowKeeps ==
    ASSUME ImageInv, NEW j \in Jobs, NEW o \in Owners, DeleteRow(j, o)
    PROVE  ImageInv'
<1>1. /\ RemoveRow(o) /\ UNCHANGED <<stored, taken>>
      /\ SetJob(j, At("DELETE", "CLEAN", o, NoImage, NoImage, shown[o]))
  BY DEF DeleteRow
<1>2. /\ shown[o] \in Images \cup {NoImage} /\ "DELETE" \in Tasks
      /\ shown[o] # NoImage => /\ shown[o] \in taken
                               /\ \A p \in Owners : p # o => shown[p] # shown[o]
  BY DEF ImageInv, ImageTyped, ImageTypeOK, ShownApart, Tasks
<1>3. shown[o] # NoImage => \A k \in Jobs : job[k].new # shown[o]
  BY DEF ImageInv, NewIsFresh
<1> QED
  BY <1>1, <1>2, <1>3, RemovalKeeps

LEMMA EraseRowKeeps ==
    ASSUME ImageInv, NEW j \in Jobs, EraseRow(j)
    PROVE  ImageInv'
<1>1. /\ RemoveRow(job[j].owner) /\ UNCHANGED <<stored, taken>>
      /\ SetJob(j, At(job[j].task, "CLEAN", job[j].owner, NoImage, NoImage, job[j].old))
  BY DEF EraseRow, Cleaning
<1>2. \A k \in Jobs : k # j /\ job[j].old # NoImage => job[k].new # job[j].old
  BY DEF ImageInv, NewIsFresh, Uses
<1>3. \A p \in Owners : p # job[j].owner /\ job[j].old # NoImage => shown[p] # job[j].old
  BY DEF ImageInv, OldIsOwn
<1>4. job[j].old # NoImage => job[j].old \in taken
  BY JobFields DEF Uses
<1> QED
  BY <1>1, <1>2, <1>3, <1>4, JobFields, RemovalKeeps

LEMMA CleanKeeps ==
    ASSUME ImageInv, NEW j \in Jobs, Clean(j)
    PROVE  ImageInv'
<1>1. /\ stored' = stored \ {job[j].victim} /\ UNCHANGED <<row, shown, taken, unanswered>>
      /\ SetJob(j, At(job[j].task, "IDLE", job[j].owner, NoImage, NoImage, NoImage))
  BY DEF Clean, Ended
<1>2. JobBecomes(j, "IDLE", job[j].owner, NoImage, NoImage, NoImage)
  <2>1. "IDLE" \in Phases
    BY SomePhases
  <2> QED
    BY <1>1, <2>1, SomePhases, JobFields, JobWrite
<1>3. /\ job' \in [Jobs -> JobRow]
      /\ job'[j].old = NoImage /\ job'[j].new = NoImage /\ job'[j].victim = NoImage
      /\ \A k \in Jobs : k # j => job'[k] = job[k]
      /\ Uses(j)' = {NoImage} /\ \A k \in Jobs : k # j => Uses(k)' = Uses(k)
  BY <1>2 DEF JobBecomes
<1>4. ImageTyped'
  BY <1>1, <1>3 DEF ImageInv, ImageTyped, ImageTypeOK
<1>5. NewIsFresh'
  <2>1. \A k \in Jobs : k # j /\ job[k].new # NoImage => job[k].new # job[j].victim
    BY DEF ImageInv, NewIsFresh, Uses
  <2> QED
    BY <1>1, <1>3, <2>1 DEF ImageInv, NewIsFresh
<1>6. OldIsOwn' /\ VictimIsUnseen'
  BY <1>1, <1>3 DEF ImageInv, OldIsOwn, VictimIsUnseen
<1>7. ShownIsStored'
  BY <1>1 DEF ImageInv, ShownIsStored, VictimIsUnseen
<1> QED
  BY <1>1, <1>4, <1>5, <1>6, <1>7 DEF ImageInv, ShownApart

-----------------------------------------------------------------------------
LEMMA ImageInitHolds == ASSUME ImageInit PROVE ImageInv
<1>1. PICK o \in Owners : job = [j \in Jobs |-> At("CLEAR", "IDLE", o, NoImage, NoImage, NoImage)]
  BY DEF ImageInit
<1>2. \A j \in Jobs : job[j].old = NoImage /\ job[j].new = NoImage /\ job[j].victim = NoImage
  BY <1>1, AtFields
<1>3. job \in [Jobs -> JobRow]
  BY <1>1, AtType DEF Tasks, Phases
<1> QED
  BY <1>2, <1>3 DEF ImageInit, ImageInv, ImageTyped, ImageTypeOK, ShownApart, OldIsOwn, NewIsFresh,
                    VictimIsUnseen, ShownIsStored, Uses

LEMMA ImageStepKeeps ==
    ASSUME ImageInv, NEW j \in Jobs, ImageStep(j)
    PROVE  ImageInv'
<1>1. CASE Write(j) \/ WriteUnanswered(j)
  BY <1>1, PublishKeeps DEF Write, WriteUnanswered
<1>2. CASE WriteFails(j) \/ Stop(j)
  BY <1>2, GivesUp DEF WriteFails, Stop
<1> QED
  BY <1>1, <1>2, ReadKeeps, UploadKeeps, DeleteRowKeeps, EraseRowKeeps, CleanKeeps DEF ImageStep

LEMMA ImageNextKeeps ==
    ASSUME ImageInv, [ImageNext]_imageVars PROVE ImageInv'
<1>1. CASE UNCHANGED imageVars
  BY <1>1 DEF imageVars, ImageInv, ImageTyped, ImageTypeOK, ShownApart, OldIsOwn, NewIsFresh,
              VictimIsUnseen, ShownIsStored, Uses
<1>2. CASE ImageNext
  BY <1>2, AddRowKeeps, ImageStepKeeps DEF ImageNext
<1> QED
  BY <1>1, <1>2

\* The types.
THEOREM ImageTypeCorrect == ImageSpec => []ImageTypeOK
<1>1. ImageInv => ImageTypeOK
  BY DEF ImageInv, ImageTyped
<1> QED
  BY <1>1, ImageInitHolds, ImageNextKeeps, PTL DEF ImageSpec

\* Whatever fails or stops, a row whose writes were answered shows an image that
\* is there.
THEOREM ShownStaysStored == ImageSpec => []ShownIsStored
<1>1. ImageInv => ShownIsStored
  BY DEF ImageInv
<1> QED
  BY <1>1, ImageInitHolds, ImageNextKeeps, PTL DEF ImageSpec

-----------------------------------------------------------------------------
(* A gallery: a finite set whose members are numbered from 0 without a gap. *)

Numbered(S, f) == {f[m] : m \in S} = 0..Cardinality(S) - 1

LEMMA IntervalSize ==
    ASSUME NEW n \in Nat
    PROVE  IsFiniteSet(0..n - 1) /\ Cardinality(0..n - 1) = n
<1>1. 0 \in Int /\ n - 1 \in Int /\ n - 1 - 0 + 1 = n /\ (0 > n - 1 <=> n = 0)
  OBVIOUS
<1> QED
  BY <1>1, FS_Interval

LEMMA NumberedApart ==
    ASSUME NEW S, IsFiniteSet(S), NEW f, Numbered(S, f)
    PROVE  \A m, n \in S : f[m] = f[n] => m = n
<1> DEFINE g == [m \in S |-> f[m]]
           T == 0..Cardinality(S) - 1
<1>1. Cardinality(S) \in Nat /\ Cardinality(T) = Cardinality(S)
  BY FS_CardinalityType, IntervalSize
<1>2. g \in Surjection(S, T)
  BY DEF Surjection, Numbered
<1> HIDE DEF g, T
<1>3. g \in Injection(S, T)
  BY <1>1, <1>2, FS_SurjSameCardinalityImpliesInj
<1> QED
  BY <1>3 DEF Injection, IsInjective, g

\* As many members come before one as its number says.
LEMMA NumberCountsBefore ==
    ASSUME NEW S, IsFiniteSet(S), NEW f, Numbered(S, f), NEW n \in S
    PROVE  /\ f[n] \in 0..Cardinality(S) - 1
           /\ Cardinality({k \in S : f[k] < f[n]}) = f[n]
<1> DEFINE B == {k \in S : f[k] < f[n]}
           g == [k \in B |-> f[k]]
           I == 0..f[n] - 1
<1>1. Cardinality(S) \in Nat /\ \A k \in S : f[k] \in 0..Cardinality(S) - 1
  BY FS_CardinalityType DEF Numbered
<1>2. \A k, l \in S : f[k] = f[l] => k = l
  BY NumberedApart
<1>3. \A i \in I : \E k \in B : f[k] = i
  <2>1. TAKE i \in I
  <2>2. i \in 0..Cardinality(S) - 1
    BY <1>1
  <2>3. PICK k \in S : f[k] = i
    BY <2>2 DEF Numbered
  <2> QED
    BY <1>1, <2>3
<1>4. g \in Bijection(B, I)
  BY <1>1, <1>2, <1>3 DEF Bijection, Injection, Surjection, IsInjective
<1>5. IsFiniteSet(B) /\ B \in SUBSET S
  BY FS_Subset
<1>6. Cardinality(I) = Cardinality(B)
  BY <1>4, <1>5, FS_Bijection DEF ExistsBijection
<1>7. f[n] \in Nat
  BY <1>1
<1>8. Cardinality(I) = f[n]
  BY <1>7, IntervalSize
<1> QED
  BY <1>1, <1>6, <1>8

\* Without one member, the rest is numbered by how many of it come before.
PlacedWithout(S, m, f, place) ==
    \A n \in S \ {m} : place[n] = Cardinality({k \in S \ {m} : f[k] < f[n]})

LEMMA NumberedWithout ==
    ASSUME NEW S, IsFiniteSet(S), NEW f, Numbered(S, f), NEW m \in S,
           NEW place, PlacedWithout(S, m, f, place)
    PROVE  Numbered(S \ {m}, place)
<1> DEFINE R == S \ {m}
           N == Cardinality(S)
<1>1. /\ N \in Nat /\ IsFiniteSet(R) /\ Cardinality(R) = N - 1
      /\ \A k \in S : f[k] \in 0..N - 1
      /\ \A k, l \in S : f[k] = f[l] => k = l
  BY FS_CardinalityType, FS_RemoveElement, NumberCountsBefore, NumberedApart
<1>2. ASSUME NEW n \in R
      PROVE  place[n] = IF f[n] < f[m] THEN f[n] ELSE f[n] - 1
  <2> DEFINE B == {k \in S : f[k] < f[n]}
             C == {k \in R : f[k] < f[n]}
  <2>1. n \in S /\ B \in SUBSET S
    OBVIOUS
  <2>2. IsFiniteSet(B)
    BY <2>1, FS_Subset
  <2>3. Cardinality(B) = f[n] /\ place[n] = Cardinality(C)
    <3>1. Cardinality(B) = f[n]
      BY <2>1, NumberCountsBefore
    <3> QED
      BY <3>1 DEF PlacedWithout
  <2>4. CASE f[n] < f[m]
    <3>1. B = C
      BY <1>1, <2>4
    <3> QED
      BY <2>3, <2>4, <3>1
  <2>5. CASE ~(f[n] < f[m])
    <3>1. f[m] < f[n]
      BY <1>1, <2>5
    <3>2. m \in B /\ C = B \ {m}
      BY <3>1
    <3>3. Cardinality(C) = Cardinality(B) - 1
      BY <2>2, <3>2, FS_RemoveElement
    <3> QED
      BY <2>3, <2>5, <3>3
  <2> QED
    BY <2>4, <2>5
<1>3. \A n \in R : place[n] \in 0..N - 2
  BY <1>1, <1>2
<1>4. ASSUME NEW i \in 0..N - 2
      PROVE  \E n \in R : place[n] = i
  <2>1. CASE i < f[m]
    <3>1. i \in 0..N - 1
      BY <1>1
    <3>2. PICK n \in S : f[n] = i
      BY <3>1 DEF Numbered
    <3> QED
      BY <1>1, <1>2, <2>1, <3>2
  <2>2. CASE ~(i < f[m])
    <3>1. i + 1 \in 0..N - 1
      BY <1>1
    <3>2. PICK n \in S : f[n] = i + 1
      BY <3>1 DEF Numbered
    <3> QED
      BY <1>1, <1>2, <2>2, <3>2
  <2> QED
    BY <2>1, <2>2
<1> QED
  BY <1>1, <1>3, <1>4 DEF Numbered

LEMMA NumberedWith ==
    ASSUME NEW S, IsFiniteSet(S), NEW f, Numbered(S, f), NEW m, m \notin S,
           NEW h, h[m] = Cardinality(S), \A n \in S : h[n] = f[n]
    PROVE  Numbered(S \cup {m}, h)
<1>1. Cardinality(S) \in Nat /\ Cardinality(S \cup {m}) = Cardinality(S) + 1
  BY FS_CardinalityType, FS_AddElement
<1>2. {h[n] : n \in S \cup {m}} = {f[n] : n \in S} \cup {Cardinality(S)}
  OBVIOUS
<1> QED
  BY <1>1, <1>2 DEF Numbered

LEMMA OrderingNumbers ==
    ASSUME NEW S, IsFiniteSet(S), NEW p \in Orderings(S)
    PROVE  Numbered(S, p)
<1> DEFINE T == 0..Cardinality(S) - 1
<1>1. Cardinality(S) \in Nat /\ IsFiniteSet(T) /\ Cardinality(T) = Cardinality(S)
  BY FS_CardinalityType, IntervalSize
<1>2. p \in Injection(S, T)
  BY DEF Orderings, Injection, IsInjective
<1> HIDE DEF T
<1>3. p \in Surjection(S, T)
  BY <1>1, <1>2, FS_Injection
<1> QED
  BY <1>3 DEF Surjection, Numbered, T
-----------------------------------------------------------------------------
(* Galleries. *)

OnePrimary(g) == GalleryOf(g) = {} \/ \E p : PrimaryOf(g) = {p}

InOrder(g) ==
    /\ {media[m].order : m \in GalleryOf(g)} = 0..Cardinality(GalleryOf(g)) - 1
    /\ OnePrimary(g)

MediaType ==
    media \in [MediaIds -> [present: BOOLEAN, gallery: Galleries,
                           order: 0..Cardinality(MediaIds), primary: BOOLEAN]]

\* What the rows of a gallery are.
LEMMA GalleryFacts ==
    ASSUME NEW g
    PROVE  /\ GalleryOf(g) \subseteq MediaIds
           /\ IsFiniteSet(GalleryOf(g)) /\ IsFiniteSet(PrimaryOf(g))
           /\ Cardinality(GalleryOf(g)) \in 0..Cardinality(MediaIds)
           /\ Cardinality(MediaIds) \in Nat
           /\ PrimaryOf(g) \subseteq GalleryOf(g)
<1>1. /\ GalleryOf(g) \in SUBSET MediaIds /\ PrimaryOf(g) \in SUBSET MediaIds
      /\ PrimaryOf(g) \subseteq GalleryOf(g)
  BY DEF GalleryOf, PrimaryOf
<1>2. IsFiniteSet(MediaIds)
  BY CatalogParameters
<1>3. /\ IsFiniteSet(GalleryOf(g)) /\ IsFiniteSet(PrimaryOf(g))
      /\ Cardinality(GalleryOf(g)) <= Cardinality(MediaIds)
  BY <1>1, <1>2, FS_Subset
<1> QED
  BY <1>1, <1>2, <1>3, FS_CardinalityType

\* The property that the run checks, gallery by gallery.
LEMMA OneOrder ==
    (\A g \in Galleries : InOrder(g))
        <=> \A g \in Galleries :
               /\ {media[m].order : m \in GalleryOf(g)} = 0..Cardinality(GalleryOf(g)) - 1
               /\ GalleryOf(g) # {} => Cardinality(PrimaryOf(g)) = 1
<1>1. \A g : IsFiniteSet(PrimaryOf(g))
  BY GalleryFacts
<1>2. \A g : Cardinality(PrimaryOf(g)) = 1 <=> \E p : PrimaryOf(g) = {p}
  BY <1>1, FS_Singleton
<1> QED
  BY <1>2 DEF InOrder, OnePrimary

\* A gallery with the same rows, places and marks is as it was.
LEMMA GalleryUntouched ==
    ASSUME NEW g, InOrder(g), GalleryOf(g)' = GalleryOf(g),
           \A m \in GalleryOf(g) : /\ media'[m].order = media[m].order
                                   /\ media'[m].primary = media[m].primary
    PROVE  InOrder(g)'
<1>1. PrimaryOf(g)' = PrimaryOf(g)
  BY DEF PrimaryOf
<1>2. {media'[m].order : m \in GalleryOf(g)} = {media[m].order : m \in GalleryOf(g)}
  OBVIOUS
<1> QED
  BY <1>1, <1>2 DEF InOrder, OnePrimary

LEMMA GalleryNumbered ==
    ASSUME NEW g, NEW f, \A m \in GalleryOf(g) : f[m] = media[m].order
    PROVE  Numbered(GalleryOf(g), f)
               <=> {media[m].order : m \in GalleryOf(g)} = 0..Cardinality(GalleryOf(g)) - 1
<1>1. {media[m].order : m \in GalleryOf(g)} = {f[m] : m \in GalleryOf(g)}
  OBVIOUS
<1> QED
  BY <1>1 DEF Numbered
MediaInv == MediaType /\ \A g \in Galleries : InOrder(g)

LEMMA UnmarkedRows ==
    ASSUME MediaType, NEW g
    PROVE  /\ Unmarked(g) \in [MediaIds -> [present: BOOLEAN, gallery: Galleries,
                                  order: 0..Cardinality(MediaIds), primary: BOOLEAN]]
           /\ \A m \in MediaIds :
                  /\ Unmarked(g)[m].present = media[m].present
                  /\ Unmarked(g)[m].gallery = media[m].gallery
                  /\ Unmarked(g)[m].order = media[m].order
                  /\ m \in GalleryOf(g) => Unmarked(g)[m].primary = FALSE
                  /\ m \notin GalleryOf(g) => Unmarked(g)[m] = media[m]
BY DEF MediaType, Unmarked

LEMMA CreateMediaKeeps ==
    ASSUME MediaInv, NEW m \in MediaIds, NEW g \in Galleries, NEW primary \in BOOLEAN,
           CreateMedia(m, g, primary)
    PROVE  MediaInv'
<1> DEFINE S == GalleryOf(g)
           first == S = {}
           base == IF primary /\ ~first THEN Unmarked(g) ELSE media
           new == [present |-> TRUE, gallery |-> g, order |-> Cardinality(S),
                   primary |-> first \/ primary]
<1>1. media' = [base EXCEPT ![m] = new] /\ ~media[m].present
  BY DEF CreateMedia
<1>2. /\ S \subseteq MediaIds /\ IsFiniteSet(S)
      /\ Cardinality(S) \in 0..Cardinality(MediaIds) /\ m \notin S
  BY <1>1, GalleryFacts DEF GalleryOf
<1>3. /\ new.present /\ new.gallery = g /\ new.order = Cardinality(S)
      /\ new.primary = (first \/ primary)
      /\ new \in [present: BOOLEAN, gallery: Galleries,
                  order: 0..Cardinality(MediaIds), primary: BOOLEAN]
  BY <1>2
<1>4. /\ base \in [MediaIds -> [present: BOOLEAN, gallery: Galleries,
                                order: 0..Cardinality(MediaIds), primary: BOOLEAN]]
      /\ \A k \in MediaIds :
             /\ base[k].present = media[k].present
             /\ base[k].gallery = media[k].gallery
             /\ base[k].order = media[k].order
             /\ k \notin S => base[k] = media[k]
             /\ k \in S => base[k].primary = (media[k].primary /\ ~primary)
  BY UnmarkedRows DEF MediaInv, MediaType
<1> HIDE DEF base, new
<1>5. media'[m] = new /\ \A k \in MediaIds \ {m} : media'[k] = base[k]
  BY <1>1, <1>4
<1>6. MediaType'
  BY <1>1, <1>3, <1>4 DEF MediaType
<1>7. ASSUME NEW h \in Galleries, h # g
      PROVE  InOrder(h)'
  <2>1. GalleryOf(h)' = GalleryOf(h) /\ GalleryOf(h) \cap S = {} /\ m \notin GalleryOf(h)
    BY <1>1, <1>3, <1>4, <1>5, <1>7 DEF GalleryOf
  <2>2. \A k \in GalleryOf(h) : media'[k] = media[k]
    BY <1>4, <1>5, <2>1 DEF GalleryOf
  <2> QED
    BY <2>1, <2>2, GalleryUntouched DEF MediaInv
<1>8. InOrder(g)'
  <2> DEFINE f == [k \in MediaIds |-> media[k].order]
             h == [k \in MediaIds |-> media'[k].order]
  <2>1. GalleryOf(g)' = S \cup {m}
    BY <1>1, <1>3, <1>4, <1>5 DEF GalleryOf
  <2>2. Numbered(S, f)
    BY <1>2, GalleryNumbered DEF MediaInv, InOrder
  <2>3. h[m] = Cardinality(S) /\ \A n \in S : h[n] = f[n]
    BY <1>2, <1>3, <1>4, <1>5
  <2> HIDE DEF f
  <2>4. Numbered(S \cup {m}, h)
    <3> HIDE DEF h, S
    <3> QED
      BY <1>2, <2>2, <2>3, NumberedWith
  <2>5. {media'[k].order : k \in S \cup {m}} = {h[k] : k \in S \cup {m}}
    BY <1>2
  <2>6. OnePrimary(g)'
    <3>1. CASE first
      <4>1. PrimaryOf(g)' = {m}
        BY <1>3, <1>5, <2>1, <3>1 DEF PrimaryOf
      <4> QED
        BY <4>1 DEF OnePrimary
    <3>2. CASE primary /\ ~first
      <4>1. PrimaryOf(g)' = {m}
        BY <1>2, <1>3, <1>4, <1>5, <2>1, <3>2 DEF PrimaryOf
      <4> QED
        BY <4>1 DEF OnePrimary
    <3>3. CASE ~primary /\ ~first
      <4>1. PrimaryOf(g)' = PrimaryOf(g)
        BY <1>2, <1>3, <1>4, <1>5, <2>1, <3>3 DEF PrimaryOf, MediaInv, MediaType
      <4> QED
        BY <3>3, <4>1 DEF OnePrimary, MediaInv, InOrder
    <3> QED
      BY <3>1, <3>2, <3>3
  <2> QED
    BY <2>1, <2>4, <2>5, <2>6 DEF InOrder, Numbered
<1> QED
  BY <1>6, <1>7, <1>8 DEF MediaInv, Galleries

LEMMA SetPrimaryMediaKeeps ==
    ASSUME MediaInv, NEW m \in MediaIds, SetPrimaryMedia(m)
    PROVE  MediaInv'
<1>0. PICK g : g = media[m].gallery
  OBVIOUS
<1> DEFINE base == Unmarked(g)
           new == [media[m] EXCEPT !.primary = TRUE]
<1>1. media' = [base EXCEPT ![m] = new] /\ media[m].present /\ g \in Galleries
  BY <1>0 DEF SetPrimaryMedia, MediaInv, MediaType
<1>2. /\ new.present /\ new.gallery = g /\ new.order = media[m].order /\ new.primary
      /\ new \in [present: BOOLEAN, gallery: Galleries,
                  order: 0..Cardinality(MediaIds), primary: BOOLEAN]
  BY <1>0, <1>1 DEF MediaInv, MediaType
<1>3. /\ base \in [MediaIds -> [present: BOOLEAN, gallery: Galleries,
                                order: 0..Cardinality(MediaIds), primary: BOOLEAN]]
      /\ \A k \in MediaIds :
             /\ base[k].present = media[k].present
             /\ base[k].gallery = media[k].gallery
             /\ base[k].order = media[k].order
             /\ k \in GalleryOf(g) => base[k].primary = FALSE
             /\ k \notin GalleryOf(g) => base[k] = media[k]
  BY UnmarkedRows DEF MediaInv
<1>4. m \in GalleryOf(g)
  BY <1>0, <1>1 DEF GalleryOf
<1> HIDE DEF base, new
<1>5. media'[m] = new /\ \A k \in MediaIds \ {m} : media'[k] = base[k]
  BY <1>1, <1>3
<1>6. MediaType'
  BY <1>1, <1>2, <1>3 DEF MediaType
<1>7. \A k \in MediaIds : /\ media'[k].present = media[k].present
                          /\ media'[k].gallery = media[k].gallery
                          /\ media'[k].order = media[k].order
  BY <1>0, <1>1, <1>2, <1>3, <1>5
<1>8. \A h : GalleryOf(h)' = GalleryOf(h)
  BY <1>7 DEF GalleryOf
<1>9. ASSUME NEW h \in Galleries, h # g
      PROVE  InOrder(h)'
  <2>1. GalleryOf(h) \cap GalleryOf(g) = {}
    BY <1>9 DEF GalleryOf
  <2>2. \A k \in GalleryOf(h) : media'[k] = media[k]
    BY <1>3, <1>4, <1>5, <2>1, GalleryFacts
  <2> QED
    BY <1>8, <2>2, GalleryUntouched DEF MediaInv
<1>10. InOrder(g)'
  <2>1. {media'[k].order : k \in GalleryOf(g)} = {media[k].order : k \in GalleryOf(g)}
    BY <1>7, GalleryFacts
  <2>2. PrimaryOf(g)' = {m}
    BY <1>2, <1>3, <1>4, <1>5, <1>8, GalleryFacts DEF PrimaryOf
  <2>3. InOrder(g)
    BY <1>1 DEF MediaInv
  <2> QED
    BY <1>8, <2>1, <2>2, <2>3 DEF InOrder, OnePrimary
<1> QED
  BY <1>6, <1>9, <1>10 DEF MediaInv, Galleries

LEMMA ReorderMediaKeeps ==
    ASSUME MediaInv, NEW g \in Galleries, NEW position \in Orderings(GalleryOf(g)),
           ReorderMedia(g, position)
    PROVE  MediaInv'
<1> DEFINE S == GalleryOf(g)
<1>1. /\ DOMAIN position = S
      /\ media' = [m \in MediaIds |-> IF m \in S THEN [media[m] EXCEPT !.order = position[m]]
                                      ELSE media[m]]
  BY DEF ReorderMedia, Orderings
<1>2. /\ S \subseteq MediaIds /\ IsFiniteSet(S)
      /\ Cardinality(S) \in 0..Cardinality(MediaIds) /\ Cardinality(MediaIds) \in Nat
  BY GalleryFacts
<1>3. Numbered(S, position)
  BY <1>2, OrderingNumbers
<1>4. \A m \in S : position[m] \in 0..Cardinality(MediaIds)
  BY <1>2 DEF Orderings
<1>5. /\ \A m \in MediaIds \ S : media'[m] = media[m]
      /\ \A m \in S : media'[m].order = position[m]
      /\ \A m \in MediaIds : /\ media'[m].present = media[m].present
                             /\ media'[m].gallery = media[m].gallery
                             /\ media'[m].primary = media[m].primary
      /\ MediaType'
  BY <1>1, <1>2, <1>4 DEF MediaInv, MediaType
<1>6. \A h : GalleryOf(h)' = GalleryOf(h) /\ PrimaryOf(h)' = PrimaryOf(h)
  BY <1>5 DEF GalleryOf, PrimaryOf
<1>7. ASSUME NEW h \in Galleries, h # g
      PROVE  InOrder(h)'
  <2>1. \A k \in GalleryOf(h) : k \in MediaIds \ S
    BY <1>7 DEF GalleryOf
  <2> QED
    BY <1>5, <1>6, <2>1, GalleryUntouched DEF MediaInv
<1>8. InOrder(g)'
  <2>1. {media'[k].order : k \in S} = {position[k] : k \in S}
    BY <1>5
  <2>2. OnePrimary(g)'
    BY <1>6 DEF OnePrimary, MediaInv, InOrder
  <2> QED
    BY <1>3, <1>6, <2>1, <2>2 DEF InOrder, Numbered
<1> QED
  BY <1>5, <1>7, <1>8 DEF MediaInv, Galleries
LEMMA DeleteMediaKeeps ==
    ASSUME MediaInv, NEW m \in MediaIds, DeleteMedia(m)
    PROVE  MediaInv'
<1>0. PICK g : g = media[m].gallery
  OBVIOUS
<1> DEFINE S == GalleryOf(g)
           R == S \ {m}
           place(n) == Cardinality({k \in R : media[k].order < media[n].order})
           f == [k \in MediaIds |-> media[k].order]
           h == [k \in MediaIds |-> place(k)]
<1>1. /\ media' = [n \in MediaIds |->
             IF n = m THEN NoMedia
             ELSE IF n \in R THEN [media[n] EXCEPT !.order = place(n),
                                        !.primary = @ \/ (media[m].primary /\ place(n) = 0)]
             ELSE media[n]]
      /\ media[m].present /\ g \in Galleries /\ m \in S
  BY <1>0 DEF DeleteMedia, PlaceWithout, MediaInv, MediaType, GalleryOf
<1>2. /\ S \subseteq MediaIds /\ IsFiniteSet(S) /\ IsFiniteSet(R) /\ R \subseteq MediaIds
      /\ Cardinality(S) \in 0..Cardinality(MediaIds) /\ Cardinality(MediaIds) \in Nat
      /\ Cardinality(R) = Cardinality(S) - 1
  BY <1>1, GalleryFacts, FS_RemoveElement
<1>3. Numbered(S, f)
  BY <1>1, <1>2, GalleryNumbered DEF MediaInv, InOrder
<1>4. \A n \in R : h[n] = Cardinality({k \in R : f[k] < f[n]})
  <2>1. TAKE n \in R
  <2>2. {k \in R : media[k].order < media[n].order} = {k \in R : f[k] < f[n]}
    BY <1>2
  <2> QED
    BY <1>2, <2>2
<1>5. Numbered(R, h)
  <2>1. IsFiniteSet(S) /\ m \in S
    BY <1>1, <1>2
  <2> HIDE DEF f, h, S
  <2>2. PlacedWithout(S, m, f, h)
    BY <1>4 DEF PlacedWithout
  <2> QED
    BY <2>1, <2>2, <1>3, NumberedWithout
<1>6. \A n \in R : h[n] = place(n) /\ place(n) \in 0..Cardinality(R) - 1
  BY <1>2, <1>5 DEF Numbered
<1> HIDE DEF place, f, h
<1>7. /\ media'[m] = NoMedia /\ ~NoMedia.present
      /\ \A n \in R : /\ media'[n].present = media[n].present
                      /\ media'[n].gallery = media[n].gallery
                      /\ media'[n].order = place(n)
                      /\ media'[n].primary = (media[n].primary \/ (media[m].primary /\ place(n) = 0))
      /\ \A n \in MediaIds \ S : media'[n] = media[n]
  BY <1>1, <1>2 DEF MediaInv, MediaType, NoMedia
<1>14. MediaType'
  <2> DEFINE Medium == [present: BOOLEAN, gallery: Galleries,
                        order: 0..Cardinality(MediaIds), primary: BOOLEAN]
  <2>1. NoMedia \in Medium
    BY <1>2 DEF NoMedia, Galleries
  <2>2. ASSUME NEW n \in R
        PROVE  media'[n] \in Medium
    <3>1. place(n) \in 0..Cardinality(MediaIds)
      BY <1>2, <1>6, <2>2
    <3>2. media'[n] = [media[n] EXCEPT !.order = place(n),
                           !.primary = @ \/ (media[m].primary /\ place(n) = 0)]
      BY <1>1, <1>2, <2>2
    <3>3. media[n] \in Medium
      BY <1>2, <2>2 DEF MediaInv, MediaType
    <3>4. (media[n].primary \/ (media[m].primary /\ place(n) = 0)) \in BOOLEAN
      OBVIOUS
    <3> QED
      BY <3>1, <3>2, <3>3, <3>4
  <2>3. \A n \in MediaIds : media'[n] \in Medium
    BY <1>1, <1>2, <1>7, <2>1, <2>2 DEF MediaInv, MediaType
  <2> QED
    BY <1>1, <2>3 DEF MediaType
<1>8. ASSUME NEW o, o # g
      PROVE  GalleryOf(o)' = GalleryOf(o) /\ \A k \in GalleryOf(o) : media'[k] = media[k]
  <2>1. \A k \in GalleryOf(o) : k \in MediaIds \ S
    BY <1>8 DEF GalleryOf
  <2>2. \A k \in S : k \notin GalleryOf(o)'
    BY <1>1, <1>7, <1>8 DEF GalleryOf, NoMedia
  <2> QED
    BY <1>7, <2>1, <2>2, GalleryFacts DEF GalleryOf
<1>9. ASSUME NEW o \in Galleries, o # g
      PROVE  InOrder(o)'
  BY <1>8, <1>9, GalleryUntouched DEF MediaInv
<1>10. GalleryOf(g)' = R
  <2>1. \A n \in R : n \in GalleryOf(g)'
    BY <1>2, <1>7 DEF GalleryOf
  <2>2. \A n \in GalleryOf(g)' : n # m /\ n \in S
    BY <1>7 DEF GalleryOf
  <2> QED
    BY <2>1, <2>2
<1>11. {media'[k].order : k \in R} = 0..Cardinality(R) - 1
  <2>1. {media'[k].order : k \in R} = {h[k] : k \in R}
    BY <1>6, <1>7
  <2> QED
    BY <1>5, <2>1 DEF Numbered
<1>12. OnePrimary(g)'
  <2>1. PICK p : PrimaryOf(g) = {p}
    BY <1>1 DEF MediaInv, InOrder, OnePrimary
  <2>2. CASE R = {}
    BY <1>10, <2>2 DEF OnePrimary
  <2>3. CASE R # {} /\ p = m
    <3>1. \A n \in R : media[n].primary = FALSE
      BY <1>1, <1>2, <2>1, <2>3 DEF PrimaryOf, MediaInv, MediaType
    <3>2. media[m].primary
      BY <2>1, <2>3 DEF PrimaryOf
    <3>3. Cardinality(R) \in Nat /\ Cardinality(R) # 0
      BY <1>2, <2>3, FS_CardinalityType, FS_EmptySet
    <3>4. PICK n \in R : h[n] = 0
      BY <1>5, <3>3 DEF Numbered
    <3>5. \A k \in R : h[k] = 0 => k = n
      <4> HIDE DEF S
      <4> QED
        BY <1>2, <1>5, <3>4, NumberedApart
    <3>6. ASSUME NEW k \in R
          PROVE  media'[k].primary <=> h[k] = 0
      <4>1. h[k] = place(k) /\ media[k].primary = FALSE
        BY <1>6, <3>1
      <4>2. media'[k].primary = (media[k].primary \/ (media[m].primary /\ place(k) = 0))
        BY <1>7
      <4> QED
        BY <4>1, <4>2, <3>2, Zenon
    <3>7. PrimaryOf(g)' = {k \in R : media'[k].primary}
      BY <1>10 DEF PrimaryOf
    <3>8. \A k \in R : media'[k].primary <=> k = n
      BY <3>4, <3>5, <3>6
    <3>9. PrimaryOf(g)' = {n}
      <4> HIDE DEF R, h
      <4> QED
        BY <3>4, <3>7, <3>8
    <3> QED
      BY <3>9 DEF OnePrimary
  <2>4. CASE p # m
    <3>1. media[m].primary = FALSE
      BY <1>1, <2>1, <2>4 DEF PrimaryOf, MediaInv, MediaType
    <3>2. PrimaryOf(g)' = {p}
      BY <1>1, <1>7, <1>10, <2>1, <2>4, <3>1 DEF PrimaryOf
    <3> QED
      BY <3>2 DEF OnePrimary
  <2> QED
    BY <2>2, <2>3, <2>4
<1>13. InOrder(g)'
  BY <1>10, <1>11, <1>12 DEF InOrder
<1> QED
  BY <1>9, <1>13, <1>14 DEF MediaInv

\* A variant goes with its gallery.
LEMMA ForgetGallery ==
    ASSUME MediaInv, NEW v \in VariantIds,
           media' = [m \in MediaIds |-> IF m \in GalleryOf(v) THEN NoMedia ELSE media[m]]
    PROVE  MediaInv'
<1>1. MediaType' /\ v # General
  BY CatalogParameters, GalleryFacts DEF MediaInv, MediaType, NoMedia, Galleries
<1>2. ASSUME NEW g \in Galleries, g # v
      PROVE  InOrder(g)'
  <2>1. GalleryOf(g)' = GalleryOf(g) /\ \A k \in GalleryOf(g) : media'[k] = media[k]
    BY <1>2 DEF GalleryOf, NoMedia
  <2> QED
    BY <2>1, GalleryUntouched DEF MediaInv
<1>3. GalleryOf(v)' = {}
  BY DEF GalleryOf, NoMedia
<1>4. InOrder(v)'
  BY <1>3, FS_EmptySet DEF InOrder, OnePrimary
<1> QED
  BY <1>1, <1>2, <1>4 DEF MediaInv, Galleries

LEMMA NoGalleries ==
    ASSUME media = [m \in MediaIds |-> NoMedia]
    PROVE  MediaInv
<1>1. IsFiniteSet(MediaIds) /\ Cardinality(MediaIds) \in Nat
  BY CatalogParameters, FS_CardinalityType
<1>2. MediaType
  BY <1>1 DEF MediaType, NoMedia, Galleries
<1>3. \A g : GalleryOf(g) = {}
  BY DEF GalleryOf, NoMedia
<1> QED
  BY <1>2, <1>3, FS_EmptySet DEF MediaInv, InOrder, OnePrimary

-----------------------------------------------------------------------------
(* Options, and the variants made of their values. *)

OptionsType ==
    /\ Options \subseteq OptionIds /\ optionCode \in [Options -> ValueCodes]
    /\ DOMAIN values = Options
    /\ \A o \in Options : HasCodes(values[o])

VariantType ==
    variant \in [VariantIds -> [present: BOOLEAN, active: BOOLEAN, default: BOOLEAN,
                                links: SUBSET (OptionIds \X ValueIds),
                                key: SUBSET (ValueCodes \X ValueCodes)]]

LinksResolve(links) ==
    \A link \in links : link[1] \in Options /\ link[2] \in DOMAIN values[link[1]]

LEMMA CombinationType ==
    ASSUME OptionsType, NEW links, LinksResolve(links)
    PROVE  Combination(links) \subseteq ValueCodes \X ValueCodes
BY DEF OptionsType, LinksResolve, Combination, HasCodes

\* Combinations go by the codes of what they link.
LEMMA CombinationKept ==
    ASSUME NEW links,
           \A link \in links : /\ optionCode'[link[1]] = optionCode[link[1]]
                               /\ values'[link[1]][link[2]] = values[link[1]][link[2]]
    PROVE  Combination(links)' = Combination(links)
BY DEF Combination

\* The options may change around the variants that are linked to them.
LEMMA OptionsAround ==
    ASSUME VariantsResolve, variant' = variant,
           \A v \in Present : \A link \in variant[v].links :
               /\ link[1] \in Options' /\ link[2] \in DOMAIN values'[link[1]]
               /\ optionCode'[link[1]] = optionCode[link[1]]
               /\ values'[link[1]][link[2]] = values[link[1]][link[2]]
    PROVE  VariantsResolve'
<1>1. Present' = Present
  BY DEF Present
<1>2. ASSUME NEW v \in Present
      PROVE  /\ \A link \in variant'[v].links :
                    link[1] \in Options' /\ link[2] \in DOMAIN values'[link[1]]
             /\ variant'[v].key = Combination(variant[v].links)'
  <2>1. PICK links : links = variant[v].links
    OBVIOUS
  <2>2. Combination(links)' = Combination(links)
    BY <2>1, CombinationKept
  <2> QED
    BY <2>1, <2>2 DEF VariantsResolve, Combination
<1> QED
  BY <1>1, <1>2 DEF VariantsResolve

\* Variants are written, those of N, and the others keep what they are made of.
LEMMA VariantsWritten ==
    ASSUME VariantsResolve, UNCHANGED <<optionCode, values>>, NEW N \in SUBSET VariantIds,
           \A w \in VariantIds \ N : variant'[w].present =>
               /\ w \in Present
               /\ variant'[w].links = variant[w].links /\ variant'[w].key = variant[w].key
               /\ variant'[w].default => variant[w].default,
           \A n \in N : /\ LinksResolve(variant'[n].links)
                        /\ variant'[n].key = {<<optionCode[link[1]], values[link[1]][link[2]]>> :
                                                link \in variant'[n].links},
           \A n \in N, w \in Present \ N :
               /\ variant[w].key # variant'[n].key
               /\ ~(variant'[n].default /\ variant'[w].default),
           \A n, k \in N : n # k => /\ variant'[n].links # variant'[k].links
                                    /\ ~(variant'[n].default /\ variant'[k].default)
    PROVE  VariantsResolve'
<1>1. Present' \subseteq VariantIds /\ \A w \in Present' : variant'[w].present
  BY DEF Present
<1>2. Present' \ N \subseteq Present /\ Options' = Options
  BY <1>1 DEF Options
<1>3. ASSUME NEW w \in Present' \ N
      PROVE  /\ w \in Present
             /\ variant'[w].links = variant[w].links /\ variant'[w].key = variant[w].key
             /\ variant'[w].default => variant[w].default
  BY <1>1, <1>3
<1>4. ASSUME NEW v \in Present'
      PROVE  /\ \A link \in variant'[v].links :
                    link[1] \in Options' /\ link[2] \in DOMAIN values'[link[1]]
             /\ variant'[v].key = {<<optionCode'[link[1]], values'[link[1]][link[2]]>> :
                                     link \in variant'[v].links}
  <2>1. CASE v \in N
    BY <1>2, <2>1 DEF LinksResolve
  <2>2. CASE v \notin N
    BY <1>2, <1>3, <2>2 DEF VariantsResolve, Combination
  <2> QED
    BY <2>1, <2>2
<1>5. ASSUME NEW v \in Present', NEW w \in Present', variant'[v].links = variant'[w].links
      PROVE  variant'[v].key = variant'[w].key
  <2>1. PICK links : links = variant'[v].links
    OBVIOUS
  <2>2. /\ variant'[v].key = {<<optionCode'[link[1]], values'[link[1]][link[2]]>> : link \in links}
        /\ variant'[w].key = {<<optionCode'[link[1]], values'[link[1]][link[2]]>> : link \in links}
    BY <1>4, <1>5, <2>1, Zenon
  <2> QED
    BY <2>2
<1>6. ASSUME NEW v \in Present', NEW w \in Present', v # w
      PROVE  /\ variant'[v].links # variant'[w].links
             /\ ~(variant'[v].default /\ variant'[w].default)
  <2>1. CASE v \in N /\ w \in N
    BY <1>6, <2>1
  <2>2. CASE v \in N /\ w \notin N
    BY <1>2, <1>3, <1>5, <2>2
  <2>3. CASE v \notin N /\ w \in N
    BY <1>2, <1>3, <1>5, <2>3
  <2>4. CASE v \notin N /\ w \notin N
    BY <1>3, <1>6, <2>4 DEF VariantsResolve
  <2> QED
    BY <2>1, <2>2, <2>3, <2>4
<1> QED
  BY <1>4, <1>6 DEF VariantsResolve, Combination

LEMMA LinksType ==
    ASSUME OptionsType, NEW links \in Links
    PROVE  links \in SUBSET (OptionIds \X ValueIds)
BY DEF OptionsType, Links

LEMMA PreparedResolves ==
    ASSUME NEW others, NEW links, NEW default, NEW active,
           Prepared(others, links, default, active)
    PROVE  /\ LinksResolve(links) /\ \A w \in others : variant[w].key # Combination(links)
BY DEF Prepared, Simple, Complete, KeyFree, LinksResolve

LEMMA UndefaultedRows ==
    ASSUME VariantType
    PROVE  /\ Undefaulted \in [VariantIds -> [present: BOOLEAN, active: BOOLEAN, default: BOOLEAN,
                                  links: SUBSET (OptionIds \X ValueIds),
                                  key: SUBSET (ValueCodes \X ValueCodes)]]
           /\ \A w \in VariantIds :
                  /\ Undefaulted[w].present = variant[w].present
                  /\ Undefaulted[w].links = variant[w].links
                  /\ Undefaulted[w].key = variant[w].key
                  /\ Undefaulted[w].default = FALSE
BY DEF VariantType, Undefaulted

LEMMA StoredRow ==
    ASSUME OptionsType, NEW links \in SUBSET (OptionIds \X ValueIds), LinksResolve(links),
           NEW default \in BOOLEAN, NEW active \in BOOLEAN
    PROVE  /\ Stored(links, default, active) \in
                  [present: BOOLEAN, active: BOOLEAN, default: BOOLEAN,
                   links: SUBSET (OptionIds \X ValueIds), key: SUBSET (ValueCodes \X ValueCodes)]
           /\ Stored(links, default, active).links = links
           /\ Stored(links, default, active).default = default
           /\ Stored(links, default, active).key
                  = {<<optionCode[link[1]], values[link[1]][link[2]]>> : link \in links}
<1>1. Combination(links) \in SUBSET (ValueCodes \X ValueCodes)
  BY CombinationType
<1> QED
  BY <1>1 DEF Stored, Combination

VariantInv == OptionsType /\ VariantType /\ VariantsResolve

\* createVariant and updateVariant.
LEMMA PersistKeeps ==
    ASSUME VariantInv, UNCHANGED <<optionCode, values>>, NEW v \in VariantIds,
           NEW links \in Links, NEW given, NEW default \in BOOLEAN, NEW active \in BOOLEAN,
           Prepared(Present \ {v}, links, given, active),
           Persist(v, links, default, active)
    PROVE  VariantInv'
<1> DEFINE base == IF default THEN Undefaulted ELSE variant
           new == Stored(links, default, active)
<1>1. variant' = [base EXCEPT ![v] = new]
  BY DEF Persist
<1>2. /\ base \in [VariantIds -> [present: BOOLEAN, active: BOOLEAN, default: BOOLEAN,
                                 links: SUBSET (OptionIds \X ValueIds),
                                 key: SUBSET (ValueCodes \X ValueCodes)]]
      /\ \A w \in VariantIds :
             /\ base[w].present = variant[w].present /\ base[w].links = variant[w].links
             /\ base[w].key = variant[w].key
             /\ base[w].default => variant[w].default /\ ~default
  BY UndefaultedRows DEF VariantInv, VariantType
<1>3. LinksResolve(links) /\ \A w \in Present \ {v} : variant[w].key # Combination(links)
  BY PreparedResolves
<1>4. /\ new \in [present: BOOLEAN, active: BOOLEAN, default: BOOLEAN,
                 links: SUBSET (OptionIds \X ValueIds), key: SUBSET (ValueCodes \X ValueCodes)]
      /\ new.links = links /\ new.default = default
      /\ new.key = {<<optionCode[link[1]], values[link[1]][link[2]]>> : link \in links}
  BY <1>3, LinksType, StoredRow DEF VariantInv
<1> HIDE DEF base, new
<1>5. variant'[v] = new /\ \A w \in VariantIds \ {v} : variant'[w] = base[w]
  BY <1>1, <1>2
<1>6. VariantType'
  BY <1>1, <1>2, <1>4 DEF VariantType
<1>7. OptionsType'
  BY DEF VariantInv, OptionsType, Options
<1>8. \A w \in VariantIds \ {v} : variant'[w].present =>
          /\ w \in Present
          /\ variant'[w].links = variant[w].links /\ variant'[w].key = variant[w].key
          /\ variant'[w].default => variant[w].default
  BY <1>2, <1>5 DEF Present
<1>9. \A w \in Present \ {v} : variant[w].key # new.key /\ ~(default /\ variant'[w].default)
  BY <1>2, <1>3, <1>4, <1>5 DEF Combination, Present
<1>10. VariantsResolve'
  <2>1. PICK N \in SUBSET VariantIds : N = {v}
    OBVIOUS
  <2>2. LinksResolve(variant'[v].links)
    BY <1>3, <1>4, <1>5
  <2>3. variant'[v].key = {<<optionCode[link[1]], values[link[1]][link[2]]>> :
                             link \in variant'[v].links}
    BY <1>4, <1>5
  <2>4. \A n \in N, w \in Present \ N : /\ variant[w].key # variant'[n].key
                                       /\ ~(variant'[n].default /\ variant'[w].default)
    BY <1>4, <1>5, <1>9, <2>1
  <2>5. /\ \A w \in VariantIds \ N : w \in VariantIds \ {v}
        /\ \A n \in N : n = v
    BY <2>1
  <2>6. VariantsResolve
    BY DEF VariantInv
  <2>7. \A w \in VariantIds \ N : variant'[w].present =>
            /\ w \in Present
            /\ variant'[w].links = variant[w].links /\ variant'[w].key = variant[w].key
            /\ variant'[w].default => variant[w].default
    BY <1>8, <2>5
  <2>8. \A n \in N : /\ LinksResolve(variant'[n].links)
                     /\ variant'[n].key = {<<optionCode[link[1]], values[link[1]][link[2]]>> :
                                             link \in variant'[n].links}
    BY <2>2, <2>3, <2>5
  <2>9. \A n, k \in N : n # k => /\ variant'[n].links # variant'[k].links
                                 /\ ~(variant'[n].default /\ variant'[k].default)
    BY <2>5
  <2> QED
    BY <2>4, <2>6, <2>7, <2>8, <2>9, VariantsWritten
<1> QED
  BY <1>6, <1>7, <1>10 DEF VariantInv

\* What a link of a variant is.
LEMMA LinkFacts ==
    ASSUME VariantInv, NEW v \in Present, NEW link \in variant[v].links
    PROVE  /\ link = <<link[1], link[2]>> /\ link[2] \in ValueIds
           /\ link[1] \in Options /\ link[2] \in DOMAIN values[link[1]]
BY DEF VariantInv, VariantType, VariantsResolve, Present

LEMMA OptionFacts ==
    ASSUME OptionsType, NEW o \in Options
    PROVE  /\ o \in OptionIds /\ optionCode[o] \in ValueCodes
           /\ DOMAIN values[o] \subseteq ValueIds /\ HasCodes(values[o])
           /\ \A w \in DOMAIN values[o] : values[o][w] \in ValueCodes
BY DEF OptionsType, HasCodes

LEMMA CodedType ==
    ASSUME NEW codes, HasCodes(codes), NEW w \in ValueIds, NEW c \in ValueCodes
    PROVE  HasCodes(Coded(codes, w, c)) /\ HasCodes(Uncoded(codes, w))
BY DEF HasCodes, Coded, Uncoded

LEMMA NoEntriesType == HasCodes(NoEntries) /\ DOMAIN NoEntries = {}
BY DEF HasCodes, NoEntries

LEMMA CreateOptionKeeps ==
    ASSUME VariantInv, NEW o \in OptionIds, NEW c \in ValueCodes, CreateOption(o, c)
    PROVE  VariantInv'
<1>1. /\ o \notin Options /\ variant' = variant
      /\ optionCode' = Coded(optionCode, o, c)
      /\ values' = [p \in Options \cup {o} |-> IF p = o THEN NoEntries ELSE values[p]]
  BY DEF CreateOption
<1>2. /\ Options' = Options \cup {o} /\ optionCode'[o] = c
      /\ \A p \in Options : optionCode'[p] = optionCode[p] /\ values'[p] = values[p]
      /\ DOMAIN values' = Options' /\ values'[o] = NoEntries
      /\ optionCode' = [p \in Options' |-> optionCode'[p]]
  BY <1>1 DEF Options, Coded
<1>3. OptionsType'
  <2>1. \A p \in Options' : HasCodes(values'[p])
    BY <1>2, NoEntriesType, OptionFacts DEF VariantInv
  <2>2. \A p \in Options' : optionCode'[p] \in ValueCodes /\ p \in OptionIds
    BY <1>2, OptionFacts DEF VariantInv
  <2> QED
    BY <1>2, <2>1, <2>2 DEF OptionsType, HasCodes
<1>4. VariantsResolve'
  BY <1>1, <1>2, LinkFacts, OptionsAround DEF VariantInv
<1> QED
  BY <1>1, <1>3, <1>4 DEF VariantInv, VariantType

LEMMA RenameOptionKeeps ==
    ASSUME VariantInv, NEW o \in OptionIds, NEW c \in ValueCodes, RenameOption(o, c)
    PROVE  VariantInv'
<1>1. /\ o \in Options /\ variant' = variant /\ values' = values
      /\ optionCode' = Coded(optionCode, o, c)
      /\ c = optionCode[o] \/ ~Linked(o)
  BY DEF RenameOption
<1>2. /\ Options' = Options /\ optionCode'[o] = c
      /\ \A p \in Options : p # o => optionCode'[p] = optionCode[p]
      /\ optionCode' = [p \in Options' |-> optionCode'[p]]
  BY <1>1 DEF Options, Coded
<1>3. OptionsType'
  <2>1. \A p \in Options' : optionCode'[p] \in ValueCodes
    BY <1>2, OptionFacts DEF VariantInv
  <2> QED
    BY <1>1, <1>2, <2>1 DEF OptionsType, HasCodes, VariantInv
<1>4. \A v \in Present : \A link \in variant[v].links : optionCode'[link[1]] = optionCode[link[1]]
  <2>1. TAKE v \in Present
  <2>2. TAKE link \in variant[v].links
  <2>3. CASE link[1] # o
    BY <1>2, <2>3, LinkFacts
  <2>4. CASE link[1] = o
    <3>1. Linked(o)
      BY <2>4, LinkFacts DEF Linked
    <3> QED
      BY <1>1, <1>2, <2>4, <3>1
  <2> QED
    BY <2>3, <2>4
<1>5. VariantsResolve'
  BY <1>1, <1>2, <1>4, LinkFacts, OptionsAround DEF VariantInv
<1> QED
  BY <1>1, <1>3, <1>5 DEF VariantInv, VariantType

LEMMA RemoveOptionKeeps ==
    ASSUME VariantInv, NEW o \in OptionIds, RemoveOption(o)
    PROVE  VariantInv'
<1>1. /\ o \in Options /\ ~Linked(o) /\ variant' = variant
      /\ optionCode' = Uncoded(optionCode, o)
      /\ values' = [p \in Options \ {o} |-> values[p]]
  BY DEF RemoveOption
<1>2. /\ Options' = Options \ {o}
      /\ \A p \in Options' : optionCode'[p] = optionCode[p] /\ values'[p] = values[p]
      /\ DOMAIN values' = Options'
      /\ optionCode' = [p \in Options' |-> optionCode'[p]]
  BY <1>1 DEF Options, Uncoded
<1>3. OptionsType'
  <2>1. \A p \in Options' : p \in OptionIds /\ optionCode'[p] \in ValueCodes /\ HasCodes(values'[p])
    BY <1>2, OptionFacts DEF VariantInv
  <2> QED
    BY <1>2, <2>1 DEF OptionsType, HasCodes
<1>4. \A v \in Present : \A link \in variant[v].links : link[1] # o
  BY <1>1, LinkFacts DEF Linked
<1>5. VariantsResolve'
  BY <1>1, <1>2, <1>4, LinkFacts, OptionsAround DEF VariantInv
<1> QED
  BY <1>1, <1>3, <1>5 DEF VariantInv, VariantType

\* createOptionValue, updateOptionValue and removeOptionValue write one option's
\* values; what is linked keeps its code.
LEMMA ValuesWritten ==
    ASSUME VariantInv, NEW o \in Options, NEW codes, HasCodes(codes),
           values' = [values EXCEPT ![o] = codes], UNCHANGED <<optionCode, variant>>,
           \A v \in Present, w \in DOMAIN values[o] :
               <<o, w>> \in variant[v].links => w \in DOMAIN codes /\ codes[w] = values[o][w]
    PROVE  VariantInv'
<1>1. /\ Options' = Options /\ DOMAIN values' = Options' /\ values'[o] = codes
      /\ \A p \in Options : p # o => values'[p] = values[p]
  BY DEF Options, VariantInv, OptionsType
<1>2. OptionsType'
  <2>1. \A p \in Options' : HasCodes(values'[p])
    BY <1>1 DEF VariantInv, OptionsType
  <2> QED
    BY <1>1, <2>1 DEF OptionsType, VariantInv, HasCodes
<1>3. \A v \in Present : \A link \in variant[v].links :
          link[2] \in DOMAIN values'[link[1]] /\ values'[link[1]][link[2]] = values[link[1]][link[2]]
  <2>1. TAKE v \in Present
  <2>2. TAKE link \in variant[v].links
  <2>3. CASE link[1] # o
    BY <1>1, <2>3, LinkFacts
  <2>4. CASE link[1] = o
    BY <1>1, <2>4, LinkFacts
  <2> QED
    BY <2>3, <2>4
<1>4. VariantsResolve'
  BY <1>1, <1>3, LinkFacts, OptionsAround DEF VariantInv
<1> QED
  BY <1>2, <1>4 DEF VariantInv, VariantType

LEMMA OptionStepKeeps ==
    ASSUME VariantInv, OptionStep
    PROVE  VariantInv'
<1>1. ASSUME NEW o \in OptionIds, NEW w \in ValueIds, NEW c \in ValueCodes, CreateOptionValue(o, w, c)
      PROVE  VariantInv'
  <2>1. /\ o \in Options /\ w \notin DOMAIN values[o] /\ UNCHANGED <<optionCode, variant>>
        /\ values' = [values EXCEPT ![o] = Coded(values[o], w, c)]
    BY <1>1 DEF CreateOptionValue
  <2>2. HasCodes(Coded(values[o], w, c))
    BY <2>1, OptionFacts, CodedType DEF VariantInv
  <2>3. \A x \in DOMAIN values[o] : /\ x \in DOMAIN Coded(values[o], w, c)
                                    /\ Coded(values[o], w, c)[x] = values[o][x]
    BY <2>1 DEF Coded
  <2> QED
    BY <2>1, <2>2, <2>3, ValuesWritten
<1>2. ASSUME NEW o \in OptionIds, NEW w \in ValueIds, NEW c \in ValueCodes, RenameOptionValue(o, w, c)
      PROVE  VariantInv'
  <2>1. /\ o \in Options /\ w \in DOMAIN values[o] /\ UNCHANGED <<optionCode, variant>>
        /\ values' = [values EXCEPT ![o] = Coded(values[o], w, c)]
        /\ c = values[o][w] \/ ~ValueLinked(o, w)
    BY <1>2 DEF RenameOptionValue
  <2>2. HasCodes(Coded(values[o], w, c))
    BY <2>1, OptionFacts, CodedType DEF VariantInv
  <2>3. \A v \in Present, x \in DOMAIN values[o] : <<o, x>> \in variant[v].links =>
            /\ x \in DOMAIN Coded(values[o], w, c)
            /\ Coded(values[o], w, c)[x] = values[o][x]
    BY <2>1 DEF Coded, ValueLinked
  <2> QED
    BY <2>1, <2>2, <2>3, ValuesWritten
<1>3. ASSUME NEW o \in OptionIds, NEW w \in ValueIds, RemoveOptionValue(o, w)
      PROVE  VariantInv'
  <2>1. /\ o \in Options /\ w \in DOMAIN values[o] /\ UNCHANGED <<optionCode, variant>>
        /\ values' = [values EXCEPT ![o] = Uncoded(values[o], w)]
        /\ ~ValueLinked(o, w)
    BY <1>3 DEF RemoveOptionValue
  <2>2. HasCodes(Uncoded(values[o], w))
    <3>1. HasCodes(values[o])
      BY <2>1, OptionFacts DEF VariantInv
    <3> QED
      BY <3>1 DEF HasCodes, Uncoded
  <2>3. \A v \in Present, x \in DOMAIN values[o] : <<o, x>> \in variant[v].links =>
            /\ x \in DOMAIN Uncoded(values[o], w)
            /\ Uncoded(values[o], w)[x] = values[o][x]
    BY <2>1 DEF Uncoded, ValueLinked
  <2> QED
    BY <2>1, <2>2, <2>3, ValuesWritten
<1> QED
  BY <1>1, <1>2, <1>3, CreateOptionKeeps, RenameOptionKeeps, RemoveOptionKeeps DEF OptionStep

LEMMA CreateVariantKeeps ==
    ASSUME VariantInv, NEW v \in VariantIds, NEW links \in Links,
           NEW default \in BOOLEAN, NEW active \in BOOLEAN,
           CreateVariant(v, links, default, active) \/ UpdateVariant(v, links, default, active)
    PROVE  VariantInv'
<1>1. /\ Prepared(Present \ {v}, links, default, active)
      /\ Persist(v, links, Options = {} \/ default, active)
      /\ UNCHANGED <<optionCode, values>>
  <2>1. CASE CreateVariant(v, links, default, active)
    <3>1. Present \ {v} = Present
      BY <2>1 DEF CreateVariant
    <3> QED
      BY <2>1, <3>1 DEF CreateVariant
  <2>2. CASE UpdateVariant(v, links, default, active)
    BY <2>2 DEF UpdateVariant
  <2> QED
    BY <2>1, <2>2
<1>2. (Options = {} \/ default) \in BOOLEAN
  OBVIOUS
<1> QED
  BY <1>1, <1>2, PersistKeeps

LEMMA BulkCreateKeeps ==
    ASSUME VariantInv, NEW v \in VariantIds, NEW w \in VariantIds,
           NEW linksV \in Links, NEW linksW \in Links, NEW dv \in BOOLEAN, NEW dw \in BOOLEAN,
           BulkCreate(v, w, linksV, linksW, dv, dw)
    PROVE  VariantInv'
<1> DEFINE base == IF dv \/ dw THEN Undefaulted ELSE variant
           newV == Stored(linksV, dv, TRUE)
           newW == Stored(linksW, dw, TRUE)
           N == {v, w}
<1>1. /\ variant' = [base EXCEPT ![v] = newV, ![w] = newW]
      /\ v # w /\ {v, w} \cap Present = {} /\ linksV # linksW /\ ~(dv /\ dw)
      /\ Prepared(Present, linksV, dv, TRUE) /\ Prepared(Present, linksW, dw, TRUE)
      /\ UNCHANGED <<optionCode, values>>
  BY DEF BulkCreate
<1>2. /\ base \in [VariantIds -> [present: BOOLEAN, active: BOOLEAN, default: BOOLEAN,
                                 links: SUBSET (OptionIds \X ValueIds),
                                 key: SUBSET (ValueCodes \X ValueCodes)]]
      /\ \A x \in VariantIds :
             /\ base[x].present = variant[x].present /\ base[x].links = variant[x].links
             /\ base[x].key = variant[x].key
             /\ base[x].default => variant[x].default /\ ~dv /\ ~dw
  BY UndefaultedRows DEF VariantInv, VariantType
<1>3. /\ LinksResolve(linksV) /\ \A x \in Present : variant[x].key # Combination(linksV)
      /\ LinksResolve(linksW) /\ \A x \in Present : variant[x].key # Combination(linksW)
  BY <1>1, PreparedResolves
<1>4. /\ newV \in [present: BOOLEAN, active: BOOLEAN, default: BOOLEAN,
                 links: SUBSET (OptionIds \X ValueIds), key: SUBSET (ValueCodes \X ValueCodes)]
      /\ newV.links = linksV /\ newV.default = dv
      /\ newV.key = {<<optionCode[link[1]], values[link[1]][link[2]]>> : link \in linksV}
  <2>1. /\ linksV \in SUBSET (OptionIds \X ValueIds) /\ OptionsType /\ LinksResolve(linksV)
    BY <1>3, LinksType DEF VariantInv
  <2>2. PICK yes \in BOOLEAN : yes = TRUE
    OBVIOUS
  <2>3. newV = Stored(linksV, dv, yes)
    BY <2>2
  <2> HIDE DEF newV
  <2> QED
    BY <2>1, <2>3, StoredRow
<1>5. /\ newW \in [present: BOOLEAN, active: BOOLEAN, default: BOOLEAN,
                 links: SUBSET (OptionIds \X ValueIds), key: SUBSET (ValueCodes \X ValueCodes)]
      /\ newW.links = linksW /\ newW.default = dw
      /\ newW.key = {<<optionCode[link[1]], values[link[1]][link[2]]>> : link \in linksW}
  <2>1. /\ linksW \in SUBSET (OptionIds \X ValueIds) /\ OptionsType /\ LinksResolve(linksW)
    BY <1>3, LinksType DEF VariantInv
  <2>2. PICK yes \in BOOLEAN : yes = TRUE
    OBVIOUS
  <2>3. newW = Stored(linksW, dw, yes)
    BY <2>2
  <2> HIDE DEF newW
  <2> QED
    BY <2>1, <2>3, StoredRow
<1> HIDE DEF base, newV, newW
<1>6. /\ variant'[v] = newV /\ variant'[w] = newW
      /\ \A x \in VariantIds \ N : variant'[x] = base[x]
  BY <1>1, <1>2
<1>7. VariantType'
  BY <1>1, <1>2, <1>4, <1>5 DEF VariantType
<1>8. OptionsType'
  BY <1>1 DEF VariantInv, OptionsType, Options
<1>9. VariantsResolve'
  <2>1. N \in SUBSET VariantIds /\ VariantsResolve
    BY DEF VariantInv
  <2>2. \A x \in VariantIds \ N : variant'[x].present =>
          /\ x \in Present
          /\ variant'[x].links = variant[x].links /\ variant'[x].key = variant[x].key
          /\ variant'[x].default => variant[x].default
    BY <1>2, <1>6 DEF Present
  <2>3. LinksResolve(variant'[v].links) /\ LinksResolve(variant'[w].links)
    BY <1>3, <1>4, <1>5, <1>6
  <2>4. /\ variant'[v].key = {<<optionCode[link[1]], values[link[1]][link[2]]>> :
                                link \in variant'[v].links}
        /\ variant'[w].key = {<<optionCode[link[1]], values[link[1]][link[2]]>> :
                                link \in variant'[w].links}
    BY <1>4, <1>5, <1>6
  <2>5. \A x \in Present \ N :
            /\ variant[x].key # variant'[v].key /\ ~(variant'[v].default /\ variant'[x].default)
            /\ variant[x].key # variant'[w].key /\ ~(variant'[w].default /\ variant'[x].default)
    BY <1>2, <1>3, <1>4, <1>5, <1>6 DEF Combination, Present
  <2>6. variant'[v].links # variant'[w].links /\ ~(variant'[v].default /\ variant'[w].default)
    BY <1>1, <1>4, <1>5, <1>6
  <2>7. \A n \in N : /\ LinksResolve(variant'[n].links)
                     /\ variant'[n].key = {<<optionCode[link[1]], values[link[1]][link[2]]>> :
                                             link \in variant'[n].links}
    BY <2>3, <2>4
  <2>8. \A n \in N, x \in Present \ N :
            /\ variant[x].key # variant'[n].key /\ ~(variant'[n].default /\ variant'[x].default)
    BY <2>5
  <2>9. \A n, k \in N : n # k => /\ variant'[n].links # variant'[k].links
                                 /\ ~(variant'[n].default /\ variant'[k].default)
    BY <2>6
  <2> HIDE DEF N
  <2> QED
    BY <1>1, <2>1, <2>2, <2>7, <2>8, <2>9, VariantsWritten
<1> QED
  BY <1>7, <1>8, <1>9 DEF VariantInv

LEMMA SetDefaultVariantKeeps ==
    ASSUME VariantInv, NEW v \in VariantIds, SetDefaultVariant(v)
    PROVE  VariantInv'
<1> DEFINE new == [variant[v] EXCEPT !.default = TRUE]
<1>1. /\ variant' = [Undefaulted EXCEPT ![v] = new] /\ v \in Present
      /\ UNCHANGED <<optionCode, values>>
  BY DEF SetDefaultVariant, ActiveVariants
<1>2. /\ new \in [present: BOOLEAN, active: BOOLEAN, default: BOOLEAN,
                 links: SUBSET (OptionIds \X ValueIds), key: SUBSET (ValueCodes \X ValueCodes)]
      /\ new.present = variant[v].present /\ new.links = variant[v].links
      /\ new.key = variant[v].key
  BY DEF VariantInv, VariantType
<1> HIDE DEF new
<1>3. VariantType'
  BY <1>1, <1>2, UndefaultedRows DEF VariantInv, VariantType
<1>4. \A w \in VariantIds :
          /\ variant'[w].present = variant[w].present /\ variant'[w].links = variant[w].links
          /\ variant'[w].key = variant[w].key
          /\ w # v => variant'[w].default = FALSE
  BY <1>1, <1>2, UndefaultedRows DEF VariantInv
<1>5. Present' = Present /\ Options' = Options
  BY <1>1, <1>4 DEF Present, Options
<1>6. \A w \in Present' : /\ w \in Present /\ w \in VariantIds
                          /\ variant'[w].links = variant[w].links /\ variant'[w].key = variant[w].key
  BY <1>4, <1>5 DEF Present
<1>7. VariantsResolve'
  <2>1. ASSUME NEW w \in Present'
        PROVE  /\ \A link \in variant'[w].links :
                      link[1] \in Options' /\ link[2] \in DOMAIN values'[link[1]]
               /\ variant'[w].key = Combination(variant[w].links)'
    <3>1. PICK links : links = variant[w].links
      OBVIOUS
    <3>2. Combination(links)' = Combination(links)
      BY <1>1, CombinationKept
    <3>3. links = variant'[w].links /\ variant'[w].key = Combination(links)
      BY <1>6, <3>1 DEF VariantInv, VariantsResolve
    <3>4. Combination(links)' = Combination(variant[w].links)'
      BY <3>3 DEF Combination
    <3> QED
      BY <1>1, <1>5, <1>6, <3>2, <3>3, <3>4 DEF VariantInv, VariantsResolve
  <2>2. ASSUME NEW x \in Present', NEW y \in Present', x # y
        PROVE  /\ variant'[x].links # variant'[y].links
               /\ ~(variant'[x].default /\ variant'[y].default)
    BY <1>4, <1>6, <2>2 DEF VariantInv, VariantsResolve
  <2> QED
    BY <2>1, <2>2 DEF VariantsResolve
<1>8. OptionsType'
  BY <1>1 DEF VariantInv, OptionsType, Options
<1> QED
  BY <1>3, <1>7, <1>8 DEF VariantInv

\* Variants that go leave the others as they are.
LEMMA VariantsGone ==
    ASSUME VariantInv, NEW N \in SUBSET VariantIds,
           variant' = [v \in VariantIds |-> IF v \in N THEN NoVariant ELSE variant[v]],
           UNCHANGED <<optionCode, values>>
    PROVE  VariantInv'
<1>1. VariantType'
  BY DEF VariantInv, VariantType, NoVariant
<1>2. \A w \in VariantIds \ {} : variant'[w].present =>
          /\ w \in Present
          /\ variant'[w].links = variant[w].links /\ variant'[w].key = variant[w].key
          /\ variant'[w].default => variant[w].default
  BY DEF Present, NoVariant
<1>3. VariantsResolve'
  <2>1. PICK M \in SUBSET VariantIds : M = {}
    OBVIOUS
  <2>2. \A w \in VariantIds \ M : variant'[w].present =>
          /\ w \in Present
          /\ variant'[w].links = variant[w].links /\ variant'[w].key = variant[w].key
          /\ variant'[w].default => variant[w].default
    BY <1>2, <2>1
  <2>3. \A n : n \notin M
    BY <2>1
  <2> QED
    BY <2>2, <2>3, VariantsWritten DEF VariantInv
<1>4. OptionsType'
  BY DEF VariantInv, OptionsType, Options
<1> QED
  BY <1>1, <1>3, <1>4 DEF VariantInv

-----------------------------------------------------------------------------
(* The whole product. *)

ActiveHasImage == status = "ACTIVE" => GalleryOf(General) # {}

CatalogInv ==
    /\ status \in ProductStatuses /\ categorized \in BOOLEAN /\ referenced \in SUBSET VariantIds
    /\ VariantInv /\ MediaInv /\ ActiveHasImage

LEMMA CatalogInvAgain ==
    CatalogInv <=> CatalogTypeOK /\ VariantsResolve /\ GalleriesInOrder
BY OneOrder DEF CatalogInv, CatalogTypeOK, VariantInv, OptionsType, VariantType, MediaInv,
                MediaType, ActiveHasImage, GalleriesInOrder

LEMMA VariantInvSame ==
    ASSUME VariantInv, UNCHANGED <<optionCode, values, variant>>
    PROVE  VariantInv'
BY DEF VariantInv, OptionsType, VariantType, VariantsResolve, Options, Present, Combination

LEMMA MediaInvSame ==
    ASSUME MediaInv, media' = media
    PROVE  MediaInv' /\ GalleryOf(General)' = GalleryOf(General)
<1>1. \A g : GalleryOf(g)' = GalleryOf(g) /\ PrimaryOf(g)' = PrimaryOf(g)
  BY DEF GalleryOf, PrimaryOf
<1>2. \A g \in Galleries : InOrder(g)'
  BY <1>1 DEF MediaInv, InOrder, OnePrimary
<1> QED
  BY <1>1, <1>2 DEF MediaInv, MediaType

\* Before a product is created, and once it is removed.
Nothing ==
    /\ optionCode = NoEntries /\ values = NoEntries
    /\ variant = [v \in VariantIds |-> NoVariant]
    /\ media = [m \in MediaIds |-> NoMedia]

LEMMA NothingYet == Nothing => VariantInv /\ MediaInv
<1> SUFFICES ASSUME Nothing
             PROVE  VariantInv /\ MediaInv
  OBVIOUS
<1>1. Options = {} /\ DOMAIN values = {} /\ optionCode \in [{} -> ValueCodes]
  BY DEF Nothing, Options, NoEntries
<1>2. OptionsType
  BY <1>1 DEF OptionsType
<1>3. VariantType
  BY DEF Nothing, VariantType, NoVariant
<1>4. Present = {}
  BY DEF Nothing, Present, NoVariant
<1> QED
  BY <1>2, <1>3, <1>4, NoGalleries DEF Nothing, VariantInv, VariantsResolve

LEMMA ProductStepKeeps ==
    ASSUME CatalogInv, ProductStep
    PROVE  CatalogInv'
<1>1. ASSUME NEW b \in BOOLEAN, CreateProduct(b) \/ UpdateProduct(b)
      PROVE  CatalogInv'
  BY <1>1, VariantInvSame, MediaInvSame
  DEF CreateProduct, UpdateProduct, CatalogInv, ActiveHasImage, ProductStatuses
<1>2. ASSUME NEW s \in ProductStatuses \ {"NONE"}, UpdateStatus(s)
      PROVE  CatalogInv'
  <2>1. s = "ACTIVE" => GalleryOf(General) # {}
    <3>1. PrimaryOf(General) \subseteq GalleryOf(General) /\ IsFiniteSet(PrimaryOf(General))
      BY GalleryFacts
    <3> QED
      BY <1>2, <3>1, FS_EmptySet DEF UpdateStatus, MayActivateProduct
  <2> QED
    BY <1>2, <2>1, VariantInvSame, MediaInvSame DEF UpdateStatus, CatalogInv, ActiveHasImage
<1>3. ASSUME RemoveProduct
      PROVE  CatalogInv'
  <2>1. Nothing'
    BY <1>3 DEF RemoveProduct, Nothing
  <2>2. VariantInv' /\ MediaInv'
    BY <2>1, NothingYet, PTL
  <2> QED
    BY <1>3, <2>2 DEF RemoveProduct, CatalogInv, ActiveHasImage, ProductStatuses
<1> QED
  BY <1>1, <1>2, <1>3 DEF ProductStep

LEMMA VariantStepKeeps ==
    ASSUME CatalogInv, VariantStep
    PROVE  CatalogInv'
<1>1. ASSUME VariantInv', UNCHANGED <<status, categorized, media, referenced>>
      PROVE  CatalogInv'
  BY <1>1, MediaInvSame DEF CatalogInv, ActiveHasImage
<1>2. ASSUME NEW v \in VariantIds, NEW links \in Links, NEW default \in BOOLEAN,
             NEW active \in BOOLEAN,
             CreateVariant(v, links, default, active) \/ UpdateVariant(v, links, default, active)
      PROVE  CatalogInv'
  <2>1. VariantInv'
    BY <1>2, CreateVariantKeeps DEF CatalogInv
  <2> QED
    BY <1>1, <1>2, <2>1 DEF CreateVariant, UpdateVariant
<1>3. ASSUME NEW v \in VariantIds, NEW w \in VariantIds, NEW linksV \in Links, NEW linksW \in Links,
             NEW dv \in BOOLEAN, NEW dw \in BOOLEAN, BulkCreate(v, w, linksV, linksW, dv, dw)
      PROVE  CatalogInv'
  <2>1. VariantInv'
    BY <1>3, BulkCreateKeeps DEF CatalogInv
  <2> QED
    BY <1>1, <1>3, <2>1 DEF BulkCreate
<1>4. ASSUME NEW v \in VariantIds, SetDefaultVariant(v)
      PROVE  CatalogInv'
  <2>1. VariantInv'
    BY <1>4, SetDefaultVariantKeeps DEF CatalogInv
  <2> QED
    BY <1>1, <1>4, <2>1 DEF SetDefaultVariant
<1>5. ASSUME NEW v \in VariantIds, RemoveVariant(v)
      PROVE  CatalogInv'
  <2>1. /\ variant' = [variant EXCEPT ![v] = NoVariant]
        /\ media' = [m \in MediaIds |-> IF m \in GalleryOf(v) THEN NoMedia ELSE media[m]]
        /\ UNCHANGED <<status, categorized, optionCode, values, referenced>>
    BY <1>5 DEF RemoveVariant
  <2>2. variant' = [x \in VariantIds |-> IF x \in {v} THEN NoVariant ELSE variant[x]]
    BY <2>1 DEF CatalogInv, VariantInv, VariantType
  <2>3. VariantInv'
    BY <2>1, <2>2, VariantsGone DEF CatalogInv
  <2>4. MediaInv'
    BY <2>1, ForgetGallery DEF CatalogInv
  <2>5. GalleryOf(General)' = GalleryOf(General)
    BY <2>1, CatalogParameters DEF GalleryOf, NoMedia
  <2> QED
    BY <2>1, <2>3, <2>4, <2>5 DEF CatalogInv, ActiveHasImage
<1>6. ASSUME NEW v \in VariantIds, Refer(v)
      PROVE  CatalogInv'
  BY <1>6, VariantInvSame, MediaInvSame DEF Refer, CatalogInv, ActiveHasImage
<1> QED
  BY <1>2, <1>3, <1>4, <1>5, <1>6 DEF VariantStep

LEMMA MediaStepKeeps ==
    ASSUME CatalogInv, MediaStep
    PROVE  CatalogInv'
<1>1. ASSUME MediaInv', UNCHANGED <<status, categorized, optionCode, values, variant, referenced>>,
             status = "ACTIVE" => GalleryOf(General)' # {}
      PROVE  CatalogInv'
  BY <1>1, VariantInvSame DEF CatalogInv, ActiveHasImage
<1>2. ASSUME NEW m \in MediaIds, NEW g \in Galleries, NEW primary \in BOOLEAN, CreateMedia(m, g, primary)
      PROVE  CatalogInv'
  <2>1. MediaInv'
    BY <1>2, CreateMediaKeeps DEF CatalogInv
  <2>2. GalleryOf(General) \subseteq GalleryOf(General)'
    <3>1. \A k \in MediaIds \ {m} : /\ media'[k].present = media[k].present
                                    /\ media'[k].gallery = media[k].gallery
      BY <1>2, UnmarkedRows DEF CreateMedia, CatalogInv, MediaInv, MediaType
    <3> QED
      BY <1>2, <3>1 DEF GalleryOf, CreateMedia
  <2> QED
    BY <1>1, <1>2, <2>1, <2>2 DEF CreateMedia, CatalogInv, ActiveHasImage
<1>3. ASSUME NEW m \in MediaIds, SetPrimaryMedia(m)
      PROVE  CatalogInv'
  <2>1. MediaInv'
    BY <1>3, SetPrimaryMediaKeeps DEF CatalogInv
  <2>2. GalleryOf(General) \subseteq GalleryOf(General)'
    <3>1. \A k \in MediaIds : /\ media'[k].present = media[k].present
                              /\ media'[k].gallery = media[k].gallery
      BY <1>3, UnmarkedRows DEF SetPrimaryMedia, CatalogInv, MediaInv, MediaType
    <3> QED
      BY <3>1 DEF GalleryOf
  <2> QED
    BY <1>1, <1>3, <2>1, <2>2 DEF SetPrimaryMedia, CatalogInv, ActiveHasImage
<1>4. ASSUME NEW g \in Galleries, NEW position \in Orderings(GalleryOf(g)), ReorderMedia(g, position)
      PROVE  CatalogInv'
  <2>1. MediaInv'
    BY <1>4, ReorderMediaKeeps DEF CatalogInv
  <2>2. GalleryOf(General) \subseteq GalleryOf(General)'
    BY <1>4 DEF ReorderMedia, GalleryOf, CatalogInv, MediaInv, MediaType
  <2> QED
    BY <1>1, <1>4, <2>1, <2>2 DEF ReorderMedia, CatalogInv, ActiveHasImage
<1>5. ASSUME NEW m \in MediaIds, DeleteMedia(m)
      PROVE  CatalogInv'
  <2>1. MediaInv'
    BY <1>5, DeleteMediaKeeps DEF CatalogInv
  <2>2. GalleryOf(General) \ {m} \subseteq GalleryOf(General)'
    BY <1>5 DEF DeleteMedia, GalleryOf, CatalogInv, MediaInv, MediaType
  <2>3. status = "ACTIVE" => GalleryOf(General) \ {m} # {}
    <3>1. CASE media[m].gallery = General
      BY <1>5, <3>1 DEF DeleteMedia
    <3>2. CASE media[m].gallery # General
      BY <3>2 DEF GalleryOf, CatalogInv, ActiveHasImage
    <3> QED
      BY <3>1, <3>2
  <2> QED
    BY <1>1, <1>5, <2>1, <2>2, <2>3 DEF DeleteMedia
<1> QED
  BY <1>2, <1>3, <1>4, <1>5 DEF MediaStep

LEMMA CatalogInvariance == CatalogSpec => []CatalogInv
<1>1. CatalogInit => CatalogInv
  BY NothingYet DEF Nothing, CatalogInit, CatalogInv, ActiveHasImage, ProductStatuses
<1>2. CatalogInv /\ [CatalogNext]_catalogVars => CatalogInv'
  <2> SUFFICES ASSUME CatalogInv, [CatalogNext]_catalogVars
               PROVE  CatalogInv'
    OBVIOUS
  <2>1. CASE OptionStep
    <3>1. VariantInv'
      BY <2>1, OptionStepKeeps DEF CatalogInv
    <3>2. UNCHANGED <<status, categorized, media, referenced>>
      BY <2>1 DEF OptionStep, CreateOption, RenameOption, RemoveOption, CreateOptionValue,
                  RenameOptionValue, RemoveOptionValue
    <3> QED
      BY <3>1, <3>2, MediaInvSame DEF CatalogInv, ActiveHasImage
  <2>2. CASE UNCHANGED catalogVars
    BY <2>2, VariantInvSame, MediaInvSame DEF catalogVars, CatalogInv, ActiveHasImage
  <2> QED
    BY <2>1, <2>2, ProductStepKeeps, VariantStepKeeps, MediaStepKeeps DEF CatalogNext
<1> QED
  BY <1>1, <1>2, PTL DEF CatalogSpec

\* Every table of a product keeps its type.
THEOREM CatalogTypeCorrect == CatalogSpec => []CatalogTypeOK
<1>1. CatalogInv => CatalogTypeOK
  BY CatalogInvAgain
<1> QED
  BY <1>1, CatalogInvariance, PTL

\* Whatever options, values, variants and pictures are renamed, switched off,
\* moved and removed, variants name values that are there, one combination each,
\* with one default at most, and every gallery stays in order with one first
\* picture (ProductsRepository, ProductMediaRepository).
THEOREM CatalogKeepsResolving == CatalogSpec => [](VariantsResolve /\ GalleriesInOrder)
<1>1. CatalogInv => VariantsResolve /\ GalleriesInOrder
  BY CatalogInvAgain
<1> QED
  BY <1>1, CatalogInvariance, PTL
===============================================================================
