\* The parts of the shop that share no table, one at a time. Ids of different
\* parts share model values (no state shows two parts), so that few permutations do.
SPECIFICATION StoreSpec
CONSTANTS
    Receipts = {r1}
    Variants = {v1}
    Quantities = {1}
    NoReceipt = NoReceipt
    MaxMovements = 3
    Connections = {y1, y2}
    MaxAttempts = 2
    OptionIds = {o1}
    ValueIds = {x1, x2}
    ValueCodes = {z1, z2}
    VariantIds = {y1, y2}
    MediaIds = {m1, m2, m3}
    General = General
    GeneralLimit = 2
    VariantLimit = 1
    Categories = {k1, k2, k3}
    Names <- ShelfNames
    Types = {"NORMAL", "OTHER"}
    Root = "ROOT"
    Slugs <- ShelfSlugs
    SlugOf <- ShelfSlugOf
    Owners = {e1}
    Images = {i1, i2, i3}
    NoImage = NoImage
    Jobs = {y1, y2}
    BookWeights = {150, 700, 1200}
    MaxBooks = 14
    Shops = {b1, b2}
    Goods = {g1}
    Prices = {n1, n2}
    Amounts = {1}
    MaxStock = 2
    LineIds = {x1, x2}
    OrderKeys = {z1, z2}
    Clicks = {y1, y2}
    MaxEvents = 1
    MaxPreviews = 1
    Titles = {"t1", "t2", "t3"}
    Facts <- BookFacts
    Shelves = {"fiction", "novel"}
    ShelfAbove <- ShelfTree
    None = None
    Originals = {4}
    Discounts = {3, 4, 5}
    RelatedLimit = 3
    HomeLimit = 2
    UpcomingLimit = 1
    Dates = {1, 2}
    LastInstant = 2
    MaxEdits = 3
SYMMETRY Symmetry
INVARIANTS
    StoreTypeOK
    LedgerChains
    ReceivedOnce
    CatalogResolves
    SlugsFollowTree
    ShownIsStored
    OrdersAsPreviewed
    ShopPagesAgree
PROPERTIES
    ActsAtomically
    FeeNeverFalls
CHECK_DEADLOCK FALSE
