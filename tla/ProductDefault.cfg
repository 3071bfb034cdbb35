\* A product on sale whose default variant is hidden.
SPECIFICATION CatalogSpec
CONSTANTS
    OptionIds = {o1}
    ValueIds = {w1, w2}
    ValueCodes = {a1, a2}
    VariantIds = {v1, v2}
    MediaIds = {m1}
    General = General
    GeneralLimit = 1
    VariantLimit = 1
INVARIANT
    OneActiveDefault
CHECK_DEADLOCK FALSE
