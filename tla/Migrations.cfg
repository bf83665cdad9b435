SPECIFICATION Spec
CONSTANTS
    Migrators = {m1, m2}
    Targets = {0, 2, 3, 5, 7}
INVARIANTS
    TypeOK
    CatalogMatchesVersion
    RefusedOnlyIfOvertaken
PROPERTIES
    PromiseSpec
