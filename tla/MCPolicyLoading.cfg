\* Loads of the policies against edits of products.json and domain files.
SPECIFICATION FairSpec
CONSTANTS
    f1 = f1
    f2 = f2
    MapObject = MapObject
    File <- MCFile
    Address <- MCAddress
    ProductsConfs <- MCProductsConfs
    DomainConfs <- MCDomainConfs
    MaxProductsEdits = 3
    MaxFileEdits = 2
INVARIANTS
    TypeOK
    NothingLeaks
    ServedIsAlive
    InUseUnlessEditedSince
    QuietMeansLoaded
PROPERTY
    LoadableIsLoaded
CHECK_DEADLOCK FALSE
