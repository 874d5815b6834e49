SPECIFICATION Spec
CONSTANTS
    Runs = {r1, r2, r3}
    FirstDocument = {r1, r2}
    DocNumber <- Numbers
    Invoices <- SampleInvoices
    Edits <- SampleEdits
    Registry <- TwoSuppliers
    PartOf <- AcmeIsPart
    TooShort = {"7"}
    CategoryConfidence = {55, 82}
    Threshold = 7200
SYMMETRY Symmetry
INVARIANTS
    TypeOK
    UnseenDuplicatesAreExplained
    MatchesAreExact
    UnknownSupplierNotRecommended
    TaxIdFindsSupplier
PROPERTIES
    DraftHoldsEdits
CHECK_DEADLOCK FALSE
