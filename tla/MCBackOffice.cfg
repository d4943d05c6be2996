SPECIFICATION BackOfficeSpec
CONSTANTS
    Parts = {"pool", "lead", "garage", "plan", "show"}
    w1 = w1
    w2 = w2
    s1 = s1
    s2 = s2
    s3 = s3
    e1 = e1
    c1 = c1
    c2 = c2
    p1 = p1
    p2 = p2
    k1 = k1
    k2 = k2
    A = A
    B = B
    NoOne = NoOne
    Workers = {w1}
    Sockets = {s1, s2, s3}
    Streams = {e1}
    Pool = 2
    Threads = {w1, w2}
    Leads = {l1}
    Stages = {"new", "contacted", "qualified"}
    Transactions = 6
    Customers = {c1, c2}
    Papers = {p1, p2}
    GarageVins = {A}
    Labels = {"pending_documents", "approved", "rejected"}
    Certs = 2
    PriceFiles <- ThreePriceFiles
    Versions = 3
    Rules = 2
    Visits = 2
    Terms <- AllTerms
    Margins = {0, 1}
    Far = 1
    Days = 2
    Cars = {k1, k2}
    Vins = {A, B}
    ImageFiles = {f1, f2, f3}
    Sheets <- ThreeSheets
CONSTRAINT Bounded
INVARIANTS
    BackOfficeTypeOK
    BookingAndLeadAgree
    HistoryEndsAtStage
    GarageSound
    NothingLeftBehind
    BoardIsCurrent
    GallerySound
PROPERTIES
    OneOfEachComesBack
    DueUntilServed
    ImportLeavesNoneOut
CHECK_DEADLOCK FALSE
