SPECIFICATION MCSpec
CONSTANTS
    v1 = v1
    v2 = v2
    h1 = h1
    h2 = h2
    h3 = h3
    Vehicles = {v1}
    Holds = {h1, h2}
    CarOf <- OneCar
    Workers = {w1, w2}
    PushEnabled = FALSE
    Watched = {}
    DeskChoices = {"available", "sold"}
    LeadCloses = {"won"}
    Payments = {"deposit_paid"}
    SweepRuns = {"sweep", "dry"}
PROPERTY SoldNeverWalkedBack
