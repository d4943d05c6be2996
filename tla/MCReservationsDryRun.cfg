SPECIFICATION MCSpec
CONSTANTS
    v1 = v1
    v2 = v2
    h1 = h1
    h2 = h2
    h3 = h3
    Vehicles = {v1, v2}
    Holds = {h1, h2, h3}
    CarOf <- TwoCars
    Workers = {w1}
    PushEnabled = TRUE
    Watched = {v1}
    DeskChoices = {"available", "sold"}
    LeadCloses = {"won"}
    Payments = {"deposit_paid"}
    SweepRuns = {"sweep", "dry"}
PROPERTY DryRunChangesNothing
