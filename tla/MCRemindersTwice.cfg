SPECIFICATION Spec
CONSTANTS
    v1 = v1
    v2 = v2
    r1 = r1
    r2 = r2
    cron = cron
    portal = portal
    Vehicles = {v1, v2}
    Rules = {r1}
    Runs = {cron, portal}
    Stages = {1}
    DaysBefore = 0
    OverdueDays = 1
    MomentsPerDay = 2
    Horizon = 2
    DueMoments <- TwoDates
    Unreachable = {v1}
    Uninstalled = {v2}
    Toggled = {r1}
SYMMETRY Interchangeable
INVARIANT NobodyToldTwice
