SPECIFICATION MCSpec
CONSTANTS
    t1 = t1
    t2 = t2
    m1 = m1
    m2 = m2
    app = app
    console = console
    w1 = w1
    w2 = w2
    c1 = c1
    c2 = c2
    p1 = p1
    p2 = p2
    a1 = a1
    a2 = a2
    A2 = A2
    n1 = n1
    NoOne = NoOne
    Parts = {"tickets"}
    Workers = {w1, w2}
    Loop = Loop
    Tickets = {t1, t2}
    Busy = {t1}
    Msgs = {m1, m2}
    Clients = {app, console}
    Side <- Sides
    Watched <- AllWatchOne
    Horizon = 2
    Customers = {c1, c2}
    Rings = 2
    Phones = {p1, p2}
    People = {c1, c2}
    Addresses = {a1, a2, A2}
    Norm <- InSmallLetters
    AdminEmail = a1
    Categories = {"service"}
    Controllable = {"push", "email"}
    Events <- TwoEvents
    Payloads <- ThreeScreens
    Notices = {n1}
CONSTRAINT Bounded
SYMMETRY Interchangeable
PROPERTY CatchUpMissesNothing
