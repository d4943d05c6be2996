SPECIFICATION Spec
CONSTANTS
    v1 = v1
    a1 = a1
    a2 = a2
    k1 = k1
    k2 = k2
    w1 = w1
    w2 = w2
    Workers = {w1, w2}
    Vehicles = {v1}
    VehicleOf <- OneVehicle
    ApptOf <- OneJob
    Booked <- Mileages
    Appts = {a1, a2}
    Works = {k1, k2}
    Slots <- TwoTimes
    Readings = {1}
CONSTRAINT JobOrTimes
SYMMETRY Interchangeable
INVARIANTS
    TypeOK
    StatusesAgree
    WaitingIsOwed
    ServiceRecorded
    OneVehicleOneSlot
PROPERTIES
    BilledAsApproved
    OdometerNeverBack
