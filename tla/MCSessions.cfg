SPECIFICATION Spec
CONSTANTS
    t1 = t1
    t2 = t2
    t3 = t3
    w1 = w1
    w2 = w2
    Tokens = {t1, t2, t3}
    Workers = {w1, w2}
    Codes = {1, 2}
    MaxOtpAttempts = 2
SYMMETRY Interchangeable
INVARIANTS
    TypeOK
    ExchangedOnceUnlessRaced
    EndedSessionStaysEnded
    OneSessionPerCode
    GuessesBounded

