SPECIFICATION AdmissionSpec
CONSTANTS
    web = web
    key = key
    tuner = tuner
    anna = anna
    Requests = {r1, r2, r3}
    Viewers = {w1, w2, w3}
    Credentials = {web, key, tuner}
    Users = {anna}
    Owner <- OwnerOf
    NoOwner = NoOwner
    Metered = {key, tuner}
    UserLimit = 2
    KeyLimit = 1
SYMMETRY Symmetry
INVARIANTS ReservationsMatch OverLimitOnlyByOverlap
CHECK_DEADLOCK FALSE
