SPECIFICATION Spec
CONSTANTS
    b1 = b1
    b2 = b2
    ann = ann
    bob = bob
    q1 = q1
    q2 = q2
    Nobody = Nobody
    Browsers = {b1, b2}
    People = {ann, bob}
    Requests = {q1, q2}
    MaxSessions = 2
    MaxStates = 2
    MaxTokens = 6
SYMMETRY Alike
INVARIANT TypeOK OwnSignIn OneSessionPerState
PROPERTY OnlyOldestMakesRoom
