SPECIFICATION Spec
CONSTANTS
    bound = bound
    free = free
    foreign = foreign
    key = key
    good = good
    stray = stray
    forged = forged
    h1 = h1
    h2 = h2
    Handlers = {h1, h2}
    Keys = {key}
    NoKey = NoKey
    Tokens = {bound, free, foreign}
    TokenClaims <- MCTokenClaims
    Audience = TRUE
    Jtis = {good, stray, forged}
    NoProof = NoProof
    Proofs <- MCProofs
    Requests <- MCRequests
    IssueTimes = {0, 2, 4}
    maxProofAge = 2
    maxClockSkew = 1
    MaxLag = 1
    MaxTime = 6
    MaxRestarts = 1
SYMMETRY Sym
INVARIANT AcceptedAtMostOnce
