\* Length 4 over GF(17), where 4 is a primitive 4th root of unity: the
\* smallest length at which bit reversal is not the identity.  Entries
\* from {0, 1, 2}; Multiply also gets arguments of length 2.
CONSTANTS
    Prime = 17
    N = 4
    Omega = 4
    Values = {0, 1, 2}
    CodingRate = 2
SPECIFICATION Spec
CHECK_DEADLOCK FALSE
INVARIANT MultiplyIsCirculant
