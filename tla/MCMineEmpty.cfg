SPECIFICATION Spec
CONSTANTS
    NonceCount = 5
    ThreadCount = 2
INVARIANT EmptyMeansNone
