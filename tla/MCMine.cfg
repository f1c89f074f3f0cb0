\* Three workers, seven nonces: worker 0 has three of them, the others two.
SPECIFICATION SpecFewWinners
CONSTANTS
    NonceCount = 7
    ThreadCount = 3
INVARIANTS
    TypeOK
    SoundWinner
    HashesAccounted
    AnswerNotLost
PROPERTIES
    FirstResultKept
    Termination
    ImplementsMineSpec
