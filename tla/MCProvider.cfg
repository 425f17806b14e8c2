\* Every service, every order of answers and errors.
CONSTANTS
    Services <- AllServices
    Attempts = 3
SPECIFICATION FairSpec
INVARIANTS
    TypeOK
    Reached
    ErrorIsOwn
PROPERTY
    CallReturns
