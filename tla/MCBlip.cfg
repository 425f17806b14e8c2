\* README.md:217-221: a transient error does not demote a run.
CONSTANTS
    Services <- AllServices
    Attempts = 3
SPECIFICATION Spec
INVARIANT
    OneBlipSurvived
