\* One seeding script, one administrator, one run, a process that restarts.
CONSTANTS
    Null = Null
    Seeders = {seeder}
    Admins = {admin}
    Loaders = {run1}
    Run = run1
    Thresholds = {850, 920}
    Preferences = {"azure_ai_foundry", "offline", "tfidf"}
    Default <- MCDefault
    Seeded <- MCSeeded
    Updates <- MCUpdates
    Databases <- MCDatabases
    Environments <- MCEnvironments
    Confidences = {880}
SPECIFICATION Spec
INVARIANTS
    TypeOK
    RowsTogether
    SnapshotWhole
    DefaultsOnlyByRace
    OfflineStays
    RecordedUnlessRestarted
    OneSpace
PROPERTY
    AloneExact
