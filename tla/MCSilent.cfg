\* The instance of MCConfig.cfg, for one statement of the repository.
CONSTANTS
    Null = Null
    Seeders = {seeder}
    Admins = {admin}
    Loaders = {run1}
    Run = run1
    Thresholds = {850, 920}
    Preferences = {"azure_ai_foundry", "offline", "tfidf"}
    Default <- MCDefault
    Seeded <- MCSeeded
    Updates <- MCUpdates
    Databases <- MCDatabases
    Environments <- MCEnvironments
    Confidences = {880}
SPECIFICATION Spec
INVARIANT
    NotBelowEveryThreshold
