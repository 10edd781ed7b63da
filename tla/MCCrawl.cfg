CONSTANTS
    NULL = NULL
    Sources = {"data_gov_tw", "twse"}
    Conditional = {"data_gov_tw"}
    Datasets = {"a", "b"}
    Slugs = {"v", "w", "x", "y", "z"}
    Texts = {"old", "new"}
    Domains = {"health", "energy"}
    Seeded = {"health"}
    Catalogues <- MCCatalogues
    PageSize = 1
    MaxAttempts = 2
    Failures = {"transport", "client_error"}
    MaxEdits = 2
    MaxFaults = 2
SPECIFICATION FairCrawlSpec
INVARIANTS SkipIsSafe DlqExhausted
PROPERTIES EventuallyMirrored
