CONSTANTS
    NULL = NULL
    Sources = {"data_gov_tw"}
    Conditional = {"data_gov_tw"}
    Datasets = {"a", "b"}
    Slugs = {"x", "y", "z"}
    Texts = {"old"}
    Domains = {"health"}
    Seeded = {"health"}
    Catalogues <- RenameCatalogues
    PageSize = 2
    MaxAttempts = 2
    Failures = {"transport"}
    MaxEdits = 2
    MaxFaults = 0
SPECIFICATION FairCrawlSpec
PROPERTIES EventuallyMirrored
