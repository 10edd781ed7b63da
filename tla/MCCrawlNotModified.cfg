CONSTANTS
    NULL = NULL
    Sources = {"data_gov_tw"}
    Conditional = {"data_gov_tw"}
    Datasets = {"a", "b"}
    Slugs = {"x", "y"}
    Texts = {"old", "new"}
    Domains = {"health"}
    Seeded = {"health"}
    Catalogues <- SecondPageCatalogues
    PageSize = 1
    MaxAttempts = 2
    Failures = {"transport"}
    MaxEdits = 2
    MaxFaults = 0
SPECIFICATION FairCrawlSpec
PROPERTIES NotModifiedIsHonest
