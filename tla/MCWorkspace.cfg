SPECIFICATION WorkspaceSpec
CONSTANTS
    Modelled = {"journal", "stage", "projections", "repair", "answers", "migration",
             "server", "ingest", "application"}
    None = None
    t1 = t1  t2 = t2  t3 = t3  Torn = Torn  f1 = f1  f2 = f2
    plain = plain  veiled = veiled
    MetaOps = {"open", "rebuild", "backlinks", "sources", "trail", "taxonomy", "entities",
                  "xici"}
    Maintainers <- MCWriters  MetaArticles <- OneArticle  MetaTexts <- BothTexts  Hidden <- HiddenText
    MaxCrashes = 1  MaxBatches = 2
    MaxMetaEdits = 1
    slugA = slugA  slugB = slugB  slugC = slugC  slugM = slugM  slugU = slugU
    Hides = {FALSE}
    RepairNames <- Slugs  Cleaner <- Cleaned  Twins <- Similar  AsciiNames <- AsciiSlugs
    RepairWorlds <- Worlds  TaxonomyOrders <- Orders  RepairPlans <- Plans
    RepairAdded = 5  RepairSecret = 6  MaxRepairEvents = 1
    LastFile = 2  MaxMeddling = 2  MaxCopies = 2
    Deliveries = {1, 2}  MaxMishaps = 2
    Flags = {"public", "private"}
    Destinations <- MCDestinations  Writers <- MCWriters  MaxWrites = 3  MaxByHand = 1
    Threads <- MCThreads  Pids <- MCPids  PidOf <- MCPidOf
    Retries = 2  MaxRuns = 2  MaxFaults = 1
    HttpRequests <- MCHttpRequests  RequestIds <- MCRequestIds
    HttpCallers <- MCHttpCallers  HttpGrants <- MCHttpGrants
    PublicGrant <- MCPublicGrant  Permits = 2
    Principals <- MCPrincipals  Extension <- MCExtension  MaxAppEvents = 1
    AnswerSources <- MCAnswerSources  SavedAnswers <- MCSavedAnswers
    AnswerCalls <- MCAnswerCalls  MaxAnswerEdits = 1  MaxAnswerCalls = 3
SYMMETRY Symmetry
INVARIANTS
    TypesOK RefusedHasNoEffect Exclusive LogTellsRuns WholeGeneration VisibilityKept
    StatusIsHonest
PROPERTIES
    JournalKeepsOrder ReplacedIsKept FreshWhenInstalled WritesKeep
    AnswersAsRestrictive
\* Every bound of a part may be used up.
CHECK_DEADLOCK FALSE
