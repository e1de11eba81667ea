SPECIFICATION ViewsSpec
CONSTANTS
    None = None
    Shelf <- MCShelf  Compiled <- MCCompiled  Sayings <- MCSayings
    Libraries <- MCLibraries  Ends <- MCEnds  Documents <- MCDocuments
    Queries <- MCQueries  MaxWrites = 3
    Pages <- MCPages  CompiledPages <- MCArticles  PageTexts <- MCPageTexts  Sites <- MCSites
    AliasFiles <- MCAliases  NamesAsked <- MCWords  Operations <- MCOperations
    Bound <- MCBound  MaxEvents = 2
    Filing <- MCFiling  Tags <- MCTags  Trees <- MCTrees  Mentions <- MCMentions
    Sizes <- MCSizes  MaxDepth = 1  MaxNodes = 3  BatchSize = 2  MaxPrompt = 3
    Other = "o"  TagIds <- MCTagIds  MaxIncidents = 1
    Builders = {b1, b2}  Searchers = {s1}  Specs = {e1, e2}
    p1 = p1  p2 = p2  t1 = t1  t2 = t2
    Passages <- MCPassages  Quotes <- MCQuotes  TextOf <- MCTextOf
    Snapshots <- MCSnapshots  Batch = 1  MaxSyncs = 1
SYMMETRY Symmetry
INVARIANTS
    NothingHiddenShown ViewsAreExact ActiveIsComplete HybridIsComplete
PROPERTIES
    ScopedWrites
\* Every bound of a part may be used up.
CHECK_DEADLOCK FALSE
