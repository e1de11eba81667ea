-------------------------------- MODULE Views --------------------------------
(***************************************************************************)
(* The parts of the workspace that decide what is shown of it, one beside  *)
(* the other: what the catalog makes of the rows (Catalog), what a web     *)
(* request answers and writes (Web), what becomes of a model's answer      *)
(* before it is published (Generation), and what a semantic search ranks   *)
(* (VectorIndex).                                                          *)
(*                                                                         *)
(* They share no state: part says which of them a behaviour is of, and     *)
(* the variables of the others are None in it.                             *)
(***************************************************************************)
EXTENDS Naturals, Sequences, FiniteSets, Lists

CONSTANTS None,
          Shelf, Compiled, Sayings, Libraries, Ends, Documents, Queries, MaxWrites,
          Pages, CompiledPages, PageTexts, Sites, AliasFiles, NamesAsked, Operations,
          Bound, MaxEvents,
          Filing, Tags, Trees, Mentions, Sizes, MaxDepth, MaxNodes, BatchSize, MaxPrompt,
          Other, TagIds, MaxIncidents,
          Builders, Searchers, Specs, Passages, Snapshots, Quotes, TextOf, Batch, MaxSyncs

VARIABLES part,
          source, entry, history, relations, accepted, generated, by, writes,
          file, row, rev, past, stuck, index, health, aliases, at, op, private, saw,
          revs, word, found, todo, done, failed, result, open, changed, events,
          text, seen, touched, stage, batches, k, entities, answer, published, tagging,
          degraded, amiss, cancel, status, incidents,
          snapshot, vectors, state, members, active, build, search, syncs

catalogVars == <<source, entry, history, relations, accepted, generated, by, writes>>
webVars     == <<file, row, rev, past, stuck, index, health, aliases, at, op, private,
                 saw, revs, word, found, todo, done, failed, result, open, changed,
                 events>>
draftVars   == <<text, seen, touched, stage, batches, k, entities, answer, published,
                 tagging, degraded, amiss, cancel, status, incidents>>
vectorVars  == <<snapshot, vectors, state, members, active, build, search, syncs>>
vars == <<part, catalogVars, webVars, draftVars, vectorVars>>

C == INSTANCE Catalog WITH
       Order <- Shelf, Texts <- Sayings, Worlds <- Libraries, MaxEvents <- MaxWrites,
       file <- source, row <- entry, past <- history, cache <- generated, events <- writes

W == INSTANCE Web WITH
       Order <- Pages, Texts <- PageTexts, Worlds <- Sites,
       Articles <- CompiledPages, Aliases <- AliasFiles, Words <- NamesAsked

T == INSTANCE Generation WITH
       Order <- Filing, MaxEvents <- MaxIncidents,
       at <- stage, found <- entities, failed <- amiss, events <- incidents

V == INSTANCE VectorIndex WITH
       Texts <- Quotes, Nothing <- None, index <- snapshot, cache <- vectors

ASSUME Assumptions == /\ C!Assumptions /\ W!Assumptions /\ T!Assumptions
                      /\ V!TextAssumption /\ V!NumberAssumption /\ V!SnapshotAssumption

NoCatalog == /\ source = None /\ entry = None /\ history = None /\ relations = None
             /\ accepted = None /\ generated = None /\ by = None /\ writes = None
NoWeb     == /\ file = None /\ row = None /\ rev = None /\ past = None /\ stuck = None
             /\ index = None /\ health = None /\ aliases = None /\ at = None
             /\ op = None /\ private = None /\ saw = None /\ revs = None
             /\ word = None /\ found = None /\ todo = None /\ done = None
             /\ failed = None /\ result = None /\ open = None /\ changed = None
             /\ events = None
NoDraft   == /\ text = None /\ seen = None /\ touched = None /\ stage = None
             /\ batches = None /\ k = None /\ entities = None /\ answer = None
             /\ published = None /\ tagging = None /\ degraded = None /\ amiss = None
             /\ cancel = None /\ status = None /\ incidents = None
NoVectors == /\ snapshot = None /\ vectors = None /\ state = None /\ members = None
             /\ active = None /\ build = None /\ search = None /\ syncs = None

Init ==
    \/ part = "catalog"    /\ C!Init /\ NoWeb /\ NoDraft /\ NoVectors
    \/ part = "web"        /\ W!Init /\ NoCatalog /\ NoDraft /\ NoVectors
    \/ part = "generation" /\ T!Init /\ NoCatalog /\ NoWeb /\ NoVectors
    \/ part = "vectors"    /\ V!Init /\ NoCatalog /\ NoWeb /\ NoDraft

Next ==
    /\ \/ /\ part = "catalog" /\ C!Next
          /\ UNCHANGED <<webVars, draftVars, vectorVars>>
       \/ /\ part = "web" /\ W!Next
          /\ UNCHANGED <<catalogVars, draftVars, vectorVars>>
       \/ /\ part = "generation" /\ T!Next
          /\ UNCHANGED <<catalogVars, webVars, vectorVars>>
       \/ /\ part = "vectors" /\ V!Next
          /\ UNCHANGED <<catalogVars, webVars, draftVars>>
    /\ UNCHANGED part

Spec == Init /\ [][Next]_vars

-----------------------------------------------------------------------------
(* The properties of the parts; the modules say what each one means.       *)

\* Public views show only what is public in the files, and are not shaped by
\* what is not (catalog.rs, store.rs, web_read.rs).
NothingHiddenShown ==
    /\ part = "catalog" => C!NothingHiddenShown /\ C!PublicIgnoresPrivate
    /\ part = "web"     => W!NothingHiddenAnswered

\* Graphs and the taxonomy are exact, or say that they are cut (catalog.rs,
\* export_graph); a generated tree files every article once, and entities are
\* merged that are one, and no others (maintenance_model.rs, entities_model.rs);
\* and what is claimed of either is so.
ViewsAreExact ==
    /\ part = "catalog" => C!TypeOK /\ C!ViewsAreExact
    /\ part = "web"     => W!GraphIsExact /\ W!ClaimsAreTrue
    /\ part = "generation" => /\ T!FiledOnce /\ T!BatchesCover /\ T!MergedExactly
                              /\ T!StatusIsHonest /\ T!OwnTagsKept

\* The active generation of vectors is ready and complete (vector.rs).
ActiveIsComplete == part = "vectors" => V!ActiveIsComplete

\* A hybrid answer ranks the whole index by one specification (vector.rs).
HybridIsComplete == part = "vectors" => V!HybridIsComplete

\* Relations keep their visibility, supports and notes, and the public writes
\* only what is public (add_relation, remove_relation, set_taxonomy); a request
\* writes over what it took and nothing else (web_write.rs).
ScopedStep ==
    /\ part = "catalog" => C!WritesKeep
    /\ part = "web"     => W!WritesAsTaken
ScopedWrites == [][ScopedStep]_vars
=============================================================================
