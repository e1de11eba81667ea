----------------------------- MODULE VectorIndex -----------------------------
(***************************************************************************)
(* Vector generations: crates/llmbase-core/src/vector.rs.  Builders embed  *)
(* the passages of a snapshot batch by batch and activate the complete     *)
(* generation; searches read the active generation, embed the query and    *)
(* rank.  Meanwhile the index is synced by others, and calls to the        *)
(* provider take any time, fail, or are cancelled.                         *)
(*                                                                         *)
(* A generation is named by the specification and the snapshot it was      *)
(* built from, whose hashes are its id.  Vectors are left out: what counts *)
(* is which texts have one.                                                *)
(*                                                                         *)
(* CachedAtEnd, FailsActive and SameGeneration are mutants: plausible slips *)
(* in the operator that follows each, used by no action.                   *)
(***************************************************************************)
EXTENDS Naturals, FiniteSets

CONSTANTS Builders, Searchers,
          Specs,     \* embedding specifications: provider, model, revision
          Passages,
          Snapshots, \* the sets of passages the index goes through
          Texts,     \* what passages and queries say
          TextOf,    \* the quote of each passage
          Nothing,
          Batch,     \* texts per request to the provider: 32 in the code
          MaxSyncs   \* bounds the run, for model checking only

TextAssumption == TextOf \in [Passages -> Texts]
NumberAssumption == Batch \in Nat \ {0} /\ MaxSyncs \in Nat
SnapshotAssumption == Snapshots \subseteq SUBSET Passages

VARIABLES index,    \* the active passages of live sources
          cache,    \* embedding_cache: the texts with a vector, by specification
          state,    \* vector_generations: its state column
          members,  \* vector_members
          active,   \* vector_active
          build,    \* what each builder is doing
          search,   \* what each search is doing
          syncs

tables == <<cache, state, members, active>>
vars   == <<index, cache, state, members, active, build, search, syncs>>

Generations == [spec : Specs, passages : Snapshots]
TextsOf(ps) == {TextOf[p] : p \in ps}
Cached(s, ts) == ts \subseteq {e[2] : e \in {f \in cache : f[1] = s}}

\* A builder of g, the texts it still lacks and those it asked for.
Builder(stage, g, pending, asked, same) ==
    [stage |-> stage, gen |-> g, pending |-> pending, asked |-> asked, same |-> same]
NoBuild  == Builder("idle", Nothing, {}, {}, FALSE)
\* A search of g for a query.
Searcher(stage, g, query) == [stage |-> stage, gen |-> g, query |-> query]
NoSearch == Searcher("idle", Nothing, Nothing)

Init == /\ index \in Snapshots
        /\ cache = {}
        /\ state = [g \in Generations |-> "absent"]
        /\ members = [g \in Generations |-> {}]
        /\ active = Nothing
        /\ build = [b \in Builders |-> NoBuild]
        /\ search = [s \in Searchers |-> NoSearch]
        /\ syncs = 0

\* The index changes: sync_locked of another handle commits.
Sync == /\ syncs < MaxSyncs
        /\ syncs' = syncs + 1
        /\ index' \in Snapshots \ {index}
        /\ UNCHANGED <<tables, build, search>>

-----------------------------------------------------------------------------
(* build_vectors.                                                          *)

Stage(b, s)   == build[b].stage = s
Gen(b)        == build[b].gen
Become(b, r)  == build' = [build EXCEPT ![b] = r]
Return(b)     == Become(b, NoBuild)
GiveUp(b)     == Become(b, Builder("fail", Gen(b), {}, {}, FALSE))

Begin(b, s) ==
    /\ Stage(b, "idle")
    /\ Become(b, Builder("active", [spec |-> s, passages |-> index], {}, {}, FALSE))
    /\ UNCHANGED <<index, tables, search, syncs>>

ReadActive(b) ==
    /\ Stage(b, "active")
    /\ Become(b, Builder("scan", Gen(b), {}, {}, active = Gen(b)))
    /\ UNCHANGED <<index, tables, search, syncs>>

\* Each distinct text is looked up in the cache once.  If the active generation
\* is that of the snapshot and nothing is missing, it is only validated.
Scan(b) ==
    LET pending == {t \in TextsOf(Gen(b).passages) : ~Cached(Gen(b).spec, {t})}
    IN  /\ Stage(b, "scan")
        /\ IF build[b].same /\ pending = {} THEN Return(b)
           ELSE Become(b, Builder("register", Gen(b), pending, {}, FALSE))
        /\ UNCHANGED <<index, tables, search, syncs>>

Register(b) ==
    /\ Stage(b, "register")
    /\ state' = [state EXCEPT ![Gen(b)] = IF @ = "ready" THEN "ready" ELSE "building"]
    /\ Become(b, Builder("embed", Gen(b), build[b].pending, {}, FALSE))
    /\ UNCHANGED <<index, cache, members, active, search, syncs>>

\* populate_generation: a request for the next batch goes out.
Ask(b) ==
    /\ Stage(b, "embed")
    /\ \E ts \in SUBSET build[b].pending :
          /\ ts # {} /\ Cardinality(ts) <= Batch
          /\ Become(b, Builder("wait", Gen(b), build[b].pending, ts, FALSE))
    /\ UNCHANGED <<index, tables, search, syncs>>

CachedAtEnd(b) == IF build[b].pending # build[b].asked THEN cache
                  ELSE cache \cup ({Gen(b).spec} \X TextsOf(Gen(b).passages))
CachedNow(b) == cache \cup ({Gen(b).spec} \X build[b].asked)

\* The vectors arrive and are committed before the next request.
Store(b) ==
    /\ Stage(b, "wait")
    /\ cache' = CachedNow(b)
    /\ Become(b, Builder("embed", Gen(b), build[b].pending \ build[b].asked, {}, FALSE))
    /\ UNCHANGED <<index, state, members, active, search, syncs>>

SnapshotHolds(b) == index = Gen(b).passages

\* One transaction: the snapshot must still be that of the index.
Activate(b) ==
    /\ Stage(b, "embed") /\ build[b].pending = {}
    /\ IF SnapshotHolds(b) /\ Cached(Gen(b).spec, TextsOf(index))
       THEN /\ members' = [members EXCEPT ![Gen(b)] = index]
            /\ state' = [state EXCEPT ![Gen(b)] = "ready"]
            /\ active' = Gen(b)
            /\ Return(b)
       ELSE GiveUp(b) /\ UNCHANGED <<state, members, active>>
    /\ UNCHANGED <<index, cache, search, syncs>>

\* The provider fails, the answer does not fit, or the caller cancels.
Fail(b) ==
    /\ build[b].stage \in {"embed", "wait"}
    /\ GiveUp(b)
    /\ UNCHANGED <<index, tables, search, syncs>>

FailsActive(b) == TRUE
MayFail(b) == active # Gen(b)

MarkFailed(b) ==
    /\ Stage(b, "fail")
    /\ state' = IF MayFail(b) THEN [state EXCEPT ![Gen(b)] = "failed"] ELSE state
    /\ Return(b)
    /\ UNCHANGED <<index, cache, members, active, search, syncs>>

\* The process dies, SQLite refuses, or the caller cancels early on.
Abandon(b) ==
    /\ ~Stage(b, "idle")
    /\ Return(b)
    /\ UNCHANGED <<index, tables, search, syncs>>

-----------------------------------------------------------------------------
(* search_hybrid.                                                          *)

On(s, t)  == search[s].stage = t
Goto(s, t) == search' = [search EXCEPT ![s] = Searcher(t, search[s].gen, search[s].query)]
Answer(s) == search' = [search EXCEPT ![s] = NoSearch]

\* active_generation: with none that is ready, the answer is lexical.
Search(s, query) ==
    /\ On(s, "idle")
    /\ active # Nothing /\ state[active] = "ready"
    /\ search' = [search EXCEPT ![s] = Searcher("fresh", active, query)]
    /\ UNCHANGED <<index, tables, build, syncs>>

\* A generation of another snapshot is not searched at all.
IsFresh(s) ==
    /\ On(s, "fresh")
    /\ IF index = search[s].gen.passages
       THEN Goto(s, "query")
       ELSE Answer(s)
    /\ UNCHANGED <<index, tables, build, syncs>>

\* The query's vector comes from the cache, or from the provider and is kept.
EmbedQuery(s) ==
    /\ On(s, "query")
    /\ cache' = cache \cup {<<search[s].gen.spec, search[s].query>>}
    /\ Goto(s, "rank")
    /\ UNCHANGED <<index, state, members, active, build, syncs>>

SearchFails(s) ==
    /\ On(s, "query")
    /\ Answer(s)
    /\ UNCHANGED <<index, tables, build, syncs>>

SameGeneration(s) == active = search[s].gen /\ state[active] = "ready"
StillFresh(s) == /\ active = search[s].gen /\ state[active] = "ready"
                 /\ index = search[s].gen.passages

\* The passages the ranking joins: members, with a vector, still active.
Ranked(s) ==
    LET g == search[s].gen
    IN  {p \in members[g] \cap index : Cached(g.spec, {TextOf[p]})}

\* Everything read so far may have changed since.  If it did the answer is
\* lexical, else it fuses the lexical ranking with that of Ranked.
Rank(s) ==
    /\ On(s, "rank")
    /\ Answer(s)
    /\ UNCHANGED <<index, tables, build, syncs>>

Build(b) == \/ \E s \in Specs : Begin(b, s)
            \/ ReadActive(b) \/ Scan(b) \/ Register(b) \/ MarkFailed(b)

Next == \/ Sync
        \/ \E b \in Builders : \/ Build(b) \/ Ask(b) \/ Store(b) \/ Activate(b)
                               \/ Fail(b) \/ Abandon(b)
        \/ \E s \in Searchers : \/ \E query \in Texts : Search(s, query)
                                \/ IsFresh(s) \/ EmbedQuery(s) \/ SearchFails(s)
                                \/ Rank(s)

Spec == Init /\ [][Next]_vars

-----------------------------------------------------------------------------
(* Properties.                                                             *)

\* Types, and what a builder's progress says of the cache: every text of its
\* snapshot that is not pending has a vector already.
TypeOK ==
    /\ index \in Snapshots
    /\ cache \subseteq Specs \X Texts
    /\ state \in [Generations -> {"absent", "building", "ready", "failed"}]
    /\ members \in [Generations -> SUBSET Passages]
    /\ active \in Generations \cup {Nothing}
    /\ \A b \in Builders :
          Stage(b, "embed") \/ Stage(b, "wait") =>
              Cached(Gen(b).spec, TextsOf(Gen(b).passages) \ build[b].pending)
    /\ syncs \in 0..MaxSyncs

\* The active generation is ready and complete, whatever other builders of it
\* or of other generations do, fail at or leave behind.
ActiveIsComplete ==
    /\ TypeOK
    /\ active # Nothing =>
         /\ state[active] = "ready"
         /\ members[active] = active.passages
         /\ Cached(active.spec, TextsOf(active.passages))

\* A hybrid answer ranks every passage of the index, and no other, by vectors
\* of one specification, that of the query's own vector, though the provider
\* was waited for between the choice of the generation and the ranking.
HybridIsComplete ==
    \A s \in Searchers :
        On(s, "rank") /\ StillFresh(s) =>
            /\ Ranked(s) = index
            /\ Cached(search[s].gen.spec, {search[s].query})

=============================================================================
