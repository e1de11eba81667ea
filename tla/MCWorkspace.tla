---------------------------- MODULE MCWorkspace ----------------------------
(***************************************************************************)
(* Instances of Access for TLC.  Processes, calls, threads and requests    *)
(* are two or three; each part has the crashes, edits and rivals that its  *)
(* module names, as many as its bounds allow.                              *)
(***************************************************************************)
EXTENDS Access, TLC

CONSTANTS Modelled,
          t1, t2, t3,       \* processes, threads or calls
          f1, f2,           \* files written in place
          plain, veiled,    \* texts, one hidden
          slugA, slugB, slugC, slugM, slugU     \* slugs

VARIABLE asks               \* which operations on metadata people ask for

(* Two processes, two files, three writes.                                 *)

MCWriters      == {t1, t2}
MCDestinations == {f1, f2}

(* Two threads of one process and a third in another.                      *)

MCThreads == {t1, t2, t3}
MCPids    == {1, 2}
MCPidOf   == (t1 :> 1) @@ (t2 :> 1) @@ (t3 :> 2)

(* Three requests, two permits, two ids, a caller of two libraries, the public. *)

MCHttpRequests == {t1, t2, t3}
MCRequestIds   == {1, 2}
MCHttpCallers  == {[token |-> "a", library |-> "k"], [token |-> "a", library |-> "l"],
                   [token |-> "", library |-> "k"]}
MCHttpGrants   == [a |-> [libraries |-> {"k", "l"}, capabilities |-> {"read", "model"}]]
MCPublicGrant  == {[library |-> "k", capability |-> "read"]}

(* Eight of the sixteen principals, an extension that may only write.       *)

MCPrincipals == {{"Read", "Write", "Model", "Private"}, {"Read"}, {"Write"},
                 {"Read", "Write"}, {"Read", "Model"}, {"Write", "Private"},
                 {"Read", "Write", "Private"}, {"Read", "Write", "Model"}}
MCExtension  == {"Write"}

(* Two calls about two answers that cite one source.                       *)

MCAnswerCalls   == {t1, t2}
MCAnswerSources == {"s"}
MCSavedAnswers  == {[cites |-> {<<"s", 1>>}, visibility |-> v] : v \in {0, 2}}

(* Two processes, one article that may be hidden, a crash; a rebuild is     *)
(* among the operations the processes are asked for.                        *)

OneArticle == {1}
BothTexts  == {plain, veiled}
HiddenText == {veiled}
Asks       == {{"open", "rebuild", "trail", "taxonomy", "xici"},
               {"open", "rebuild", "backlinks", "sources", "entities"}}
AsAsked    == \A p \in MCWriters : op'[p] \in MetaOps => op'[p] \in asks

(* a and b look like one concept, c links to b and to what is missing, u   *)
(* has a slug to be cleaned.                                               *)

Article(parts, made, links, private) ==
    [parts |-> parts, made |-> made, links |-> links, private |-> private]
World(hidden, thin) ==
    (slugA :> Article({1}, {1}, {slugM}, FALSE) @@ slugB :> Article({2}, {}, {}, FALSE)
     @@ slugC :> Article({3}, {3}, {slugB, slugU, slugM}, hidden) @@ slugM :> None
     @@ slugU :> IF thin THEN Article({}, {}, {}, FALSE) ELSE None)

Slugs      == {slugA, slugB, slugC, slugM, slugU}
Cleaned    == (slugU :> slugM) @@ [n \in Slugs \ {slugU} |-> n]
Similar    == {<<slugA, slugB>>}
AsciiSlugs == {slugB, slugC}
Worlds     == {World(hidden, thin) : hidden, thin \in BOOLEAN}
Orders     == {<<slugA, slugB, slugC, slugU>>, <<slugU, slugB, slugA, slugC>>}
Plans      == {<<"slugs", "clean", "metadata">>, <<"dedup", "taxonomy">>,
               <<"normalize">>, <<"stubs">>}

-----------------------------------------------------------------------------
WorkspaceInit ==
    /\ part \in Modelled /\ Init
    /\ IF part = "projections" THEN asks \in Asks ELSE asks = None

WorkspaceNext == Next /\ (part = "projections" => AsAsked) /\ UNCHANGED asks

WorkspaceSpec == WorkspaceInit /\ [][WorkspaceNext]_<<vars, asks>>

\* Processes, calls and the threads of one process are interchangeable.
Symmetry == Permutations({t1, t2})

-----------------------------------------------------------------------------
\* A replay refuses only what a person changed (maintenance.md).
RefusalHasCause == [][part = "projections" => P!RefusesWithCause]_vars
=============================================================================
