---------------------------- MODULE Application ----------------------------
(***************************************************************************)
(* Who may do what: the operations of crates/llmbase-core/src/             *)
(* application.rs with the capabilities they take, the jobs that carry an  *)
(* operation from one principal to another (worker.rs), and extensions,    *)
(* which act with their own capabilities (extensions.rs).                  *)
(*                                                                         *)
(* A principal is a set of capabilities; there is one library.  Operations *)
(* that the code lists and treats alike are one here: "search" stands for  *)
(* every read that is scoped by the caller, "compat_kb_get" for the        *)
(* compatibility reads that are not, "answer_save" for the catalog's       *)
(* writes, "compile" for all that takes the four capabilities.  What an    *)
(* operation needs is from authorize, what it does from where it is        *)
(* dispatched.  The writes of a single source are modelled further: a      *)
(* principal without Private is to see none that is private.               *)
(*                                                                         *)
(* TrustsEnqueuer, WholePrincipal and SkipsSync are mutants.               *)
(***************************************************************************)
EXTENDS Naturals, FiniteSets

CONSTANTS Principals,   \* sets of capabilities
          Extension,    \* what the registered extension declares
          None, MaxEvents

VARIABLES file, row,    \* of one source, on disk and indexed: a visibility or None
          job,          \* the job of a queue of one, or None
          last,         \* what is being done: for whom, as whom, with what effects
          events

vars == <<file, row, job, last, events>>

\* What the proofs assume.
Assumptions == None \notin {"public", "private"}

Capabilities == {"Read", "Write", "Model", "Private"}
Visibilities == {"public", "private"}

\* An operation and the argument that its authorization depends on.
Plain == {"search", "hybrid_search", "draft_get", "draft_apply", "answer_save",
          "index", "rebuild_metadata", "web_write_wiki_clean",
          "web_write_trail_save", "web_worker_status", "compat_kb_get",
          "compat_compile_write", "ingest_text", "compile", "ask", "job_get",
          "ns.extension"}
Request(o, arg, private) == [op |-> o, arg |-> arg, private |-> private]
PlainRequests == {Request(o, "", FALSE) : o \in Plain}
Queries       == {Request("legacy_query", arg, FALSE) : arg \in {"basic", "promote"}}
Repairs       == {Request("maintenance_repair", arg, private) :
                     arg \in {"clean", "auto_fix", "deep_lint"}, private \in BOOLEAN}
Requests      == PlainRequests \cup Queries \cup Repairs
SourceWrites == {Request(o, "", FALSE) : o \in {"source_write", "source_delete"}}

-----------------------------------------------------------------------------
(* What an operation needs.                                                *)

\* The table of authorize; an extension says itself what it needs.
Primary(r) ==
    (IF r.op = "ns.extension" THEN Extension ELSE {})
    \cup (IF \/ r.op = "maintenance_repair" /\ r.arg # "deep_lint"
             \/ r.op \in {"web_write_wiki_clean", "web_write_trail_save", "index",
                         "source_write", "source_delete", "job_enqueue", "job_retry",
                         "job_cancel", "job_run_one", "draft_apply", "answer_save",
                         "rebuild_metadata", "compat_compile_write", "ingest_text"}
          THEN {"Write"} ELSE {})
    \cup (IF \/ r.op = "maintenance_repair" /\ r.arg = "deep_lint"
             \/ r.op \in {"compile", "ask", "legacy_query"}
          THEN {"Model"} ELSE {})
    \cup (IF r.op = "job_get" THEN {"Private"} ELSE {})
    \cup (IF r.op \in {"search", "hybrid_search", "draft_get", "web_worker_status",
                       "compat_kb_get"} THEN {"Read"} ELSE {})

JobOperations == {"job_get", "job_enqueue", "job_retry", "job_cancel", "job_run_one"}

\* What authorize asks for beside the table.
Further(r) ==
    (IF r.op = "ingest_text" THEN {"Read", "Private"} ELSE {})
    \cup (IF r.op = "maintenance_repair"
          THEN {"Read"} \cup (IF r.arg # "clean" THEN {"Model"} ELSE {})
                        \cup (IF r.private THEN {"Private"} ELSE {})
          ELSE {})
    \cup (IF r.op \in {"compile", "draft_get", "draft_apply"}
          THEN {"Read", "Private"} ELSE {})
    \cup (IF r.op = "compile" THEN {"Write"} ELSE {})
    \cup (IF r.op \in {"ask", "legacy_query", "answer_save", "web_write_wiki_clean",
                       "web_write_trail_save"} THEN {"Read"} ELSE {})
    \cup (IF r.op = "legacy_query" /\ r.arg = "promote"
          THEN {"Write", "Private"} ELSE {})
    \cup (IF r.op \in JobOperations \cup {"compat_kb_get", "compat_compile_write",
                       "web_worker_status", "web_write_trail_save"}
          THEN {"Private"} ELSE {})

Authorized(principal, r) ==
    IF r.op = "ns.extension" THEN Primary(r) \subseteq principal
    ELSE Primary(r) \cup Further(r) \subseteq principal

-----------------------------------------------------------------------------
(* What an operation does.                                                 *)

\* The accepted state is changed.
Changes(r) ==
    \/ r.op \in {"index", "source_write", "source_delete", "draft_apply", "answer_save",
                 "rebuild_metadata", "web_write_wiki_clean", "web_write_trail_save",
                 "compat_compile_write", "ingest_text", "compile"}
    \/ r.op = "legacy_query" /\ r.arg = "promote"
    \/ r.op = "maintenance_repair" /\ r.arg # "deep_lint"

\* A model is called; by a hybrid search if one is configured, which a principal
\* without Model is refused.
Consults(r, embedding) ==
    \/ r.op \in {"compile", "ask", "legacy_query"}
    \/ r.op = "maintenance_repair" /\ r.arg # "clean"
    \/ r.op = "hybrid_search" /\ embedding

\* Private texts, jobs and drafts are read whoever asks; other operations show
\* a principal what it may see (Catalog, Web).
Reveals(r) ==
    \/ r.op \in {"draft_get", "draft_apply", "compile", "compat_kb_get",
                 "compat_compile_write", "web_write_trail_save", "web_worker_status",
                 "ingest_text"} \cup JobOperations
    \/ r.op = "legacy_query" /\ r.arg = "promote"
    \/ r.op = "maintenance_repair" /\ r.private

Effects(r, embedding) == (IF Changes(r) THEN {"Write"} ELSE {})
                         \cup (IF Consults(r, embedding) THEN {"Model"} ELSE {})
                         \cup (IF Reveals(r) THEN {"Private"} ELSE {})

\* search_hybrid.
MayEmbed(principal, r, embedding) ==
    r.op = "hybrid_search" /\ embedding => "Model" \in principal

-----------------------------------------------------------------------------
Init == /\ file \in Visibilities \cup {None} /\ row = file
        /\ job = None /\ last = None /\ events = 0

Did(asker, actor, r, effects) ==
    last' = [op |-> r.op, asker |-> asker, actor |-> actor, effects |-> effects]

\* A call, by whichever transport.
Execute(principal) ==
    \E r \in Requests, embedding \in BOOLEAN :
      /\ r.op # "ns.extension"
      /\ Authorized(principal, r) /\ MayEmbed(principal, r, embedding)
      /\ Did(principal, principal, r, Effects(r, embedding))
      /\ row' = IF r.op = "index" THEN file ELSE row
      /\ UNCHANGED <<file, job, events>>

SkipsSync(actor) == row

\* A principal without Private has the index brought up to date before it is
\* told by it what it may change.
Synced(actor) == IF "Private" \in actor THEN row ELSE file

\* source_write: over what the caller says it read.  Without Private it may
\* write neither over a private source nor what would be one.
SourceWrite(asker, actor) ==
    LET r == Request("source_write", "", FALSE) IN
    \E new \in Visibilities, expected \in Visibilities \cup {None} :
      /\ Authorized(actor, r)
      /\ "Private" \notin actor => new = "public" /\ Synced(actor) # "private"
      /\ file = expected
      /\ file' = new /\ row' = new
      /\ Did(asker, actor, r, Effects(r, FALSE))
      /\ UNCHANGED <<job, events>>

\* source_delete and source_rename: a source the caller sees, as it is on disk.
SourceDelete(asker, actor) ==
    LET r == Request("source_delete", "", FALSE) IN
    /\ Authorized(actor, r)
    /\ Synced(actor) \in IF "Private" \in actor THEN Visibilities ELSE {"public"}
    /\ file # None
    /\ file' = None /\ row' = None
    /\ Did(asker, actor, r, Effects(r, FALSE))
    /\ UNCHANGED <<job, events>>

WholePrincipal(principal) == Capabilities

\* An extension acts with what it declares, whatever else its caller may do.
ExtensionPrincipal(principal) == Extension

\* The services it is given: sources, the index and reads.
ExecuteExtension(principal) ==
    /\ Authorized(principal, Request("ns.extension", "", FALSE))
    /\ LET own == ExtensionPrincipal(principal)
       IN  \/ SourceWrite(principal, own) \/ SourceDelete(principal, own)
           \/ \E r \in {Request("search", "", FALSE), Request("index", "", FALSE)} :
                /\ Authorized(own, r)
                /\ Did(principal, own, r, Effects(r, FALSE))
                /\ row' = IF r.op = "index" THEN file ELSE row
                /\ UNCHANGED <<file, job, events>>

-----------------------------------------------------------------------------
(* Jobs.                                                                   *)

TrustsEnqueuer(principal, r) == r.op \notin JobOperations \cup {"ns.extension"}

\* job_enqueue asks whether the caller might do it itself; jobs on jobs and
\* extensions are refused.
MayEnqueue(principal, r) ==
    /\ r.op \notin JobOperations \cup {"ns.extension"}
    /\ Authorized(principal, r)

Enqueue(principal) ==
    \E r \in Requests \cup SourceWrites :
      /\ Authorized(principal, Request("job_enqueue", "", FALSE))
      /\ job = None /\ MayEnqueue(principal, r)
      /\ job' = [request |-> r, by |-> principal, status |-> "queued"]
      /\ UNCHANGED <<file, row, last, events>>

\* job_retry and job_cancel are anybody's who may manage jobs.
Manage(principal) ==
    /\ Authorized(principal, Request("job_retry", "", FALSE))
    /\ job # None
    /\ \/ job.status = "failed" /\ job' = [job EXCEPT !.status = "queued"]
       \/ job.status = "queued" /\ job' = None
    /\ UNCHANGED <<file, row, last, events>>

\* run_job: the worker does what it may itself; what it may not do fails.
RunJob(principal) ==
    /\ Authorized(principal, Request("job_run_one", "", FALSE))
    /\ job # None /\ job.status = "queued"
    /\ LET r == job.request IN
       \E embedding \in BOOLEAN :
         IF Authorized(principal, r) /\ MayEmbed(principal, r, embedding)
           THEN /\ Did(job.by, principal, r, Effects(r, embedding))
                /\ \/ r \in SourceWrites /\ file' \in Visibilities \cup {None}
                      /\ row' = file'
                   \/ r \notin SourceWrites /\ file' = file
                      /\ row' = IF r.op = "index" THEN file ELSE row
                /\ job' = None
           ELSE /\ job' = [job EXCEPT !.status = "failed"]
                /\ UNCHANGED <<file, row, last>>
    /\ UNCHANGED events

\* The call returns, whatever it was.
Return == last # None /\ last' = None /\ UNCHANGED <<file, row, job, events>>

\* A person edits, hides, publishes or removes the file.
Edit == /\ events < MaxEvents /\ events' = events + 1
        /\ file' \in (Visibilities \cup {None}) \ {file}
        /\ UNCHANGED <<row, job, last>>

Next == \/ /\ last = None
           /\ \E principal \in Principals :
             \/ Execute(principal) \/ SourceWrite(principal, principal)
             \/ SourceDelete(principal, principal) \/ ExecuteExtension(principal)
             \/ Enqueue(principal) \/ Manage(principal) \/ RunJob(principal)
        \/ last = None /\ Edit
        \/ Return

Spec == Init /\ [][Next]_vars

-----------------------------------------------------------------------------
(* Properties.                                                             *)

\* Whatever is done, who does it and who asked for it has the capability for
\* each of its effects; only the embedding of a query may come with the worker.
EffectsAreGranted ==
    last # None =>
      /\ last.effects \subseteq last.actor
      /\ (last.effects \ IF last.op = "hybrid_search" THEN {"Model"} ELSE {})
           \subseteq last.asker

\* What is done without Private changes no private source and makes none.
PrivateLeftAlone ==
    (file' # file /\ last' # None) =>
      ("Private" \notin last'.asker \cap last'.actor =>
         file # "private" /\ file' # "private")
=============================================================================
