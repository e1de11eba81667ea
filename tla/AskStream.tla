------------------------------ MODULE AskStream ------------------------------
(***************************************************************************)
(* One streamed question: the supervisor and run_ask of                    *)
(* crates/llmbase-core/src/ask.rs, the model client's stream of            *)
(* crates/llmbase-model/src/lib.rs that feeds it, and the consumer that    *)
(* reads its events and may cancel it or hang up.                          *)
(*                                                                         *)
(* Provider, supervisor and consumer are joined by two bounded channels.   *)
(* A task that is polled goes on until it must wait, so a step may still   *)
(* be taken after a cancellation the poll has not seen.                    *)
(*                                                                         *)
(* Text is a sequence of pieces, each told apart by the provider's attempt *)
(* and its place in it.  `got` and `request` are history variables.        *)
(*                                                                         *)
(* StreamLeftOpen, TakesAnything, QuietIfCancelled, ReplaysText and        *)
(* DeadlineBetweenEvents are mutants: plausible slips in the operator that *)
(* follows each, used by no action.                                        *)
(***************************************************************************)
EXTENDS Naturals, Sequences

CONSTANTS Limits,    \* attempts allowed to the first model and each fallback
          Channel,   \* events the consumer may leave unread: 16 in the code
          Buffer,    \* events the supervisor may leave unread: stream_buffer
          MaxPieces, MaxUsages  \* bounds on the answer, for model checking only

ASSUME LimitAssumption   == Limits \in Seq(Nat \ {0}) /\ Limits # <<>>
ASSUME ChannelAssumption == Channel \in Nat \ {0} /\ Buffer \in Nat \ {0}
ASSUME BoundAssumption   == MaxPieces \in Nat /\ MaxUsages \in Nat

VARIABLES at,         \* where the supervisor stands
          text,       \* the deltas it has taken in
          held,       \* the event it is forwarding
          partial,    \* Emitter.partial
          sequence,   \* Emitter.sequence
          queue,      \* the consumer's channel
          got,        \* what the consumer has read
          listening,  \* the consumer still holds the AskStream
          cancelled,  \* the request's token
          worker,     \* a blocking thread reads the library
          net,        \* where the provider task stands
          model, try, \* which model, and which of its attempts
          request,    \* requests sent to the provider so far
          content,    \* ChatResponse.content so far
          usages,     \* usage events so far
          buffer      \* the supervisor's channel

emitter  == <<partial, sequence, queue>>
consumer == <<got, listening, cancelled>>
attempt  == <<model, try, request>>
provider == <<net, attempt, content, usages, buffer>>
vars     == <<at, text, held, emitter, consumer, worker, provider>>

Terminals  == {"done", "error"}
EventKinds == {"progress", "evidence", "delta", "usage"} \cup Terminals

Nil == [kind |-> "none", piece |-> <<0, 0>>]

\* The provider holds a connection, or is about to.
Connected == net \in {"post", "backoff", "open"}

Init == /\ at = "start" /\ text = <<>> /\ held = Nil
        /\ partial = FALSE /\ sequence = 0 /\ queue = <<>>
        /\ got = <<>> /\ listening = TRUE /\ cancelled = FALSE
        /\ worker = FALSE
        /\ net = "none" /\ model = 1 /\ try = 1 /\ request = 1
        /\ content = <<>> /\ usages = 0 /\ buffer = <<>>

-----------------------------------------------------------------------------
(* The supervisor.                                                         *)

\* Emitter::send waits for room in the channel.
Send(kind, piece) ==
    /\ Len(queue) < Channel
    /\ queue' = Append(queue, [kind |-> kind, piece |-> piece, n |-> sequence,
                               partial |-> partial])
    /\ sequence' = sequence + 1
    /\ UNCHANGED partial

\* run_ask is dropped, and with it the ChatStream, which aborts the provider.
StreamLeftOpen == UNCHANGED provider
StreamDropped  == /\ net' = "over" /\ buffer' = <<>>
                  /\ UNCHANGED <<attempt, content, usages>>

Fails == at' = "error" /\ StreamDropped

Retrieve ==
    /\ at = "start"
    /\ Send("progress", <<0, 0>>)
    /\ worker' = TRUE
    /\ at' = "retrieval"
    /\ UNCHANGED <<text, held, consumer, provider>>

\* The blocking thread answers, or fails.
Retrieved ==
    /\ at = "retrieval"
    /\ worker' = FALSE
    /\ \/ at' = "evidence" /\ UNCHANGED provider
       \/ Fails
    /\ UNCHANGED <<text, held, emitter, consumer>>

\* Evidence goes out even when none of it fits the context.
Evidence ==
    /\ at = "evidence"
    /\ Send("evidence", <<0, 0>>)
    /\ \/ at' = "generation" /\ UNCHANGED provider
       \/ Fails
    /\ UNCHANGED <<text, held, consumer, worker>>

\* Client::stream spawns the provider task.
Generate ==
    /\ at = "generation"
    /\ Send("progress", <<0, 0>>)
    /\ at' = "wait"
    /\ net' = "post"
    /\ UNCHANGED <<text, held, consumer, worker, attempt, content, usages, buffer>>

\* Content that was not streamed is no answer.
TakesAnything == TRUE
Answered == text # <<>> /\ text = content

Take ==
    /\ at = "wait" /\ buffer # <<>>
    /\ LET e == Head(buffer) IN
          \/ /\ e.kind \in {"delta", "usage"}
             /\ at' = "forward" /\ held' = e
             /\ text' = IF e.kind = "delta" THEN Append(text, e.piece) ELSE text
             /\ partial' = (partial \/ e.kind = "delta")
             /\ buffer' = Tail(buffer)
             /\ UNCHANGED <<net, attempt, content, usages, worker>>
          \/ /\ e.kind = "done" /\ Answered
             /\ at' = "verify" /\ worker' = TRUE
             /\ buffer' = Tail(buffer)
             /\ UNCHANGED <<net, attempt, content, usages, text, held, partial>>
          \/ /\ e.kind = "error" \/ (e.kind = "done" /\ ~Answered)
             /\ Fails
             /\ UNCHANGED <<text, held, partial, worker>>
    /\ UNCHANGED <<sequence, queue, consumer>>

Forward ==
    /\ at = "forward"
    /\ Send(held.kind, held.piece)
    /\ at' = "wait" /\ held' = Nil
    /\ UNCHANGED <<text, consumer, worker, provider>>

\* The citations are resolved again on a blocking thread.
Verified ==
    /\ at = "verify"
    /\ worker' = FALSE
    /\ \/ at' = "done" /\ UNCHANGED provider
       \/ Fails
    /\ UNCHANGED <<text, held, emitter, consumer>>

Finish ==
    /\ at = "done"
    /\ Send("done", <<0, 0>>)
    /\ at' = "ended"
    /\ UNCHANGED <<text, held, consumer, worker, provider>>

\* The select sees the token before run_ask's result.
Abort ==
    /\ cancelled /\ at \notin {"error", "ended"}
    /\ Fails
    /\ held' = Nil
    /\ UNCHANGED <<text, emitter, consumer, worker>>

\* The error waits for room like any other event, and nothing cuts it short
\* but the consumer's going.
QuietIfCancelled == IF cancelled THEN UNCHANGED emitter ELSE Send("error", <<0, 0>>)
LastWord         == Send("error", <<0, 0>>)

Error ==
    /\ at = "error"
    /\ LastWord
    /\ at' = "ended"
    /\ UNCHANGED <<text, held, consumer, worker, provider>>

\* A blocking thread whose result nobody waits for.
WorkerEnds ==
    /\ worker /\ at \notin {"retrieval", "verify"}
    /\ worker' = FALSE
    /\ UNCHANGED <<at, text, held, emitter, consumer, provider>>

-----------------------------------------------------------------------------
(* The consumer.                                                           *)

Receive ==
    /\ listening /\ queue # <<>>
    /\ got' = Append(got, Head(queue))
    /\ queue' = Tail(queue)
    /\ UNCHANGED <<at, text, held, partial, sequence, listening, cancelled, worker,
                   provider>>

Cancel ==
    /\ listening /\ ~cancelled
    /\ cancelled' = TRUE
    /\ UNCHANGED <<at, text, held, emitter, got, listening, worker, provider>>

\* AskStream is dropped: token and abort.
HangUp ==
    /\ listening
    /\ listening' = FALSE /\ cancelled' = TRUE
    /\ at' = "ended" /\ held' = Nil /\ queue' = <<>>
    /\ StreamDropped
    /\ UNCHANGED <<text, partial, sequence, got, worker>>

-----------------------------------------------------------------------------
(* The provider task: stream_inner, consume_stream, guarded.               *)

Emit(kind, piece) == /\ Len(buffer) < Buffer
                     /\ buffer' = Append(buffer, [kind |-> kind, piece |-> piece])

others == <<at, text, held, emitter, consumer, worker>>

Accept ==
    /\ net = "post"
    /\ net' = "open"
    /\ UNCHANGED <<others, attempt, content, usages, buffer>>

\* The next model, if there is one.
NextModel ==
    IF model < Len(Limits)
    THEN net' = "post" /\ model' = model + 1 /\ try' = 1 /\ request' = request + 1
    ELSE net' = "fail" /\ UNCHANGED attempt

\* A failure that may be retried, one that may not, or one that ends the call:
\* a timeout, or a response that is no event stream.
Refuse ==
    /\ net = "post"
    /\ \/ IF try < Limits[model] THEN net' = "backoff" /\ UNCHANGED attempt
          ELSE NextModel
       \/ NextModel
       \/ net' = "fail" /\ UNCHANGED attempt
    /\ UNCHANGED <<others, content, usages, buffer>>

Retry ==
    /\ net = "backoff"
    /\ net' = "post" /\ try' = try + 1 /\ request' = request + 1
    /\ UNCHANGED <<others, model, content, usages, buffer>>

Piece ==
    LET piece == <<request, Len(content) + 1>>
    IN  /\ net = "open" /\ Len(content) < MaxPieces
        /\ content' = Append(content, piece)
        /\ Emit("delta", piece)
        /\ UNCHANGED <<others, net, attempt, usages>>

Usage ==
    /\ net = "open" /\ usages < MaxUsages
    /\ usages' = usages + 1
    /\ Emit("usage", <<0, 0>>)
    /\ UNCHANGED <<others, net, attempt, content>>

\* [DONE]: the response may have content, or reasoning in its place, or none.
Complete ==
    /\ net = "open"
    /\ Emit("done", <<0, 0>>)
    /\ net' = "over"
    /\ UNCHANGED <<others, attempt, content, usages>>

\* The stream ends early, is malformed or too large.  The headers were
\* accepted, so it is not tried again.
ReplaysText == /\ net' = "post" /\ request' = request + 1 /\ content' = <<>>
               /\ UNCHANGED <<model, try>>
NotReplayed == net' = "fail" /\ UNCHANGED <<attempt, content>>

Break ==
    /\ net = "open"
    /\ NotReplayed
    /\ UNCHANGED <<others, usages, buffer>>

\* The one deadline covers requests, waits and a full channel alike.
DeadlineBetweenEvents == Connected /\ Len(buffer) < Buffer
DeadlineCovers == Connected

Deadline ==
    /\ DeadlineCovers
    /\ net' = "fail"
    /\ UNCHANGED <<others, attempt, content, usages, buffer>>

\* guarded sees the token, which is a child of the request's.
Cancelled ==
    /\ cancelled /\ Connected
    /\ net' = "fail"
    /\ UNCHANGED <<others, attempt, content, usages, buffer>>

\* The error follows what is buffered.  The task always ends with it or with
\* Complete, so the supervisor never finds the channel closed and empty.
Fail ==
    /\ net = "fail"
    /\ Emit("error", <<0, 0>>)
    /\ net' = "over"
    /\ UNCHANGED <<others, attempt, content, usages>>

-----------------------------------------------------------------------------
Supervisor == \/ Retrieve \/ Retrieved \/ Evidence \/ Generate \/ Take \/ Forward
              \/ Verified \/ Finish \/ Abort \/ Error \/ WorkerEnds
Provider   == \/ Accept \/ Refuse \/ Retry \/ Complete \/ Break \/ Piece \/ Usage
              \/ Cancelled \/ Fail
Consumer   == Receive \/ Cancel \/ HangUp

Next == Supervisor \/ Provider \/ Deadline \/ Consumer

Spec == Init /\ [][Next]_vars

\* Tasks that can go on are polled, blocking threads return, and timers fire.
\* Nothing is asked of the provider or of the consumer.
FairSpec == /\ Spec
            /\ WF_vars(Supervisor) /\ WF_vars(Deadline) /\ WF_vars(Fail)

-----------------------------------------------------------------------------
(* Properties.                                                             *)

Event == [kind : EventKinds, piece : Nat \X Nat, n : Nat, partial : BOOLEAN]

\* Types; and a provider is at work only while run_ask waits for it or hands on
\* what it said, so a question that is over costs nothing.
TypeOK ==
    /\ text \in Seq(Nat \X Nat) /\ content \in Seq(Nat \X Nat)
    /\ queue \in Seq(Event) /\ Len(queue) <= Channel /\ got \in Seq(Event)
    /\ Len(buffer) <= Buffer
    /\ partial \in BOOLEAN /\ listening \in BOOLEAN /\ cancelled \in BOOLEAN
    /\ worker \in BOOLEAN
    /\ model \in DOMAIN Limits /\ try \in 1..Limits[model]
    /\ net \notin {"none", "over"} => at \in {"wait", "forward"}

Sent == got \o queue
Deltas == {k \in DOMAIN Sent : Sent[k].kind = "delta"}

\* docs/rust-migration/ask.md: "monotonically increasing `sequence` starting at
\* zero" and "never a done event" after a failure.  The events of a question are
\* numbered without a gap; only the last is terminal; the text is that of a
\* single request to the provider, in order and without repetition; and an
\* error that denies prior text has none before it.
WellFormed ==
    /\ TypeOK
    /\ listening => Len(Sent) = sequence
    /\ \A k \in DOMAIN Sent : Sent[k].n = k - 1
    /\ \A k \in DOMAIN Sent : Sent[k].kind \in Terminals => k = Len(Sent) /\ at = "ended"
    /\ \A j, k \in Deltas :
          /\ Sent[j].piece[1] = Sent[k].piece[1]
          /\ j < k => Sent[j].piece[2] < Sent[k].piece[2]
    /\ \A k \in DOMAIN Sent : Sent[k].kind = "error" /\ ~Sent[k].partial => Deltas = {}

\* A question is done only when its whole answer was streamed: the provider
\* completed it, it is not empty, and every piece of it came before.
AnswerIsStreamed ==
    \A k \in DOMAIN Sent : Sent[k].kind = "done" =>
        /\ net = "over" /\ content # <<>>
        /\ {Sent[j].piece : j \in Deltas} = {content[j] : j \in DOMAIN content}

\* model-adapter.md: "One wall-clock deadline covers the entire operation
\* including fallback, backoff, response consumption, and stream-channel
\* backpressure."  No connection is held for ever, whether or not the consumer
\* reads and the provider speaks.
ConnectionEnds == Connected ~> ~Connected

\* A consumer that keeps reading learns how its question ended, for all the
\* bounded channels between the parts and whoever cancels.
TerminalReaches ==
    WF_vars(Receive) =>
        <>(~listening \/ \E k \in DOMAIN got : got[k].kind \in Terminals)

=============================================================================
