---------------------------- MODULE AskStreamProofs ----------------------------
(***************************************************************************)
(* Theorems about AskStream, for any attempts, models and channels and     *)
(* answers of any length.                                                  *)
(***************************************************************************)
EXTENDS AskStream, SequenceTheorems, TLAPS

Early    == {"start", "retrieval", "evidence", "generation"}
Waiting  == {"wait", "forward"}
Late     == {"verify", "done", "error", "ended"}
Pieces   == Nat \X Nat
Messages == [kind : {"delta", "usage", "done", "error"}, piece : Pieces]

Types ==
    /\ at \in Early \cup Waiting \cup Late
    /\ net \in {"none", "post", "backoff", "open", "fail", "over"}
    /\ text \in Seq(Pieces) /\ content \in Seq(Pieces)
    /\ queue \in Seq(Event) /\ Len(queue) <= Channel /\ got \in Seq(Event)
    /\ buffer \in Seq(Messages) /\ Len(buffer) <= Buffer
    /\ held \in Messages \cup {Nil}
    /\ partial \in BOOLEAN /\ listening \in BOOLEAN /\ cancelled \in BOOLEAN /\ worker \in BOOLEAN
    /\ sequence \in Nat /\ usages \in Nat /\ request \in Nat
    /\ model \in DOMAIN Limits /\ try \in 1..Limits[model]
    /\ net = "backoff" => try < Limits[model]

\* A delta that was taken in and not yet sent.
Holding == at = "forward" /\ held.kind = "delta"

\* Who is at work when, and what a provider at work leaves behind.
InStep ==
    /\ at \in Early => net = "none" /\ text = <<>>
    /\ at \in Late => net = "over" /\ buffer = <<>>
    /\ net \in {"none", "post", "backoff"} => content = <<>>
    /\ net = "none" => at \in Early /\ buffer = <<>>
    /\ at = "forward" => held.kind \in {"delta", "usage"} /\ held \in Messages
    /\ Holding => text # <<>> /\ held.piece = <<request, Len(text)>>
    /\ partial \/ text = <<>>

\* What was taken in is a beginning of what the provider said, and the rest of
\* that is in the buffer.
TakenInOrder ==
    /\ \A i \in DOMAIN content : content[i] = <<request, i>>
    /\ \A i \in DOMAIN text : text[i] = <<request, i>>
    /\ Len(text) <= Len(content)
    /\ \A k \in DOMAIN buffer : buffer[k].kind \in {"done", "error"} => net = "over" /\ k = Len(buffer)
    /\ \A k \in DOMAIN buffer : buffer[k].kind = "delta" =>
          \E i \in 1..Len(content) : buffer[k].piece = <<request, i>> /\ i > Len(text)
    /\ \A j, k \in DOMAIN buffer :
          j < k /\ buffer[j].kind = "delta" /\ buffer[k].kind = "delta" =>
             buffer[j].piece[2] < buffer[k].piece[2]
    /\ at \in Waiting => \A i \in 1..Len(content) : i > Len(text) =>
          \E k \in DOMAIN buffer : buffer[k].kind = "delta" /\ buffer[k].piece = <<request, i>>

Numbered ==
    /\ listening => Len(Sent) = sequence
    /\ ~listening => at = "ended"
    /\ \A k \in DOMAIN Sent : Sent[k].n = k - 1

EndsOnce == \A k \in DOMAIN Sent : Sent[k].kind \in Terminals => k = Len(Sent) /\ at = "ended"

SentInOrder ==
    /\ \A k \in Deltas : \E i \in 1..Len(text) :
          Sent[k].piece = <<request, i>> /\ (Holding => i < Len(text))
    /\ \A j, k \in Deltas : j < k => Sent[j].piece[2] < Sent[k].piece[2]

AllSent ==
    at \in Waiting \cup {"verify", "done"} =>
       \A i \in 1..Len(text) :
          \/ Holding /\ i = Len(text)
          \/ \E k \in Deltas : Sent[k].piece = <<request, i>>

Truthful == \A k \in DOMAIN Sent : Sent[k].kind = "error" /\ ~Sent[k].partial => Deltas = {}

\* What "verify" and "done" stand for.
IsWhole == at \in {"verify", "done"} => text # <<>> /\ text = content

StreamInv == Numbered /\ EndsOnce /\ SentInOrder /\ AllSent /\ Truthful /\ AnswerIsStreamed
IInv == Types /\ InStep /\ TakenInOrder /\ IsWhole /\ StreamInv

-----------------------------------------------------------------------------
\* A non-empty sequence is a first element and the rest.
LEMMA HeadAndTail ==
  ASSUME NEW S, NEW b \in Seq(S), b # <<>>
  PROVE  /\ Len(b) \in Nat \ {0} /\ DOMAIN b = 1..Len(b) /\ b[1] = Head(b) /\ Head(b) \in S
         /\ Tail(b) \in Seq(S) /\ Len(Tail(b)) = Len(b) - 1 /\ DOMAIN Tail(b) = 1..(Len(b) - 1)
         /\ \A k \in 1..(Len(b) - 1) : Tail(b)[k] = b[k + 1]
BY EmptySeq, LenProperties, HeadTailProperties

LEMMA OneMore ==
  ASSUME NEW S, NEW b \in Seq(S), NEW e \in S
  PROVE  /\ Len(b) \in Nat /\ DOMAIN b = 1..Len(b) /\ Append(b, e) \in Seq(S)
         /\ Len(Append(b, e)) = Len(b) + 1 /\ DOMAIN Append(b, e) = 1..(Len(b) + 1)
         /\ \A k \in 1..Len(b) : Append(b, e)[k] = b[k]
         /\ Append(b, e)[Len(b) + 1] = e
BY LenProperties, AppendProperties

LEMMA SentIs ==
  ASSUME Types
  PROVE  /\ Sent \in Seq(Event) /\ Len(Sent) \in Nat /\ DOMAIN Sent = 1..Len(Sent)
         /\ Len(Sent) = Len(got) + Len(queue) /\ Len(got) \in Nat /\ Len(queue) \in Nat
         /\ \A k \in 1..Len(got) : Sent[k] = got[k]
         /\ Deltas \subseteq DOMAIN Sent
<1>1. got \in Seq(Event) /\ queue \in Seq(Event)
  BY DEF Types
<1>2. Len(got) \in Nat /\ Len(queue) \in Nat
  BY <1>1, LenProperties
<1>3. Sent \in Seq(Event) /\ Len(Sent) = Len(got) + Len(queue)
  BY <1>1, ConcatProperties DEF Sent
<1>4. \A k \in 1..Len(got) : Sent[k] = got[k]
  BY <1>1, <1>2, ConcatProperties DEF Sent
<1> QED
  BY <1>2, <1>3, <1>4, LenProperties DEF Deltas

\* The event that is sent is the last of those sent.
LEMMA SendAppends ==
  ASSUME Types, NEW kind \in EventKinds, NEW piece \in Pieces, Send(kind, piece), UNCHANGED got
  PROVE  LET e == [kind |-> kind, piece |-> piece, n |-> sequence, partial |-> partial]
         IN  /\ Sent' = Append(Sent, e) /\ e \in Event
             /\ queue' \in Seq(Event) /\ Len(queue') <= Channel
             /\ sequence' = sequence + 1 /\ partial' = partial
<1> DEFINE e == [kind |-> kind, piece |-> piece, n |-> sequence, partial |-> partial]
<1>1. e \in Event
  BY DEF Types, Event, Pieces
<1>2. queue' = Append(queue, e) /\ Len(queue) < Channel /\ sequence' = sequence + 1 /\ partial' = partial
  BY DEF Send
<1> HIDE DEF e
<1>3. got \in Seq(Event) /\ queue \in Seq(Event)
  BY DEF Types
<1>4. queue' \in Seq(Event) /\ Len(queue') = Len(queue) + 1 /\ Len(queue) \in Nat
  BY <1>1, <1>2, <1>3, OneMore
<1>5. <<e>> \in Seq(Event)
  BY <1>1
<1>6. Sent' = got \o (queue \o <<e>>)
  BY <1>1, <1>2, <1>3, AppendIsConcat DEF Sent
<1>7. Sent' = (got \o queue) \o <<e>>
  BY <1>3, <1>5, <1>6, ConcatAssociative
<1>8. Sent' = Append(Sent, e)
  BY <1>1, <1>7, SentIs, AppendIsConcat DEF Sent
<1> QED
  BY <1>1, <1>2, <1>4, <1>8, ChannelAssumption DEF e

LEMMA ReceiveMoves ==
  ASSUME Types, Receive
  PROVE  /\ Sent' = Sent /\ queue' \in Seq(Event) /\ Len(queue') <= Channel /\ got' \in Seq(Event)
<1>1. /\ got \in Seq(Event) /\ queue \in Seq(Event) /\ queue # <<>> /\ Len(queue) <= Channel
      /\ got' = Append(got, Head(queue)) /\ queue' = Tail(queue)
  BY DEF Receive, Types
<1>2. /\ Head(queue) \in Event /\ Tail(queue) \in Seq(Event) /\ Len(Tail(queue)) = Len(queue) - 1
      /\ Len(queue) \in Nat
  BY <1>1, HeadAndTail
<1>3. got' = got \o <<Head(queue)>> /\ got' \in Seq(Event) /\ <<Head(queue)>> \in Seq(Event)
  BY <1>1, <1>2, AppendIsConcat, AppendProperties
<1>4. queue = <<Head(queue)>> \o Tail(queue)
  BY <1>1
<1>5. Sent' = got \o (<<Head(queue)>> \o Tail(queue))
  BY <1>1, <1>2, <1>3, ConcatAssociative DEF Sent
<1> QED
  BY <1>1, <1>2, <1>3, <1>4, <1>5, ChannelAssumption DEF Sent

-----------------------------------------------------------------------------
\* A step that sends nothing.
LEMMA QuietKeeps ==
  ASSUME IInv, Sent' = Sent, UNCHANGED <<listening, sequence, text, partial>>,
         request' = request \/ text = <<>>,
         at = "ended" => UNCHANGED <<at, net, content>>,
         Holding' => Holding /\ UNCHANGED held,
         at' \in Waiting \cup {"verify", "done"} =>
            text = <<>> \/ (at \in Waiting \cup {"verify", "done"} /\ (Holding => Holding'))
  PROVE  StreamInv'
<1>0. StreamInv /\ text \in Seq(Pieces) /\ Deltas' = Deltas
  BY DEF IInv, Types, Deltas
<1>1. Numbered'
  BY <1>0 DEF StreamInv, Numbered
<1>2. EndsOnce'
  BY <1>0 DEF StreamInv, EndsOnce
<1>3. text = <<>> => Len(text) = 0 /\ Deltas = {}
  <2>1. text = <<>> => Len(text) = 0
    BY EmptySeq
  <2> QED
    BY <1>0, <2>1 DEF StreamInv, SentInOrder
<1>4. SentInOrder'
  BY <1>0, <1>3 DEF StreamInv, SentInOrder
<1>5. AllSent'
  <2>1. CASE text = <<>>
    BY <1>3, <2>1 DEF AllSent
  <2>2. CASE text # <<>>
    <3>1. ASSUME at' \in Waiting \cup {"verify", "done"}, NEW i \in 1..Len(text)
          PROVE  (Holding' /\ i = Len(text)) \/ \E k \in Deltas : Sent[k].piece = <<request, i>>
      BY <1>0, <2>2, <3>1 DEF StreamInv, AllSent
    <3> QED
      BY <1>0, <2>2, <3>1 DEF AllSent
  <2> QED
    BY <2>1, <2>2
<1>6. Truthful'
  BY <1>0 DEF StreamInv, Truthful
<1>7. AnswerIsStreamed'
  BY <1>0 DEF StreamInv, AnswerIsStreamed, EndsOnce, Terminals
<1> QED
  BY <1>1, <1>2, <1>4, <1>5, <1>6, <1>7 DEF StreamInv

\* A step that sends an event that is no piece of the answer.
LEMMA SendKeeps ==
  ASSUME IInv, NEW kind \in EventKinds \ {"delta"}, NEW piece \in Pieces, Send(kind, piece),
         UNCHANGED <<got, listening, text, content, request>>, at # "ended", ~Holding, ~Holding',
         kind \in Terminals => at' = "ended", kind = "done" => at = "done" /\ net' = net,
         at' \in Waiting \cup {"verify", "done"} =>
            text = <<>> \/ at \in Waiting \cup {"verify", "done"}
  PROVE  StreamInv'
<1> DEFINE e == [kind |-> kind, piece |-> piece, n |-> sequence, partial |-> partial]
<1>0. StreamInv /\ Types
  BY DEF IInv
<1>1. Sent' = Append(Sent, e) /\ e \in Event /\ sequence' = sequence + 1 /\ partial' = partial
  BY <1>0, SendAppends
<1>2. e.kind = kind /\ e.n = sequence /\ e.partial = partial
  OBVIOUS
<1> HIDE DEF e
<1>3. /\ Len(Sent) \in Nat /\ DOMAIN Sent = 1..Len(Sent) /\ Len(Sent') = Len(Sent) + 1
      /\ DOMAIN Sent' = 1..(Len(Sent) + 1) /\ Sent'[Len(Sent) + 1] = e
      /\ \A k \in 1..Len(Sent) : Sent'[k] = Sent[k]
  BY <1>0, <1>1, SentIs, OneMore
<1>4. Deltas' = Deltas /\ \A k \in Deltas : Sent'[k] = Sent[k]
  BY <1>2, <1>3 DEF Deltas
<1>5. listening /\ Len(Sent) = sequence /\ \A k \in DOMAIN Sent : Sent[k].kind \notin Terminals
  BY <1>0 DEF StreamInv, Numbered, EndsOnce
<1>6. Numbered'
  <2>1. \A k \in DOMAIN Sent' : Sent'[k].n = k - 1
    BY <1>0, <1>2, <1>3, <1>5 DEF StreamInv, Numbered
  <2> QED
    BY <1>1, <1>3, <1>5, <2>1 DEF Numbered
<1>7. EndsOnce'
  BY <1>2, <1>3, <1>5 DEF EndsOnce
<1>8. SentInOrder'
  BY <1>0, <1>4 DEF StreamInv, SentInOrder
<1>9. AllSent'
  <2>1. CASE text = <<>>
    <3>1. Len(text) = 0 /\ text' = text
      BY <2>1, EmptySeq
    <3> QED
      BY <3>1 DEF AllSent
  <2>2. CASE text # <<>>
    <3>1. ASSUME at' \in Waiting \cup {"verify", "done"}, NEW i \in 1..Len(text)
          PROVE  \E k \in Deltas : Sent[k].piece = <<request, i>>
      BY <1>0, <2>2, <3>1 DEF StreamInv, AllSent
    <3> QED
      BY <1>4, <2>2, <3>1 DEF AllSent
  <2> QED
    BY <2>1, <2>2
<1>10. partial \/ Deltas = {}
  <2>1. partial \/ Len(text) = 0
    BY EmptySeq DEF IInv, InStep
  <2> QED
    BY <1>0, <2>1 DEF StreamInv, SentInOrder
<1>11. Truthful'
  BY <1>2, <1>3, <1>4, <1>5, <1>10 DEF Truthful, Terminals
<1>12. AnswerIsStreamed'
  <2>1. ASSUME kind = "done"
        PROVE  /\ net' = "over" /\ content # <<>>
               /\ {Sent[j].piece : j \in Deltas} = {content[j] : j \in DOMAIN content}
    <3>1. at = "done" /\ net' = "over" /\ text = content /\ text # <<>>
      BY <2>1 DEF IInv, InStep, IsWhole, Late
    <3>2. text \in Seq(Pieces) /\ DOMAIN text = 1..Len(text) /\ \A i \in DOMAIN text : text[i] = <<request, i>>
      BY LenProperties DEF IInv, Types, TakenInOrder
    <3>3. \A k \in Deltas : \E i \in DOMAIN text : Sent[k].piece = text[i]
      BY <1>0, <3>2 DEF StreamInv, SentInOrder
    <3>4. \A i \in DOMAIN text : \E k \in Deltas : Sent[k].piece = text[i]
      BY <1>0, <3>1, <3>2 DEF StreamInv, AllSent
    <3> QED
      BY <3>1, <3>3, <3>4
  <2>2. {Sent'[j].piece : j \in Deltas'} = {Sent[j].piece : j \in Deltas} /\ content' = content
    BY <1>4
  <2>3. ASSUME NEW k \in DOMAIN Sent', Sent'[k].kind = "done" PROVE kind = "done"
    BY <1>2, <1>3, <1>5, <2>3 DEF Terminals
  <2> QED
    BY <2>1, <2>2, <2>3 DEF AnswerIsStreamed
<1> QED
  BY <1>6, <1>7, <1>8, <1>9, <1>11, <1>12 DEF StreamInv

\* The piece that was taken in last is sent next.
LEMMA ForwardKeeps ==
  ASSUME IInv, Forward, Holding
  PROVE  StreamInv'
<1> DEFINE e == [kind |-> held.kind, piece |-> held.piece, n |-> sequence, partial |-> partial]
<1>0. /\ StreamInv /\ Types /\ Send(held.kind, held.piece) /\ at = "forward" /\ at' = "wait"
      /\ UNCHANGED <<text, got, listening, net, request, content>> /\ ~Holding'
  BY DEF IInv, Forward, consumer, provider, attempt, Holding
<1>1. /\ held.kind = "delta" /\ held.piece \in Pieces /\ text # <<>>
      /\ held.piece = <<request, Len(text)>>
  BY DEF IInv, InStep, Holding, Messages
<1>2. Sent' = Append(Sent, e) /\ e \in Event /\ sequence' = sequence + 1 /\ partial' = partial
  BY <1>0, <1>1, SendAppends DEF EventKinds
<1>3. e.kind = "delta" /\ e.n = sequence /\ e.piece = <<request, Len(text)>>
  BY <1>1
<1> HIDE DEF e
<1>4. /\ Len(Sent) \in Nat /\ DOMAIN Sent = 1..Len(Sent) /\ Len(Sent') = Len(Sent) + 1
      /\ DOMAIN Sent' = 1..(Len(Sent) + 1) /\ Sent'[Len(Sent) + 1] = e
      /\ \A k \in 1..Len(Sent) : Sent'[k] = Sent[k]
  BY <1>0, <1>2, SentIs, OneMore
<1>5. Deltas' = Deltas \cup {Len(Sent) + 1} /\ \A k \in Deltas : Sent'[k] = Sent[k] /\ k <= Len(Sent)
  BY <1>3, <1>4 DEF Deltas
<1>6. listening /\ Len(Sent) = sequence /\ \A k \in DOMAIN Sent : Sent[k].kind \notin Terminals
  BY <1>0 DEF StreamInv, Numbered, EndsOnce
<1>7. Numbered'
  <2>1. \A k \in DOMAIN Sent' : Sent'[k].n = k - 1
    BY <1>0, <1>3, <1>4, <1>6 DEF StreamInv, Numbered
  <2> QED
    BY <1>0, <1>2, <1>4, <1>6, <2>1 DEF Numbered
<1>8. EndsOnce'
  BY <1>3, <1>4, <1>6 DEF EndsOnce, Terminals
<1>9. Len(text) \in Nat /\ Len(text) > 0
  BY <1>0, <1>1, EmptySeq DEF Types
<1>10. SentInOrder'
  <2>1. ASSUME NEW k \in Deltas'
        PROVE  \E i \in 1..Len(text) : Sent'[k].piece = <<request, i>>
    <3>1. CASE k \in Deltas
      BY <1>0, <1>5, <3>1 DEF StreamInv, SentInOrder
    <3>2. CASE k = Len(Sent) + 1
      BY <1>3, <1>4, <1>9, <3>2
    <3> QED
      BY <1>5, <3>1, <3>2
  <2>2. ASSUME NEW j \in Deltas', NEW k \in Deltas', j < k
        PROVE  Sent'[j].piece[2] < Sent'[k].piece[2]
    <3>1. CASE k \in Deltas
      <4>1. j \in Deltas
        BY <1>4, <1>5, <2>2, <3>1 DEF Deltas
      <4> QED
        BY <1>0, <1>5, <2>2, <3>1, <4>1 DEF StreamInv, SentInOrder
    <3>2. CASE k = Len(Sent) + 1
      <4>1. j \in Deltas
        BY <1>4, <1>5, <2>2, <3>2
      <4>2. PICK i \in 1..Len(text) : Sent[j].piece = <<request, i>> /\ i < Len(text)
        BY <1>0, <4>1 DEF StreamInv, SentInOrder
      <4>3. Sent'[j].piece[2] = i /\ Sent'[k].piece[2] = Len(text)
        BY <1>3, <1>4, <1>5, <3>2, <4>1, <4>2
      <4> QED
        BY <4>2, <4>3
    <3> QED
      BY <1>5, <3>1, <3>2
  <2> QED
    BY <1>0, <2>1, <2>2 DEF SentInOrder
<1>11. AllSent'
  <2>1. ASSUME NEW i \in 1..Len(text) PROVE \E k \in Deltas' : Sent'[k].piece = <<request, i>>
    <3>1. CASE i = Len(text)
      BY <1>3, <1>4, <1>5, <3>1
    <3>2. CASE i # Len(text)
      <4>1. PICK k \in Deltas : Sent[k].piece = <<request, i>>
        BY <1>0, <3>2 DEF StreamInv, AllSent, Waiting
      <4> QED
        BY <1>5, <4>1
    <3> QED
      BY <3>1, <3>2
  <2> QED
    BY <1>0, <2>1 DEF AllSent
<1>12. Truthful' /\ AnswerIsStreamed'
  BY <1>3, <1>4, <1>6 DEF Truthful, AnswerIsStreamed, Terminals
<1> QED
  BY <1>7, <1>8, <1>10, <1>11, <1>12 DEF StreamInv

\* Who hangs up drops what was not read.
LEMMA HangUpKeeps == ASSUME IInv, HangUp PROVE StreamInv'
<1>0. /\ StreamInv /\ Types /\ got' = got /\ queue' = <<>> /\ at' = "ended" /\ ~listening' /\ net' = "over"
      /\ UNCHANGED <<text, request, content>> /\ got \in Seq(Event)
  BY DEF IInv, HangUp, StreamDropped, attempt, Types
<1>1. Sent' = got
  BY <1>0, ConcatEmptySeq DEF Sent
<1>2. /\ \A k \in DOMAIN Sent' : k \in DOMAIN Sent /\ Sent'[k] = Sent[k]
      /\ DOMAIN Sent' = 1..Len(got) /\ Len(Sent') <= Len(Sent) /\ Len(Sent') = Len(got)
  BY <1>0, <1>1, SentIs, LenProperties
<1>3. Deltas' \subseteq Deltas
  BY <1>2 DEF Deltas
<1>4. Numbered'
  BY <1>0, <1>2 DEF StreamInv, Numbered
<1>5. ASSUME NEW k \in DOMAIN Sent', Sent'[k].kind \in Terminals PROVE k = Len(Sent') /\ Sent' = Sent
  <2>1. k = Len(Sent) /\ k <= Len(got)
    BY <1>0, <1>2, <1>5 DEF StreamInv, EndsOnce
  <2>2. Len(queue) = 0 /\ Len(got) = Len(Sent)
    BY <1>0, <2>1, SentIs
  <2>3. queue = <<>>
    BY <1>0, <2>2, EmptySeq DEF Types
  <2>4. Sent = got
    BY <1>0, <2>3, ConcatEmptySeq DEF Sent
  <2> QED
    BY <1>1, <2>1, <2>2, <2>4
<1>6. EndsOnce'
  BY <1>0, <1>5 DEF EndsOnce
<1>7. SentInOrder'
  BY <1>0, <1>2, <1>3 DEF StreamInv, SentInOrder, Holding, Deltas
<1>8. AllSent'
  BY <1>0 DEF AllSent, Waiting
<1>9. Truthful'
  BY <1>0, <1>2, <1>3 DEF StreamInv, Truthful
<1>10. AnswerIsStreamed'
  <2>1. ASSUME NEW k \in DOMAIN Sent', Sent'[k].kind = "done" PROVE Sent' = Sent /\ Deltas' = Deltas
    BY <1>5, <2>1 DEF Terminals, Deltas
  <2> QED
    BY <1>0, <1>2, <2>1 DEF StreamInv, AnswerIsStreamed
<1> QED
  BY <1>4, <1>6, <1>7, <1>8, <1>9, <1>10 DEF StreamInv

-----------------------------------------------------------------------------
\* A step that moves no piece from the provider to the text.
LEMMA TakenStays ==
  ASSUME IInv, UNCHANGED <<text, content, request>>,
         buffer' = <<>> \/ (buffer' = buffer /\ (net = "over" => net' = "over")),
         at' \in Waiting => content = <<>> \/ (at \in Waiting /\ buffer' = buffer)
  PROVE  TakenInOrder'
<1>0. TakenInOrder /\ Types
  BY DEF IInv
<1>1. CASE buffer' = buffer
  <2>1. content = <<>> => Len(content) = 0
    BY EmptySeq
  <2>2. CASE net = "over" => net' = "over"
    <3>1. at' \in Waiting => \A i \in 1..Len(content) : i > Len(text) =>
             \E k \in DOMAIN buffer : buffer[k].kind = "delta" /\ buffer[k].piece = <<request, i>>
      BY <1>0, <2>1 DEF TakenInOrder
    <3> QED
      BY <1>0, <1>1, <2>2, <3>1 DEF TakenInOrder
  <2>3. CASE buffer' = <<>>
    <3>1. DOMAIN buffer' = {} /\ buffer = <<>> /\ DOMAIN buffer = {}
      BY <1>1, <2>3
    <3>2. at' \in Waiting => \A i \in 1..Len(content) : i > Len(text) => FALSE
      BY <1>0, <2>1, <3>1 DEF TakenInOrder
    <3> QED
      BY <1>0, <3>1, <3>2 DEF TakenInOrder
  <2> QED
    BY <2>2, <2>3
<1>2. CASE buffer' = <<>> /\ buffer' # buffer
  <2>1. DOMAIN buffer' = {}
    BY <1>2
  <2>2. content = <<>> => Len(content) = 0
    BY EmptySeq
  <2>3. at' \in Waiting => \A i \in 1..Len(content) : i > Len(text) => FALSE
    BY <1>2, <2>2
  <2> QED
    BY <1>0, <2>1, <2>3 DEF TakenInOrder
<1> QED
  BY <1>1, <1>2

\* run_ask fails, is cancelled or is dropped.
LEMMA DroppedKeeps ==
  ASSUME IInv, StreamDropped, at' \in {"error", "ended"}, UNCHANGED <<text, partial>>
  PROVE  InStep' /\ TakenInOrder' /\ IsWhole' /\ UNCHANGED <<content, request, usages, model, try>>
<1>1. net' = "over" /\ buffer' = <<>> /\ UNCHANGED <<content, request, usages, model, try>>
  BY DEF StreamDropped, attempt
<1>2. TakenInOrder'
  BY <1>1, TakenStays DEF Waiting
<1>3. InStep'
  BY <1>1 DEF IInv, InStep, Holding, Early
<1>4. IsWhole'
  BY DEF IsWhole
<1> QED
  BY <1>1, <1>2, <1>3, <1>4

LEMMA NoBuffer == <<>> \in Seq(Messages) /\ Len(<<>>) = 0 /\ Len(<<>>) <= Buffer
BY ChannelAssumption, EmptySeq

LEMMA RetrieveKeeps == ASSUME IInv, Retrieve PROVE IInv'
<1>1. /\ at = "start" /\ at' = "retrieval" /\ Send("progress", <<0, 0>>) /\ worker' = TRUE
      /\ UNCHANGED <<text, held, got, listening, cancelled, net, model, try, request, content, usages, buffer>>
  BY DEF Retrieve, consumer, provider, attempt
<1>2. <<0, 0>> \in Pieces /\ "progress" \in EventKinds \ {"delta"} /\ "progress" \notin Terminals
  BY DEF Pieces, EventKinds, Terminals
<1>3. StreamInv'
  BY <1>1, <1>2, SendKeeps DEF Holding, Waiting
<1>4. queue' \in Seq(Event) /\ Len(queue') <= Channel /\ sequence' = sequence + 1 /\ partial' = partial
  BY <1>1, <1>2, SendAppends DEF IInv
<1>5. Types'
  BY <1>1, <1>4 DEF IInv, Types, Early
<1>6. InStep' /\ IsWhole'
  BY <1>1, <1>4 DEF IInv, InStep, IsWhole, Holding, Early, Late
<1>7. TakenInOrder'
  BY <1>1, TakenStays DEF Waiting
<1> QED
  BY <1>3, <1>5, <1>6, <1>7 DEF IInv

LEMMA RetrievedKeeps == ASSUME IInv, Retrieved PROVE IInv'
<1>1. /\ at = "retrieval" /\ worker' = FALSE
      /\ UNCHANGED <<text, held, partial, sequence, queue, got, listening, cancelled>> /\ Sent' = Sent
  BY DEF Retrieved, consumer, emitter, Sent
<1>2. CASE at' = "evidence" /\ UNCHANGED provider
  <2>1. UNCHANGED <<net, model, try, request, content, usages, buffer>>
    BY <1>2 DEF provider, attempt
  <2>2. Types' /\ InStep' /\ IsWhole'
    BY <1>1, <1>2, <2>1 DEF IInv, Types, InStep, IsWhole, Holding, Early, Late
  <2>3. TakenInOrder'
    BY <1>1, <1>2, <2>1, TakenStays DEF Waiting
  <2>4. StreamInv'
    BY <1>1, <1>2, <2>1, QuietKeeps DEF Holding, Waiting
  <2> QED
    BY <2>2, <2>3, <2>4 DEF IInv
<1>3. CASE Fails
  <2>1. at' = "error" /\ StreamDropped /\ net' = "over" /\ buffer' = <<>>
    BY <1>3 DEF Fails, StreamDropped
  <2>2. InStep' /\ TakenInOrder' /\ IsWhole' /\ UNCHANGED <<content, request, usages, model, try>>
    BY <1>1, <2>1, DroppedKeeps
  <2>3. Types'
    BY <1>1, <2>1, <2>2, NoBuffer DEF IInv, Types, Late
  <2>4. StreamInv'
    BY <1>1, <2>1, <2>2, QuietKeeps DEF Holding, Waiting
  <2> QED
    BY <2>2, <2>3, <2>4 DEF IInv
<1> QED
  BY <1>2, <1>3 DEF Retrieved

LEMMA EvidenceKeeps == ASSUME IInv, Evidence PROVE IInv'
<1>1. /\ at = "evidence" /\ Send("evidence", <<0, 0>>)
      /\ UNCHANGED <<text, held, got, listening, cancelled, worker>>
  BY DEF Evidence, consumer
<1>2. <<0, 0>> \in Pieces /\ "evidence" \in EventKinds \ {"delta"} /\ "evidence" \notin Terminals
  BY DEF Pieces, EventKinds, Terminals
<1>3. queue' \in Seq(Event) /\ Len(queue') <= Channel /\ sequence' = sequence + 1 /\ partial' = partial
  BY <1>1, <1>2, SendAppends DEF IInv
<1>4. text = <<>>
  BY <1>1 DEF IInv, InStep, Early
<1>5. CASE at' = "generation" /\ UNCHANGED provider
  <2>1. UNCHANGED <<net, model, try, request, content, usages, buffer>>
    BY <1>5 DEF provider, attempt
  <2>2. Types' /\ InStep' /\ IsWhole'
    BY <1>1, <1>3, <1>5, <2>1 DEF IInv, Types, InStep, IsWhole, Holding, Early, Late
  <2>3. TakenInOrder'
    BY <1>1, <1>5, <2>1, TakenStays DEF Waiting
  <2>4. StreamInv'
    BY <1>1, <1>2, <1>4, <1>5, <2>1, SendKeeps DEF Holding
  <2> QED
    BY <2>2, <2>3, <2>4 DEF IInv
<1>6. CASE Fails
  <2>1. at' = "error" /\ StreamDropped /\ net' = "over" /\ buffer' = <<>>
    BY <1>6 DEF Fails, StreamDropped
  <2>2. InStep' /\ TakenInOrder' /\ IsWhole' /\ UNCHANGED <<content, request, usages, model, try>>
    BY <1>1, <1>3, <2>1, DroppedKeeps
  <2>3. Types'
    BY <1>1, <1>3, <2>1, <2>2, NoBuffer DEF IInv, Types, Late
  <2>4. StreamInv'
    BY <1>1, <1>2, <1>4, <2>1, <2>2, SendKeeps DEF Holding
  <2> QED
    BY <2>2, <2>3, <2>4 DEF IInv
<1> QED
  BY <1>5, <1>6 DEF Evidence

LEMMA GenerateKeeps == ASSUME IInv, Generate PROVE IInv'
<1>1. /\ at = "generation" /\ at' = "wait" /\ net' = "post" /\ Send("progress", <<0, 0>>)
      /\ UNCHANGED <<text, held, got, listening, cancelled, worker, model, try, request, content, usages, buffer>>
  BY DEF Generate, consumer, attempt
<1>2. <<0, 0>> \in Pieces /\ "progress" \in EventKinds \ {"delta"} /\ "progress" \notin Terminals
  BY DEF Pieces, EventKinds, Terminals
<1>3. queue' \in Seq(Event) /\ Len(queue') <= Channel /\ sequence' = sequence + 1 /\ partial' = partial
  BY <1>1, <1>2, SendAppends DEF IInv
<1>4. text = <<>> /\ content = <<>> /\ net = "none"
  BY <1>1 DEF IInv, InStep, Early
<1>5. Types' /\ InStep' /\ IsWhole'
  BY <1>1, <1>3, <1>4 DEF IInv, Types, InStep, IsWhole, Holding, Early, Waiting, Late
<1>6. TakenInOrder'
  BY <1>1, <1>4, TakenStays
<1>7. StreamInv'
  BY <1>1, <1>2, <1>4, SendKeeps DEF Holding
<1> QED
  BY <1>5, <1>6, <1>7 DEF IInv

\* The buffered pieces come in the order of the answer and without a gap.
LEMMA HeadIsNext ==
  ASSUME IInv, at = "wait", buffer # <<>>, Head(buffer).kind = "delta"
  PROVE  /\ Head(buffer).piece = <<request, Len(text) + 1>>
         /\ Len(text) \in Nat /\ Len(content) \in Nat /\ Len(text) + 1 <= Len(content)
<1>0. Types /\ TakenInOrder /\ Len(text) \in Nat /\ Len(content) \in Nat
  BY LenProperties DEF IInv, Types
<1>1. buffer \in Seq(Messages) /\ DOMAIN buffer = 1..Len(buffer) /\ Len(buffer) \in Nat \ {0}
      /\ buffer[1] = Head(buffer)
  BY <1>0, HeadAndTail DEF Types
<1>2. PICK i \in 1..Len(content) : buffer[1].piece = <<request, i>> /\ i > Len(text)
  BY <1>0, <1>1 DEF TakenInOrder
<1>3. Len(text) + 1 \in 1..Len(content) /\ Len(text) + 1 > Len(text)
  BY <1>0, <1>2
<1>4. PICK k \in DOMAIN buffer : buffer[k].kind = "delta" /\ buffer[k].piece = <<request, Len(text) + 1>>
  BY <1>0, <1>3 DEF TakenInOrder, Waiting
<1>5. k = 1
  <2>1. ASSUME 1 < k PROVE FALSE
    <3>1. buffer[1].piece[2] < buffer[k].piece[2]
      BY <1>0, <1>1, <1>4, <2>1 DEF TakenInOrder
    <3>2. buffer[1].piece[2] = i /\ buffer[k].piece[2] = Len(text) + 1
      BY <1>2, <1>4
    <3> QED
      BY <1>0, <1>2, <3>1, <3>2
  <2> QED
    BY <1>1, <1>4, <2>1
<1> QED
  BY <1>0, <1>1, <1>3, <1>4, <1>5

\* What is left in the buffer when its first message is taken.
LEMMA TakenFromHead ==
  ASSUME IInv, at = "wait", buffer # <<>>, Head(buffer).kind \in {"delta", "usage"},
         buffer' = Tail(buffer), at' \in Waiting, UNCHANGED <<content, request, net>>,
         text' = IF Head(buffer).kind = "delta" THEN Append(text, Head(buffer).piece) ELSE text
  PROVE  TakenInOrder' /\ text' \in Seq(Pieces)
<1> DEFINE e == Head(buffer)
<1>0. Types /\ TakenInOrder /\ text \in Seq(Pieces) /\ Len(text) \in Nat /\ Len(content) \in Nat
      /\ DOMAIN text = 1..Len(text)
  BY LenProperties DEF IInv, Types
<1>1. /\ buffer \in Seq(Messages) /\ DOMAIN buffer = 1..Len(buffer) /\ Len(buffer) \in Nat \ {0}
      /\ buffer[1] = e /\ e \in Messages
      /\ Len(buffer') = Len(buffer) - 1 /\ DOMAIN buffer' = 1..(Len(buffer) - 1)
      /\ \A k \in 1..(Len(buffer) - 1) : buffer'[k] = buffer[k + 1]
  BY <1>0, HeadAndTail DEF Types
<1>2. ASSUME NEW k \in DOMAIN buffer' PROVE k + 1 \in DOMAIN buffer /\ 1 < k + 1 /\ buffer'[k] = buffer[k + 1]
  BY <1>1
<1>3. \A k \in DOMAIN buffer' : buffer'[k].kind \in {"done", "error"} => net' = "over" /\ k = Len(buffer')
  BY <1>0, <1>1, <1>2 DEF TakenInOrder
<1>4. ASSUME NEW j \in DOMAIN buffer', NEW k \in DOMAIN buffer', j < k,
             buffer'[j].kind = "delta", buffer'[k].kind = "delta"
      PROVE  buffer'[j].piece[2] < buffer'[k].piece[2]
  <2>1. j + 1 < k + 1
    BY <1>1, <1>4
  <2> QED
    BY <1>0, <1>2, <1>4, <2>1 DEF TakenInOrder
<1>5. ASSUME NEW i \in 1..Len(content), i > Len(text), ~(e.kind = "delta" /\ e.piece = <<request, i>>)
      PROVE  \E k \in DOMAIN buffer' : buffer'[k].kind = "delta" /\ buffer'[k].piece = <<request, i>>
  <2>1. PICK k \in DOMAIN buffer : buffer[k].kind = "delta" /\ buffer[k].piece = <<request, i>>
    BY <1>0, <1>5 DEF TakenInOrder, Waiting
  <2>2. k # 1
    BY <1>1, <1>5, <2>1
  <2>3. k - 1 \in DOMAIN buffer' /\ buffer'[k - 1] = buffer[k]
    BY <1>1, <2>1, <2>2
  <2> QED
    BY <2>1, <2>3
<1>6. CASE e.kind = "usage"
  <2>1. text' = text
    BY <1>6
  <2>2. \A k \in DOMAIN buffer' : buffer'[k].kind = "delta" =>
          \E i \in 1..Len(content) : buffer'[k].piece = <<request, i>> /\ i > Len(text)
    BY <1>0, <1>2 DEF TakenInOrder
  <2> QED
    BY <1>0, <1>3, <1>4, <1>5, <1>6, <2>1, <2>2 DEF TakenInOrder
<1>7. CASE e.kind = "delta"
  <2>1. e.piece = <<request, Len(text) + 1>> /\ Len(text) + 1 <= Len(content) /\ e.piece \in Pieces
    BY <1>1, <1>7, HeadIsNext DEF Messages
  <2>2. text' = Append(text, e.piece)
    BY <1>7
  <2>3. /\ text' \in Seq(Pieces) /\ Len(text') = Len(text) + 1 /\ DOMAIN text' = 1..(Len(text) + 1)
        /\ \A i \in 1..Len(text) : text'[i] = text[i] /\ text'[Len(text) + 1] = <<request, Len(text) + 1>>
    BY <1>0, <2>1, <2>2, OneMore
  <2>4. \A i \in DOMAIN text' : text'[i] = <<request, i>>
    <3>1. text'[Len(text) + 1] = <<request, Len(text) + 1>>
      BY <1>0, <2>1, <2>2, OneMore
    <3> QED
      BY <1>0, <2>3, <3>1 DEF TakenInOrder
  <2>5. ASSUME NEW k \in DOMAIN buffer', buffer'[k].kind = "delta"
        PROVE  \E i \in 1..Len(content) : buffer'[k].piece = <<request, i>> /\ i > Len(text')
    <3>1. PICK i \in 1..Len(content) : buffer'[k].piece = <<request, i>> /\ i > Len(text)
      BY <1>0, <1>2, <2>5 DEF TakenInOrder
    <3>0. 1 \in DOMAIN buffer /\ k + 1 \in DOMAIN buffer /\ 1 < k + 1 /\ buffer'[k] = buffer[k + 1]
      BY <1>1, <1>2
    <3>m. PICK m \in DOMAIN buffer : 1 < m /\ buffer[m].kind = "delta" /\ buffer[m] = buffer'[k]
      BY <2>5, <3>0
    <3>2. buffer[1].piece[2] < buffer'[k].piece[2]
      <4>1. buffer[1].kind = "delta"
        BY <1>1, <1>7
      <4> QED
        BY <1>0, <3>0, <3>m, <4>1 DEF TakenInOrder
    <3>3. Len(text) + 1 < i
      BY <1>1, <2>1, <3>1, <3>2
    <3> QED
      BY <1>0, <2>3, <3>1, <3>3
  <2>6. ASSUME NEW i \in 1..Len(content), i > Len(text')
        PROVE  \E k \in DOMAIN buffer' : buffer'[k].kind = "delta" /\ buffer'[k].piece = <<request, i>>
    <3>1. i > Len(text) /\ i # Len(text) + 1
      BY <1>0, <2>3, <2>6
    <3>2. e.piece # <<request, i>>
      BY <2>1, <3>1
    <3> QED
      BY <1>5, <3>1, <3>2
  <2> QED
    BY <1>0, <1>3, <1>4, <2>1, <2>3, <2>4, <2>5, <2>6 DEF TakenInOrder
<1> QED
  BY <1>6, <1>7

LEMMA TakeKeeps == ASSUME IInv, Take PROVE IInv'
<1> DEFINE e == Head(buffer)
<1>0. /\ at = "wait" /\ buffer # <<>> /\ UNCHANGED <<sequence, queue, got, listening, cancelled>> /\ Sent' = Sent
      /\ ~Holding
  BY DEF Take, consumer, Sent, Holding
<1>1. /\ Types /\ buffer \in Seq(Messages) /\ e \in Messages /\ buffer[1] = e /\ Tail(buffer) \in Seq(Messages)
      /\ Len(buffer) \in Nat \ {0} /\ Len(Tail(buffer)) = Len(buffer) - 1 /\ DOMAIN buffer = 1..Len(buffer)
  BY <1>0, HeadAndTail DEF IInv, Types
<1>2. CASE /\ e.kind \in {"delta", "usage"}
           /\ at' = "forward" /\ held' = e
           /\ text' = IF e.kind = "delta" THEN Append(text, e.piece) ELSE text
           /\ partial' = (partial \/ e.kind = "delta")
           /\ buffer' = Tail(buffer)
           /\ UNCHANGED <<net, attempt, content, usages, worker>>
  <2>1. UNCHANGED <<net, model, try, request, content, usages, worker>>
    BY <1>2 DEF attempt
  <2>2. TakenInOrder' /\ text' \in Seq(Pieces)
    BY <1>0, <1>2, <2>1, TakenFromHead DEF Waiting
  <2>3. Types'
    <3>1. buffer' \in Seq(Messages) /\ Len(buffer') <= Buffer
      BY <1>1, <1>2, ChannelAssumption DEF Types
    <3> QED
      BY <1>0, <1>1, <1>2, <2>1, <2>2, <3>1 DEF Types, Waiting
  <2>4. CASE e.kind = "usage"
    <3>1. text' = text /\ partial' = partial /\ ~Holding'
      BY <1>1, <1>2, <2>4 DEF Types, Holding
    <3>2. InStep' /\ IsWhole'
      BY <1>0, <1>1, <1>2, <2>1, <2>4, <3>1 DEF IInv, InStep, IsWhole, Early, Late
    <3>3. StreamInv'
      BY <1>0, <1>2, <2>1, <3>1, QuietKeeps DEF Waiting
    <3> QED
      BY <2>2, <2>3, <3>2, <3>3 DEF IInv
  <2>5. CASE e.kind = "delta"
    <3>1. e.piece = <<request, Len(text) + 1>> /\ Len(text) \in Nat /\ e.piece \in Pieces /\ text \in Seq(Pieces)
      BY <1>0, <1>1, <2>5, HeadIsNext DEF Messages, Types
    <3>2. /\ Len(text') = Len(text) + 1 /\ text' # <<>> /\ partial' /\ Holding' /\ held' = e
      BY <1>2, <2>5, <3>1, AppendProperties DEF Holding
    <3>3. InStep' /\ IsWhole'
      BY <1>0, <1>1, <1>2, <2>1, <2>5, <3>1, <3>2 DEF IInv, InStep, IsWhole, Early, Late
    <3>4. StreamInv /\ Deltas' = Deltas
      BY <1>0 DEF IInv, Deltas
    <3>5. Numbered' /\ EndsOnce' /\ Truthful'
      BY <1>0, <1>2, <3>4 DEF StreamInv, Numbered, EndsOnce, Truthful
    <3>6. SentInOrder'
      <4>1. ASSUME NEW k \in Deltas PROVE \E i \in 1..(Len(text) + 1) : Sent[k].piece = <<request, i>> /\ i < Len(text) + 1
        <5>1. PICK i \in 1..Len(text) : Sent[k].piece = <<request, i>>
          BY <3>4 DEF StreamInv, SentInOrder
        <5> QED
          BY <3>1, <5>1
      <4> QED
        BY <1>0, <2>1, <3>2, <3>4, <4>1 DEF StreamInv, SentInOrder
    <3>7. AllSent'
      <4>1. ASSUME NEW i \in 1..(Len(text) + 1), i # Len(text) + 1
            PROVE  \E k \in Deltas : Sent[k].piece = <<request, i>>
        <5>1. i \in 1..Len(text)
          BY <3>1, <4>1
        <5> QED
          BY <1>0, <3>4, <5>1 DEF StreamInv, AllSent, Waiting
      <4> QED
        BY <1>0, <2>1, <3>2, <3>4, <4>1 DEF AllSent
    <3>8. AnswerIsStreamed'
      BY <1>0, <2>1, <3>4 DEF StreamInv, AnswerIsStreamed, EndsOnce, Terminals
    <3> QED
      BY <2>2, <2>3, <3>3, <3>4, <3>5, <3>6, <3>7, <3>8 DEF IInv, StreamInv
  <2> QED
    BY <1>2, <2>4, <2>5
<1>3. CASE /\ e.kind = "done" /\ Answered
           /\ at' = "verify" /\ worker' = TRUE
           /\ buffer' = Tail(buffer)
           /\ UNCHANGED <<net, attempt, content, usages, text, held, partial>>
  <2>1. UNCHANGED <<net, model, try, request, content, usages, text, held, partial>>
    BY <1>3 DEF attempt
  <2>2. net = "over" /\ Len(buffer) = 1
    BY <1>1, <1>3 DEF IInv, TakenInOrder
  <2>3. buffer' = <<>>
    BY <1>1, <1>3, <2>2, EmptySeq
  <2>4. InStep' /\ IsWhole'
    BY <1>3, <2>1, <2>2, <2>3 DEF IInv, InStep, IsWhole, Holding, Answered, Early, Late
  <2>7. Types'
    BY <1>0, <1>1, <1>3, <2>1, <2>3, NoBuffer DEF Types, Late
  <2>5. TakenInOrder'
    BY <1>3, <2>1, <2>3, TakenStays DEF Waiting
  <2>6. StreamInv'
    BY <1>0, <1>3, <2>1, QuietKeeps DEF Holding, Waiting
  <2> QED
    BY <2>4, <2>5, <2>6, <2>7 DEF IInv
<1>4. CASE Fails /\ UNCHANGED <<text, held, partial, worker>>
  <2>1. at' = "error" /\ StreamDropped /\ net' = "over" /\ buffer' = <<>>
    BY <1>4 DEF Fails, StreamDropped
  <2>2. InStep' /\ TakenInOrder' /\ IsWhole' /\ UNCHANGED <<content, request, usages, model, try>>
    BY <1>4, <2>1, DroppedKeeps
  <2>3. Types'
    BY <1>0, <1>1, <1>4, <2>1, <2>2, NoBuffer DEF Types, Late
  <2>4. StreamInv'
    BY <1>0, <1>4, <2>1, <2>2, QuietKeeps DEF Holding, Waiting
  <2> QED
    BY <2>2, <2>3, <2>4 DEF IInv
<1> QED
  BY <1>2, <1>3, <1>4 DEF Take

LEMMA ForwardsKeep == ASSUME IInv, Forward PROVE IInv'
<1>1. /\ at = "forward" /\ at' = "wait" /\ Send(held.kind, held.piece) /\ held' = Nil
      /\ UNCHANGED <<text, got, listening, cancelled, worker, net, model, try, request, content, usages, buffer>>
  BY DEF Forward, consumer, provider, attempt
<1>2. held.piece \in Pieces /\ held.kind \in {"delta", "usage"}
  BY <1>1 DEF IInv, InStep, Messages
<1>3. queue' \in Seq(Event) /\ Len(queue') <= Channel /\ sequence' = sequence + 1 /\ partial' = partial
  BY <1>1, <1>2, SendAppends DEF IInv, EventKinds
<1>4. Types' /\ InStep' /\ IsWhole'
  BY <1>1, <1>3 DEF IInv, Types, InStep, IsWhole, Holding, Early, Waiting, Late
<1>5. TakenInOrder'
  BY <1>1, TakenStays DEF Waiting
<1>6. CASE held.kind = "delta"
  <2>1. StreamInv'
    BY <1>1, <1>6, ForwardKeeps DEF Holding
  <2> QED
    BY <1>4, <1>5, <2>1 DEF IInv
<1>7. CASE held.kind = "usage"
  <2>1. "usage" \in EventKinds \ {"delta"} /\ "usage" \notin Terminals
    BY DEF EventKinds, Terminals
  <2>2. StreamInv'
    BY <1>1, <1>2, <1>7, <2>1, SendKeeps DEF Holding, Waiting
  <2> QED
    BY <1>4, <1>5, <2>2 DEF IInv
<1> QED
  BY <1>2, <1>6, <1>7

LEMMA VerifiedKeeps == ASSUME IInv, Verified PROVE IInv'
<1>1. /\ at = "verify" /\ worker' = FALSE
      /\ UNCHANGED <<text, held, partial, sequence, queue, got, listening, cancelled>> /\ Sent' = Sent
  BY DEF Verified, consumer, emitter, Sent
<1>2. CASE at' = "done" /\ UNCHANGED provider
  <2>1. UNCHANGED <<net, model, try, request, content, usages, buffer>>
    BY <1>2 DEF provider, attempt
  <2>2. Types' /\ InStep' /\ IsWhole'
    BY <1>1, <1>2, <2>1 DEF IInv, Types, InStep, IsWhole, Holding, Early, Late
  <2>3. TakenInOrder'
    BY <1>1, <1>2, <2>1, TakenStays DEF Waiting
  <2>4. StreamInv'
    BY <1>1, <1>2, <2>1, QuietKeeps DEF Holding, Waiting
  <2> QED
    BY <2>2, <2>3, <2>4 DEF IInv
<1>3. CASE Fails
  <2>1. at' = "error" /\ StreamDropped /\ net' = "over" /\ buffer' = <<>>
    BY <1>3 DEF Fails, StreamDropped
  <2>2. InStep' /\ TakenInOrder' /\ IsWhole' /\ UNCHANGED <<content, request, usages, model, try>>
    BY <1>1, <2>1, DroppedKeeps
  <2>3. Types'
    BY <1>1, <2>1, <2>2, NoBuffer DEF IInv, Types, Late
  <2>4. StreamInv'
    BY <1>1, <2>1, <2>2, QuietKeeps DEF Holding, Waiting
  <2> QED
    BY <2>2, <2>3, <2>4 DEF IInv
<1> QED
  BY <1>2, <1>3 DEF Verified

\* The last event of a question.
LEMMA LastKeeps ==
  ASSUME IInv, NEW kind \in Terminals, Send(kind, <<0, 0>>), at' = "ended",
         kind = "done" => at = "done", at \in {"done", "error"},
         UNCHANGED <<text, held, got, listening, cancelled, worker, net, model, try, request, content, usages, buffer>>
  PROVE  IInv'
<1>1. <<0, 0>> \in Pieces /\ kind \in EventKinds \ {"delta"}
  BY DEF Pieces, EventKinds, Terminals
<1>2. queue' \in Seq(Event) /\ Len(queue') <= Channel /\ sequence' = sequence + 1 /\ partial' = partial
  BY <1>1, SendAppends DEF IInv
<1>3. Types' /\ InStep' /\ IsWhole'
  BY <1>2 DEF IInv, Types, InStep, IsWhole, Holding, Early, Late
<1>4. TakenInOrder'
  BY TakenStays DEF Waiting
<1>5. StreamInv'
  BY <1>1, SendKeeps DEF Holding, Waiting
<1> QED
  BY <1>3, <1>4, <1>5 DEF IInv

LEMMA FinishKeeps == ASSUME IInv, Finish PROVE IInv'
BY LastKeeps DEF Finish, Terminals, consumer, provider, attempt

LEMMA ErrorKeeps == ASSUME IInv, Error PROVE IInv'
BY LastKeeps DEF Error, LastWord, Terminals, consumer, provider, attempt

LEMMA AbortKeeps == ASSUME IInv, Abort PROVE IInv'
<1>1. /\ at \notin {"error", "ended"} /\ held' = Nil /\ at' = "error" /\ StreamDropped
      /\ net' = "over" /\ buffer' = <<>>
      /\ UNCHANGED <<text, partial, sequence, queue, got, listening, cancelled, worker>> /\ Sent' = Sent
  BY DEF Abort, Fails, StreamDropped, consumer, emitter, Sent
<1>2. InStep' /\ TakenInOrder' /\ IsWhole' /\ UNCHANGED <<content, request, usages, model, try>>
  BY <1>1, DroppedKeeps
<1>3. Types'
  BY <1>1, <1>2, NoBuffer DEF IInv, Types, Late
<1>4. StreamInv'
  BY <1>1, <1>2, QuietKeeps DEF Holding, Waiting
<1> QED
  BY <1>2, <1>3, <1>4 DEF IInv

\* Steps of the blocking thread and the consumer that leave the question alone.
LEMMA AsideKeeps ==
  ASSUME IInv, UNCHANGED <<at, text, held, partial, sequence, listening, net, model, try, request, content, usages, buffer>>,
         worker' \in BOOLEAN, cancelled' \in BOOLEAN, Sent' = Sent, queue' \in Seq(Event),
         Len(queue') <= Channel, got' \in Seq(Event)
  PROVE  IInv'
<1>1. Types' /\ InStep' /\ IsWhole'
  BY DEF IInv, Types, InStep, IsWhole, Holding
<1>2. TakenInOrder'
  BY TakenStays
<1>3. StreamInv'
  BY QuietKeeps DEF Holding
<1> QED
  BY <1>1, <1>2, <1>3 DEF IInv

LEMMA WorkerEndsKeeps == ASSUME IInv, WorkerEnds PROVE IInv'
BY AsideKeeps DEF WorkerEnds, emitter, consumer, provider, attempt, Sent, IInv, Types

LEMMA ReceiveKeeps == ASSUME IInv, Receive PROVE IInv'
<1>1. Types
  BY DEF IInv
<1>2. /\ UNCHANGED <<at, text, held, partial, sequence, listening, net, model, try, request, content, usages, buffer>>
      /\ UNCHANGED <<worker, cancelled>>
  BY DEF Receive, provider, attempt
<1>3. worker' \in BOOLEAN /\ cancelled' \in BOOLEAN
  BY <1>1, <1>2 DEF Types
<1> QED
  BY <1>1, <1>2, <1>3, ReceiveMoves, AsideKeeps

LEMMA CancelKeeps == ASSUME IInv, Cancel PROVE IInv'
BY AsideKeeps DEF Cancel, emitter, provider, attempt, Sent, IInv, Types

LEMMA HungUpKeeps == ASSUME IInv, HangUp PROVE IInv'
<1>1. /\ listening' = FALSE /\ cancelled' = TRUE /\ at' = "ended" /\ held' = Nil /\ queue' = <<>> /\ StreamDropped
      /\ net' = "over" /\ buffer' = <<>> /\ UNCHANGED <<text, partial, sequence, got, worker>>
  BY DEF HangUp, StreamDropped
<1>2. InStep' /\ TakenInOrder' /\ IsWhole' /\ UNCHANGED <<content, request, usages, model, try>>
  BY <1>1, DroppedKeeps
<1>3. <<>> \in Seq(Event) /\ Len(<<>>) <= Channel
  BY ChannelAssumption, EmptySeq
<1>4. Types'
  BY <1>1, <1>2, <1>3, NoBuffer DEF IInv, Types, Late
<1> QED
  BY <1>2, <1>4, HangUpKeeps DEF IInv

-----------------------------------------------------------------------------
\* What a provider at work leaves alone.
LEMMA OthersStay ==
  ASSUME IInv, UNCHANGED others, net \notin {"none", "over"}
  PROVE  /\ UNCHANGED <<at, text, held, partial, sequence, queue, got, listening, cancelled, worker>>
         /\ Sent' = Sent /\ Holding' = Holding /\ at \in Waiting
BY DEF others, emitter, consumer, Sent, Holding, IInv, Types, InStep, Early, Late

\* It connects, is refused, or its stream breaks off.
LEMMA ConnectingKeeps ==
  ASSUME IInv, UNCHANGED <<others, content, usages, buffer>>, net \notin {"none", "over"},
         net' \in {"post", "backoff", "open", "fail"},
         net' \in {"post", "backoff"} \/ request' # request => net \in {"post", "backoff"},
         request' \in Nat, model' \in DOMAIN Limits, try' \in 1..Limits[model'],
         net' = "backoff" => try' < Limits[model']
  PROVE  IInv'
<1>1. /\ UNCHANGED <<at, text, held, partial, sequence, queue, got, listening, cancelled, worker>>
      /\ Sent' = Sent /\ Holding' = Holding /\ at \in Waiting /\ at \notin Early /\ at \notin Late
  BY OthersStay DEF Waiting, Early, Late
<1>2. request' = request \/ (content = <<>> /\ text = <<>>)
  <2>1. request' # request => content = <<>>
    BY DEF IInv, InStep
  <2>2. content = <<>> => text = <<>>
    <3>1. text \in Seq(Pieces) /\ Len(text) <= Len(content) /\ Len(text) \in Nat
      BY LenProperties DEF IInv, Types, TakenInOrder
    <3>2. content = <<>> => Len(text) = 0
      BY <3>1, EmptySeq
    <3> QED
      BY <3>1, <3>2, EmptySeq
  <2> QED
    BY <2>1, <2>2
<1>3. Types'
  BY <1>1 DEF IInv, Types
<1>4. InStep' /\ IsWhole'
  BY <1>1, <1>2 DEF IInv, InStep, IsWhole, Waiting
<1>5. StreamInv'
  BY <1>1, <1>2, QuietKeeps, EmptySeq DEF Waiting
<1>6. TakenInOrder'
  <2>1. CASE request' = request
    <3>1. ~(\E k \in DOMAIN buffer : buffer[k].kind \in {"done", "error"})
      BY DEF IInv, TakenInOrder
    <3> QED
      BY <1>1, <2>1, <3>1, TakenStays
  <2>2. CASE request' # request
    <3>1. content = <<>> /\ text = <<>> /\ DOMAIN content = {} /\ DOMAIN text = {} /\ Len(content) = 0
      BY <1>2, <2>2, EmptySeq
    <3>2. \A k \in DOMAIN buffer : buffer[k].kind \notin {"done", "error", "delta"}
      BY <3>1 DEF IInv, TakenInOrder
    <3> QED
      BY <1>1, <3>1, <3>2 DEF IInv, TakenInOrder
  <2> QED
    BY <2>1, <2>2
<1> QED
  BY <1>3, <1>4, <1>5, <1>6 DEF IInv

LEMMA AcceptKeeps == ASSUME IInv, Accept PROVE IInv'
<1>1. /\ UNCHANGED <<others, content, usages, buffer, model, try, request>> /\ net = "post" /\ net' = "open"
  BY DEF Accept, attempt
<1>2. request' \in Nat /\ model' \in DOMAIN Limits /\ try' \in 1..Limits[model']
  BY <1>1 DEF IInv, Types
<1> QED
  BY <1>1, <1>2, ConnectingKeeps

LEMMA StopsKeeps ==
  ASSUME IInv, UNCHANGED <<others, content, usages, buffer, attempt>>, Connected, net' = "fail"
  PROVE  IInv'
<1>1. UNCHANGED <<model, try, request>>
  BY DEF attempt
<1>2. request' \in Nat /\ model' \in DOMAIN Limits /\ try' \in 1..Limits[model']
  BY <1>1 DEF IInv, Types
<1>3. net \notin {"none", "over"}
  BY DEF Connected
<1> QED
  BY <1>1, <1>2, <1>3, ConnectingKeeps

LEMMA NextModelIs ==
  ASSUME Types, NextModel
  PROVE  /\ net' \in {"post", "fail"} /\ request' \in Nat /\ model' \in DOMAIN Limits
         /\ try' \in 1..Limits[model']
<1>0. /\ Limits \in Seq(Nat \ {0}) /\ DOMAIN Limits = 1..Len(Limits) /\ Len(Limits) \in Nat
      /\ model \in 1..Len(Limits) /\ try \in 1..Limits[model] /\ request \in Nat
  BY LimitAssumption, LenProperties DEF Types
<1>1. CASE model < Len(Limits)
  <2>1. model + 1 \in 1..Len(Limits)
    BY <1>0, <1>1
  <2>2. Limits[model + 1] \in Nat \ {0}
    BY <1>0, <2>1, ElementOfSeq
  <2> QED
    BY <1>0, <1>1, <2>1, <2>2 DEF NextModel
<1>2. CASE ~(model < Len(Limits))
  BY <1>0, <1>2 DEF NextModel, attempt
<1> QED
  BY <1>1, <1>2

LEMMA RefuseKeeps == ASSUME IInv, Refuse PROVE IInv'
<1>0. UNCHANGED <<others, content, usages, buffer>> /\ net = "post" /\ Types /\ Connected
  BY DEF Refuse, IInv, Connected
<1>1. CASE try < Limits[model] /\ net' = "backoff" /\ UNCHANGED attempt
  <2>1. UNCHANGED <<model, try, request>>
    BY <1>1 DEF attempt
  <2>2. request' \in Nat /\ model' \in DOMAIN Limits /\ try' \in 1..Limits[model']
    BY <1>0, <2>1 DEF Types
  <2> QED
    BY <1>0, <1>1, <2>1, <2>2, ConnectingKeeps
<1>2. CASE NextModel
  BY <1>0, <1>2, NextModelIs, ConnectingKeeps
<1>3. CASE net' = "fail" /\ UNCHANGED attempt
  BY <1>0, <1>3, StopsKeeps
<1> QED
  BY <1>1, <1>2, <1>3 DEF Refuse

LEMMA RetryKeeps == ASSUME IInv, Retry PROVE IInv'
<1>1. /\ UNCHANGED <<others, content, usages, buffer, model>> /\ net = "backoff" /\ net' = "post"
      /\ try' = try + 1 /\ request' = request + 1
  BY DEF Retry
<1>2. Limits[model] \in Nat
  BY LimitAssumption, LenProperties, ElementOfSeq DEF IInv, Types
<1>3. request' \in Nat /\ model' \in DOMAIN Limits /\ try' \in 1..Limits[model']
  BY <1>1, <1>2 DEF IInv, Types
<1> QED
  BY <1>1, <1>3, ConnectingKeeps

LEMMA BreakKeeps == ASSUME IInv, Break PROVE IInv'
BY StopsKeeps DEF Break, NotReplayed, Connected

LEMMA DeadlineKeeps == ASSUME IInv, Deadline PROVE IInv'
BY StopsKeeps DEF Deadline, DeadlineCovers

LEMMA CancelledKeeps == ASSUME IInv, Cancelled PROVE IInv'
BY StopsKeeps DEF Cancelled

\* It says something, or the last.
LEMMA EmitKeeps ==
  ASSUME IInv, NEW kind \in {"usage", "done", "error"}, Emit(kind, <<0, 0>>), net \in {"open", "fail"},
         UNCHANGED <<others, attempt, content>>, usages' \in Nat,
         net' = IF kind = "usage" THEN net ELSE "over"
  PROVE  IInv'
<1> DEFINE e == [kind |-> kind, piece |-> <<0, 0>>]
<1>0. Types /\ TakenInOrder /\ buffer \in Seq(Messages) /\ UNCHANGED <<model, try, request>>
  BY DEF IInv, Types, attempt
<1>1. e \in Messages /\ e.kind = kind
  BY DEF Messages, Pieces
<1>2. buffer' = Append(buffer, e) /\ Len(buffer) < Buffer
  BY DEF Emit
<1> HIDE DEF e
<1>3. /\ Len(buffer) \in Nat /\ DOMAIN buffer = 1..Len(buffer) /\ buffer' \in Seq(Messages)
      /\ Len(buffer') = Len(buffer) + 1 /\ DOMAIN buffer' = 1..(Len(buffer) + 1)
      /\ \A k \in 1..Len(buffer) : buffer'[k] = buffer[k] /\ buffer'[Len(buffer) + 1] = e
  BY <1>0, <1>1, <1>2, OneMore
<1>4. buffer'[Len(buffer) + 1] = e
  BY <1>0, <1>1, <1>2, OneMore
<1>5. /\ UNCHANGED <<at, text, held, partial, sequence, queue, got, listening, cancelled, worker>>
      /\ Sent' = Sent /\ Holding' = Holding /\ at \in Waiting /\ at \notin Early /\ at \notin Late
  BY OthersStay DEF Waiting, Early, Late
<1>6. Types'
  BY <1>0, <1>2, <1>3, <1>5, ChannelAssumption DEF Types
<1>7. InStep' /\ IsWhole'
  BY <1>0, <1>5 DEF IInv, InStep, IsWhole, Waiting
<1>8. StreamInv'
  BY <1>0, <1>5, QuietKeeps DEF Waiting
<1>9. \A k \in DOMAIN buffer : buffer[k].kind \notin {"done", "error"} /\ k \in DOMAIN buffer' /\ buffer'[k] = buffer[k]
  BY <1>0, <1>3 DEF TakenInOrder
<1>10. \A k \in DOMAIN buffer' : buffer'[k].kind \in {"done", "error"} => net' = "over" /\ k = Len(buffer')
  BY <1>1, <1>3, <1>4, <1>9
<1>11. \A k \in DOMAIN buffer' : buffer'[k].kind = "delta" => k \in DOMAIN buffer
  BY <1>1, <1>3, <1>4
<1>12. TakenInOrder'
  <2>1. \A k \in DOMAIN buffer' : buffer'[k].kind = "delta" =>
          \E i \in 1..Len(content) : buffer'[k].piece = <<request, i>> /\ i > Len(text)
    BY <1>0, <1>9, <1>11 DEF TakenInOrder
  <2>2. \A j, k \in DOMAIN buffer' :
          j < k /\ buffer'[j].kind = "delta" /\ buffer'[k].kind = "delta" =>
             buffer'[j].piece[2] < buffer'[k].piece[2]
    BY <1>0, <1>9, <1>11 DEF TakenInOrder
  <2>3. ASSUME NEW i \in 1..Len(content), i > Len(text)
        PROVE  \E k \in DOMAIN buffer' : buffer'[k].kind = "delta" /\ buffer'[k].piece = <<request, i>>
    <3>1. PICK k \in DOMAIN buffer : buffer[k].kind = "delta" /\ buffer[k].piece = <<request, i>>
      BY <1>0, <1>5, <2>3 DEF TakenInOrder
    <3> QED
      BY <1>9, <3>1
  <2> QED
    BY <1>0, <1>5, <1>10, <2>1, <2>2, <2>3 DEF TakenInOrder
<1> QED
  BY <1>6, <1>7, <1>8, <1>12 DEF IInv

LEMMA UsageKeeps == ASSUME IInv, Usage PROVE IInv'
<1>1. usages' = usages + 1 /\ usages \in Nat
  BY DEF Usage, IInv, Types
<1> QED
  BY <1>1, EmitKeeps DEF Usage

LEMMA CompleteKeeps == ASSUME IInv, Complete PROVE IInv'
<1>1. usages' = usages /\ usages \in Nat
  BY DEF Complete, IInv, Types
<1> QED
  BY <1>1, EmitKeeps DEF Complete

LEMMA FailKeeps == ASSUME IInv, Fail PROVE IInv'
<1>1. usages' = usages /\ usages \in Nat
  BY DEF Fail, IInv, Types
<1> QED
  BY <1>1, EmitKeeps DEF Fail

\* The next piece of the answer goes to the end of the buffer.
LEMMA PieceKeeps == ASSUME IInv, Piece PROVE IInv'
<1> DEFINE n == Len(content) + 1
           e == [kind |-> "delta", piece |-> <<request, n>>]
<1>0. /\ Types /\ TakenInOrder /\ buffer \in Seq(Messages) /\ content \in Seq(Pieces) /\ text \in Seq(Pieces)
      /\ Len(content) \in Nat /\ Len(text) \in Nat /\ request \in Nat
      /\ UNCHANGED <<others, net, model, try, request, usages>> /\ net = "open"
  BY LenProperties DEF IInv, Types, Piece, attempt
<1>1. e \in Messages /\ <<request, n>> \in Pieces
  BY <1>0 DEF Messages, Pieces
<1>2. buffer' = Append(buffer, e) /\ Len(buffer) < Buffer /\ content' = Append(content, <<request, n>>)
  BY DEF Piece, Emit
<1>3. e.kind = "delta" /\ e.piece = <<request, n>> /\ n = Len(content) + 1
  OBVIOUS
<1> HIDE DEF e, n
<1>4. /\ Len(buffer) \in Nat /\ DOMAIN buffer = 1..Len(buffer) /\ buffer' \in Seq(Messages)
      /\ Len(buffer') = Len(buffer) + 1 /\ DOMAIN buffer' = 1..(Len(buffer) + 1)
      /\ \A k \in 1..Len(buffer) : buffer'[k] = buffer[k]
  BY <1>0, <1>1, <1>2, OneMore
<1>5. buffer'[Len(buffer) + 1] = e
  BY <1>0, <1>1, <1>2, OneMore
<1>6. /\ content' \in Seq(Pieces) /\ Len(content') = n /\ DOMAIN content = 1..Len(content) /\ DOMAIN content' = 1..n
      /\ \A k \in 1..Len(content) : content'[k] = content[k]
  BY <1>0, <1>1, <1>2, <1>3, OneMore
<1>7. content'[n] = <<request, n>>
  BY <1>0, <1>1, <1>2, <1>3, OneMore
<1>8. /\ UNCHANGED <<at, text, held, partial, sequence, queue, got, listening, cancelled, worker>>
      /\ Sent' = Sent /\ Holding' = Holding /\ at \in Waiting /\ at \notin Early /\ at \notin Late
  BY <1>0, OthersStay DEF Waiting, Early, Late
<1>9. Types'
  BY <1>0, <1>2, <1>4, <1>6, <1>8, ChannelAssumption DEF Types
<1>10. InStep' /\ IsWhole'
  BY <1>0, <1>8 DEF IInv, InStep, IsWhole, Waiting
<1>11. StreamInv'
  BY <1>0, <1>8, QuietKeeps DEF Waiting
<1>12. \A k \in DOMAIN buffer : buffer[k].kind \notin {"done", "error"} /\ k \in DOMAIN buffer' /\ buffer'[k] = buffer[k]
  BY <1>0, <1>4 DEF TakenInOrder
<1>13. TakenInOrder'
  <2>1. \A i \in DOMAIN content' : content'[i] = <<request, i>>
    BY <1>0, <1>3, <1>6, <1>7 DEF TakenInOrder
  <2>2. Len(text) <= Len(content') /\ Len(text) < n
    BY <1>0, <1>3, <1>6 DEF TakenInOrder
  <2>3. \A k \in DOMAIN buffer' : buffer'[k].kind \notin {"done", "error"}
    BY <1>3, <1>4, <1>5, <1>12
  <2>4. ASSUME NEW k \in DOMAIN buffer', buffer'[k].kind = "delta"
        PROVE  \E i \in 1..n : /\ buffer'[k].piece = <<request, i>> /\ i > Len(text)
                               /\ k \in DOMAIN buffer => i < n
    <3>1. CASE k \in DOMAIN buffer
      <4>1. PICK i \in 1..Len(content) : buffer[k].piece = <<request, i>> /\ i > Len(text)
        BY <1>0, <1>12, <2>4, <3>1 DEF TakenInOrder
      <4> QED
        BY <1>0, <1>3, <1>12, <3>1, <4>1
    <3>2. CASE k = Len(buffer) + 1
      <4>1. k \notin DOMAIN buffer /\ n \in 1..n
        BY <1>0, <1>3, <1>4, <3>2
      <4> QED
        BY <1>0, <1>3, <1>5, <2>2, <3>2, <4>1
    <3> QED
      BY <1>4, <3>1, <3>2
  <2>5. ASSUME NEW j \in DOMAIN buffer', NEW k \in DOMAIN buffer', j < k,
               buffer'[j].kind = "delta", buffer'[k].kind = "delta"
        PROVE  buffer'[j].piece[2] < buffer'[k].piece[2]
    <3>1. j \in DOMAIN buffer
      BY <1>4, <2>5
    <3>2. CASE k \in DOMAIN buffer
      BY <1>0, <1>12, <2>5, <3>1, <3>2 DEF TakenInOrder
    <3>3. CASE k = Len(buffer) + 1
      <4>1. PICK i \in 1..n : buffer'[j].piece = <<request, i>> /\ i < n
        BY <2>4, <2>5, <3>1
      <4>2. buffer'[j].piece[2] = i /\ buffer'[k].piece[2] = n
        BY <1>3, <1>5, <3>3, <4>1
      <4> QED
        BY <4>1, <4>2
    <3> QED
      BY <1>4, <3>2, <3>3
  <2>6. ASSUME NEW i \in 1..n, i > Len(text)
        PROVE  \E k \in DOMAIN buffer' : buffer'[k].kind = "delta" /\ buffer'[k].piece = <<request, i>>
    <3>1. CASE i = n
      <4>1. Len(buffer) + 1 \in DOMAIN buffer'
        BY <1>4
      <4> QED
        BY <1>3, <1>5, <3>1, <4>1
    <3>2. CASE i # n
      <4>1. i \in 1..Len(content)
        BY <1>0, <1>3, <3>2
      <4>2. PICK k \in DOMAIN buffer : buffer[k].kind = "delta" /\ buffer[k].piece = <<request, i>>
        BY <1>0, <1>8, <2>6, <4>1 DEF TakenInOrder
      <4> QED
        BY <1>12, <4>2
    <3> QED
      BY <3>1, <3>2
  <2>7. /\ \A k \in DOMAIN buffer' : buffer'[k].kind = "delta" =>
              \E i \in 1..n : buffer'[k].piece = <<request, i>> /\ i > Len(text)
    BY <2>4
  <2> QED
    BY <1>0, <1>6, <1>8, <2>1, <2>2, <2>3, <2>5, <2>6, <2>7 DEF TakenInOrder
<1> QED
  BY <1>9, <1>10, <1>11, <1>13 DEF IInv

-----------------------------------------------------------------------------
LEMMA InitIsSane == ASSUME Init PROVE IInv
<1>1. /\ at = "start" /\ text = <<>> /\ queue = <<>> /\ got = <<>> /\ content = <<>> /\ buffer = <<>>
      /\ held = Nil /\ partial = FALSE /\ sequence = 0 /\ listening = TRUE /\ cancelled = FALSE
      /\ worker = FALSE /\ net = "none" /\ model = 1 /\ try = 1 /\ request = 1 /\ usages = 0
  BY DEF Init
<1>2. 1 \in DOMAIN Limits /\ 1 \in 1..Limits[1]
  <2>1. Len(Limits) \in Nat \ {0} /\ DOMAIN Limits = 1..Len(Limits)
    BY LimitAssumption, EmptySeq, LenProperties
  <2>2. Limits[1] \in Nat \ {0}
    BY <2>1, LimitAssumption, ElementOfSeq
  <2> QED
    BY <2>1, <2>2
<1>3. <<>> \in Seq(Pieces) /\ <<>> \in Seq(Event) /\ <<>> \in Seq(Messages) /\ Len(<<>>) = 0
      /\ 0 <= Channel /\ 0 <= Buffer
  BY EmptySeq, ChannelAssumption
<1>4. Types
  BY <1>1, <1>2, <1>3 DEF Types, Early
<1>5. InStep /\ IsWhole
  BY <1>1 DEF InStep, IsWhole, Holding, Early, Late
<1>6. TakenInOrder
  BY <1>1, <1>3 DEF TakenInOrder
<1>7. Sent = <<>>
  BY <1>1, <1>3, ConcatEmptySeq DEF Sent
<1>8. Len(Sent) = 0 /\ DOMAIN Sent = {} /\ Deltas = {} /\ Len(text) = 0
  BY <1>1, <1>3, <1>7 DEF Deltas
<1>9. StreamInv
  BY <1>1, <1>8 DEF StreamInv, Numbered, EndsOnce, SentInOrder, AllSent, Truthful, AnswerIsStreamed
<1> QED
  BY <1>4, <1>5, <1>6, <1>9 DEF IInv

LEMMA StutterKeeps == ASSUME IInv, UNCHANGED vars PROVE IInv'
<1>1. UNCHANGED <<at, text, held, partial, sequence, queue, got, listening, cancelled, worker,
                  net, model, try, request, content, usages, buffer>>
  BY DEF vars, emitter, consumer, provider, attempt
<1>2. Sent' = Sent
  BY <1>1 DEF Sent
<1> QED
  BY <1>1, <1>2, AsideKeeps DEF IInv, Types

LEMMA IInvHolds == Spec => []IInv
<1>1. Init => IInv
  BY InitIsSane
<1>2. ASSUME IInv, [Next]_vars PROVE IInv'
  <2>1. CASE Supervisor
    BY <1>2, <2>1, RetrieveKeeps, RetrievedKeeps, EvidenceKeeps, GenerateKeeps, TakeKeeps, ForwardsKeep,
       VerifiedKeeps, FinishKeeps, AbortKeeps, ErrorKeeps, WorkerEndsKeeps DEF Supervisor
  <2>2. CASE Provider
    BY <1>2, <2>2, AcceptKeeps, RefuseKeeps, RetryKeeps, CompleteKeeps, BreakKeeps, PieceKeeps,
       UsageKeeps, CancelledKeeps, FailKeeps DEF Provider
  <2>3. CASE Deadline
    BY <1>2, <2>3, DeadlineKeeps
  <2>4. CASE Consumer
    BY <1>2, <2>4, ReceiveKeeps, CancelKeeps, HungUpKeeps DEF Consumer
  <2>5. CASE UNCHANGED vars
    BY <1>2, <2>5, StutterKeeps
  <2> QED
    BY <1>2, <2>1, <2>2, <2>3, <2>4, <2>5 DEF Next
<1> QED
  BY <1>1, <1>2, PTL DEF Spec

\* The events of a question are numbered without a gap, only the last ends it,
\* and the text before is that of one request, in order and without repetition,
\* whoever cancels, hangs up or lets the channels fill (ask.rs run_ask).
THEOREM StreamWellFormed == Spec => []WellFormed
<1>1. ASSUME IInv PROVE WellFormed
  <2>1. TypeOK
    BY <1>1 DEF IInv, Types, InStep, Pieces, Early, Waiting, Late, TypeOK
  <2>2. \A k \in Deltas : \E i \in 1..Len(text) : Sent[k].piece = <<request, i>>
    BY <1>1 DEF IInv, StreamInv, SentInOrder
  <2>3. \A j, k \in Deltas : Sent[j].piece[1] = Sent[k].piece[1]
    BY <2>2
  <2> QED
    BY <1>1, <2>1, <2>3 DEF WellFormed, IInv, StreamInv, Numbered, EndsOnce, SentInOrder, Truthful
<1> QED
  BY <1>1, IInvHolds, PTL

\* A question that is done streamed the whole of an answer that is not empty,
\* every piece before the end (ask.rs run_ask, Client::stream).
THEOREM DoneIsStreamed == Spec => []AnswerIsStreamed
<1>1. IInv => AnswerIsStreamed
  BY DEF IInv, StreamInv
<1> QED
  BY <1>1, IInvHolds, PTL
=============================================================================
