------------------------------ MODULE AskServer ------------------------------
(***************************************************************************)
(* The questions an HTTP server has in hand: HttpState::start_ask, execute *)
(* and AskLease of crates/llmbase-cli/src/http.rs with Application's       *)
(* start_ask, and the cancellation of a question by its id.                *)
(*                                                                         *)
(* Requests run side by side.  They share the permits of the server and    *)
(* the registry of the questions being answered, which is locked for each  *)
(* step on it.  What is asked, and how it is answered, is AskStream's.     *)
(*                                                                         *)
(* A caller is a bearer token, or none, and the library named with it.     *)
(* wished is a history variable.  LeasedEarly, AnyCaller and ForgetsPermit *)
(* are mutants.                                                            *)
(***************************************************************************)
EXTENDS Naturals, FiniteSets

CONSTANTS Requests, Ids,
          Callers,    \* records of a token and a library
          Grants,     \* by token: libraries and capabilities
          Public,     \* what a caller without a token has, if public_read is set
          Permits     \* 16 in the code

VARIABLES at, kind, who, id,  \* of each request
          permits,            \* left in the semaphore
          active,             \* the registry: ids and the requests they name
          cancelled,          \* the requests whose token is cancelled
          wished              \* the requests whose caller asked for that

request == <<kind, who, id>>
tokens  == <<cancelled, wished>>
vars    == <<at, request, permits, active, tokens>>

\* What the proofs assume; a server has some permits, a request some caller.
Assumptions == /\ IsFiniteSet(Requests) /\ Permits \in Nat
               /\ Callers # {} /\ Ids # {}

Places == {"none", "arrived", "permitted", "answering", "ending", "leaving"}

\* From the moment the permit is taken to that of its drop.
Holding == {"permitted", "answering", "ending", "leaving"}

\* What a request that is over is put back to.
AnyOf(S) == CHOOSE e \in S : TRUE

Init == /\ at = [q \in Requests |-> "none"]
        /\ kind = [q \in Requests |-> "ask"]
        /\ who = [q \in Requests |-> AnyOf(Callers)]
        /\ id = [q \in Requests |-> AnyOf(Ids)]
        /\ permits = Permits
        /\ active = {} /\ cancelled = {} /\ wished = {}

Goto(q, place) == at' = [at EXCEPT ![q] = place]

-----------------------------------------------------------------------------
\* HttpState::principal: a token must be a grant's; a cookie is no authority.
Known(c)     == c.token \in DOMAIN Grants \/ (c.token = "" /\ Public # {})
Principal(c) == IF c.token = "" THEN Public
                ELSE {[library |-> l, capability |-> k] :
                         l \in Grants[c.token].libraries, k \in Grants[c.token].capabilities}

\* Application::authorize.
Authorized(c, capability) == [library |-> c.library, capability |-> capability] \in Principal(c)

\* Asking takes Read, as "get" does, and Model.
MayAsk(c) == Authorized(c, "read") /\ Authorized(c, "model")

\* A credential in the body, an unknown token or a malformed id ends it here.
Arrive(q, what, c, i) ==
    /\ at[q] = "none" /\ Known(c)
    /\ Goto(q, "arrived")
    /\ kind' = [kind EXCEPT ![q] = what]
    /\ who' = [who EXCEPT ![q] = c]
    /\ id' = [id EXCEPT ![q] = i]
    /\ UNCHANGED <<permits, active, tokens>>

Over(q) == /\ Goto(q, "none")
           /\ kind' = [kind EXCEPT ![q] = "ask"]
           /\ who' = [who EXCEPT ![q] = AnyOf(Callers)]
           /\ id' = [id EXCEPT ![q] = AnyOf(Ids)]
           /\ cancelled' = cancelled \ {q} /\ wished' = wished \ {q}

\* try_acquire_owned: there is a permit, or the server is busy.
Acquire(q) ==
    /\ at[q] = "arrived"
    /\ IF permits > 0
       THEN permits' = permits - 1 /\ Goto(q, "permitted") /\ UNCHANGED <<request, tokens>>
       ELSE Over(q) /\ UNCHANGED permits
    /\ UNCHANGED active

Named(i) == \E q \in Requests : <<i, q>> \in active

\* What is refused after the permit returns through its drop alone: there is
\* no lease yet.
LeasedEarly == "ending"
Refused     == "leaving"

\* start_ask under the registry's lock: the id is looked up before the caller's
\* rights are, and the stream exists before the registry names it.
Register(q) ==
    /\ at[q] = "permitted" /\ kind[q] = "ask"
    /\ IF Named(id[q]) \/ ~MayAsk(who[q])
       THEN Goto(q, Refused) /\ UNCHANGED active
       ELSE Goto(q, "answering") /\ active' = active \cup {<<id[q], q>>}
    /\ UNCHANGED <<request, permits, tokens>>

\* execute holds its permit for the length of an operation that is no question.
Operate(q) ==
    /\ at[q] = "permitted" /\ kind[q] = "operation"
    /\ Goto(q, "leaving")
    /\ UNCHANGED <<request, permits, active, tokens>>

\* The stream is over, or the body is dropped with the connection.
End(q) ==
    /\ at[q] = "answering"
    /\ Goto(q, "ending")
    /\ UNCHANGED <<request, permits, active, tokens>>

\* AskLease::drop takes the id out and cancels what it named.
Deregister(q) ==
    /\ at[q] = "ending"
    /\ Goto(q, "leaving")
    /\ active' = {e \in active : e[1] # id[q]}
    /\ cancelled' = cancelled \cup {o \in Requests : <<id[q], o>> \in active}
    /\ UNCHANGED <<request, permits, wished>>

\* The permit is the lease's last field.
ForgetsPermit == permits
OneBack       == permits + 1

Leave(q) ==
    /\ at[q] = "leaving"
    /\ Over(q)
    /\ permits' = OneBack
    /\ UNCHANGED active

\* cancel_ask: a question of the same principal in the same library.
AnyCaller(c, q)  == TRUE
SameCaller(c, q) == who[q] = c

Cancel(c, i) ==
    /\ Known(c) /\ MayAsk(c)
    /\ \E q \in Requests :
          /\ <<i, q>> \in active /\ SameCaller(c, q)
          /\ cancelled' = cancelled \cup {q}
          /\ wished' = IF who[q] = c THEN wished \cup {q} ELSE wished
    /\ UNCHANGED <<at, request, permits, active>>

Next == \/ \E q \in Requests, what \in {"ask", "operation"}, c \in Callers, i \in Ids :
              Arrive(q, what, c, i)
        \/ \E q \in Requests : \/ Acquire(q) \/ Register(q) \/ Operate(q) \/ End(q)
                               \/ Deregister(q) \/ Leave(q)
        \/ \E c \in Callers, i \in Ids : Cancel(c, i)

Spec == Init /\ [][Next]_vars

-----------------------------------------------------------------------------
(* Properties.                                                             *)

TypeOK == /\ at \in [Requests -> Places]
          /\ kind \in [Requests -> {"ask", "operation"}]
          /\ who \in [Requests -> Callers] /\ id \in [Requests -> Ids]
          /\ permits \in Nat
          /\ active \subseteq Ids \X Requests
          /\ cancelled \subseteq Requests /\ wished \subseteq Requests

\* The registry names exactly the questions being answered, each under its own
\* id and no id twice, so each can be found and cancelled to its end and no
\* finished one bars its id.
RegistryIsExact ==
    /\ \A q \in Requests : at[q] \in {"answering", "ending"} => <<id[q], q>> \in active
    /\ \A e \in active : at[e[2]] \in {"answering", "ending"} /\ id[e[2]] = e[1]
    /\ \A d, e \in active : d[1] = e[1] => d = e

\* However requests are refused, cut off or cancelled, no permit is lost or
\* given back twice.
PermitsReturn ==
    permits + Cardinality({q \in Requests : at[q] \in Holding}) = Permits

\* A question is cancelled while it is answered only if its own caller asked:
\* neither another's cancellation nor the end of another request reaches it.
CancelledByOwn == \A q \in cancelled : at[q] = "answering" => q \in wished

=============================================================================
