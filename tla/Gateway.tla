-------------------------------- MODULE Gateway --------------------------------
(***************************************************************************)
(* The way of a request through the gateway.                               *)
(*                                                                         *)
(* A request that matches a route runs through the global filters, sorted  *)
(* by their order.  The library finds the service of the route and writes  *)
(* its address into an attribute of the exchange; NettyRoutingFilter sends *)
(* the request there.  RequestGlobalFilter has the same, lowest precedence *)
(* as NettyRoutingFilter, and so has SwaggerGatewayFilter, which has none  *)
(* of its own: in which order they run is up to the start of the gateway.  *)
(* RequestGlobalFilter replaces the attribute by the address the request   *)
(* came to, without the first segment of its path: when it is the earlier  *)
(* one, the gateway sends the request to itself, and the exchanges nest.   *)
(*                                                                         *)
(* A path is its segments; which services are known, and what they answer, *)
(* is outside.  Headers and the log are left out.                          *)
(***************************************************************************)
EXTENDS Naturals, Sequences

CONSTANTS
    Requests,        \* requests of clients
    Services,        \* first segments with a route
    Docs,            \* the segments v3/api-docs of a path
    Segments,        \* all segments
    MaxLength,       \* bound on the segments of a path
    MaxHops,         \* bound on nested exchanges, which no request reaches
    None

Filters == {"request", "swagger", "netty"}
Orders == {o \in [1..3 -> Filters] : \A i, j \in 1..3 : o[i] = o[j] => i = j}

Paths == UNION {[1..n -> Segments] : n \in 0..MaxLength}
Input == [path: Paths, authorized: BOOLEAN]

Gateway == "gateway"
Url == [to: {Gateway} \cup Services, path: Paths]

(* The body of the service, an error Result, none, or cut off.             *)
Answer == [status: {200, 401, 404, 500, 503, 504},
           body: {"whole", "error", "none", "cut"}]

(* at: 0 is before the routing, i the i-th filter, 4 after all of them.    *)
Exchange == [path: Paths, url: {None} \cup Url, at: 0..4, answer: {None} \cup Answer]

ASSUME GatewayAssumption ==
    /\ Services \subseteq Segments /\ Gateway \notin Services
    /\ MaxLength \in Nat /\ MaxHops \in Nat
    /\ MaxLength + 1 <= MaxHops
    /\ None \notin Answer /\ None \notin Input /\ None \notin Url

VARIABLES
    order,           \* the filters of lowest precedence, as they are sorted
    sent,            \* path and credentials of a request, none before it
    exchanges,       \* the open exchanges of a request, the innermost last
    answers,         \* what the client got
    calls,           \* the calls a request made to services (auxiliary)
    failed           \* the requests during which something was thrown
                     \* (auxiliary)

vars == <<order, sent, exchanges, answers, calls, failed>>

TypeOK ==
    /\ order \in Orders
    /\ sent \in [Requests -> {None} \cup Input]
    /\ exchanges \in [Requests -> Seq(Exchange)]
    /\ answers \in [Requests -> {None} \cup Answer]
    /\ calls \in [Requests -> SUBSET Url]
    /\ failed \subseteq Requests

Init ==
    /\ order \in Orders
    /\ sent = [r \in Requests |-> None]
    /\ exchanges = [r \in Requests |-> <<>>]
    /\ answers = [r \in Requests |-> None]
    /\ calls = [r \in Requests |-> {}]
    /\ failed = {}

-----------------------------------------------------------------------------

Inner(r) == exchanges[r][Len(exchanges[r])]
Outer(r) == SubSeq(exchanges[r], 1, Len(exchanges[r]) - 1)

(* The innermost exchange of a request is about to run a filter.           *)
Runs(r, filter) ==
    /\ exchanges[r] # <<>>
    /\ Inner(r).at \in 1..3
    /\ order[Inner(r).at] = filter

SetInner(r, exchange) ==
    exchanges' = [exchanges EXCEPT ![r][Len(exchanges[r])] = exchange]

(* NettyRoutingFilter has the answer and goes on with the chain.           *)
Answered(exchange, answer) == [exchange EXCEPT !.at = @ + 1, !.answer = answer]

Opened(path) == [path |-> path, url |-> None, at |-> 0, answer |-> None]

(* Mutant: the first segment stays.                                        *)
StrippedNothing(path) == path

(* The path without its first segment.                                     *)
Stripped(path) == SubSeq(path, 2, Len(path))

-----------------------------------------------------------------------------
(* The answer of the innermost exchange goes to the exchange of the gateway*)
(* that waits for it, or to the client.                                    *)

Reply(r, answer) ==
    IF Len(exchanges[r]) = 1
      THEN /\ exchanges' = [exchanges EXCEPT ![r] = <<>>]
           /\ answers' = [answers EXCEPT ![r] = answer]
      ELSE LET waiting == exchanges[r][Len(exchanges[r]) - 1] IN
           /\ exchanges' = [exchanges EXCEPT ![r] =
                  [Outer(r) EXCEPT ![Len(exchanges[r]) - 1] = Answered(waiting, answer)]]
           /\ UNCHANGED answers

(* Mutant: the handler asks any exception for its status.                  *)
HandleAnyStatus(status) == [status |-> status, body |-> "error"]

(* Mutant: the handler answers Result.ok.                                  *)
HandleAsSuccess(status) ==
    [status |-> IF status = 0 THEN 200 ELSE status, body |-> "whole"]

(* GlobalExceptionHandler: a ResponseStatusException gives its status, any *)
(* other exception (status 0) the default one; the body is a Result.error. *)
Handle(status) ==
    [status |-> IF status = 0 THEN 200 ELSE status, body |-> "error"]

Throw(r, answer) ==
    /\ Reply(r, answer)
    /\ failed' = failed \cup {r}
    /\ UNCHANGED <<order, sent, calls>>

-----------------------------------------------------------------------------

Send(r) ==
    /\ sent[r] = None
    /\ \E input \in Input :
           /\ sent' = [sent EXCEPT ![r] = input]
           /\ exchanges' = [exchanges EXCEPT ![r] = <<Opened(input.path)>>]
    /\ UNCHANGED <<order, answers, calls, failed>>

BeforeRouting(r) == exchanges[r] # <<>> /\ Inner(r).at = 0
HasRoute(path) == path # <<>> /\ path[1] \in Services

(* RouteToRequestUrlFilter and the load balancer, whose orders come before.*)
Route(r) ==
    /\ BeforeRouting(r)
    /\ HasRoute(Inner(r).path)
    /\ SetInner(r, [Inner(r) EXCEPT !.at = 1,
                        !.url = [to |-> Inner(r).path[1], path |-> Inner(r).path]])
    /\ UNCHANGED <<order, sent, answers, calls, failed>>

NoRoute(r) ==
    /\ BeforeRouting(r)
    /\ ~HasRoute(Inner(r).path)
    /\ Throw(r, Handle(404))

NoInstance(r) ==
    /\ BeforeRouting(r)
    /\ HasRoute(Inner(r).path)
    /\ Throw(r, Handle(503))

(* Mutant: the stripped path is not written into the attribute.            *)
RequestFilterKeepsUrl(r) ==
    /\ Runs(r, "request")
    /\ SetInner(r, [Inner(r) EXCEPT !.at = @ + 1, !.path = Stripped(@)])
    /\ UNCHANGED <<order, sent, answers, calls, failed>>

(* RequestGlobalFilter.filter                                              *)
RequestGlobalFilter(r) ==
    /\ Runs(r, "request")
    /\ LET newPath == Stripped(Inner(r).path) IN
       SetInner(r, [Inner(r) EXCEPT !.at = @ + 1,
                        !.path = newPath,
                        !.url = [to |-> Gateway, path |-> newPath]])
    /\ UNCHANGED <<order, sent, answers, calls, failed>>

MayRead(r) ==
    \/ \A i \in 1..Len(Inner(r).path) : Inner(r).path[i] # Docs
    \/ sent[r].authorized

(* SwaggerGatewayFilter.filter: on with the chain, or an answer of its own.*)
SwaggerGatewayFilter(r) ==
    /\ Runs(r, "swagger")
    /\ IF MayRead(r)
         THEN SetInner(r, [Inner(r) EXCEPT !.at = @ + 1]) /\ UNCHANGED answers
         ELSE Reply(r, [status |-> 401, body |-> "none"])
    /\ UNCHANGED <<order, sent, calls, failed>>

(* NettyRoutingFilter to a service, which does its work and answers ...    *)
ServiceAnswers(r) ==
    /\ Runs(r, "netty") /\ Inner(r).url.to # Gateway
    /\ calls' = [calls EXCEPT ![r] = @ \cup {Inner(r).url}]
    /\ \E status \in {200, 404, 500} :
           SetInner(r, Answered(Inner(r), [status |-> status, body |-> "whole"]))
    /\ UNCHANGED <<order, sent, answers, failed>>

(* ... or from the gateway to itself.                                      *)
SendToItself(r) ==
    /\ Runs(r, "netty") /\ Inner(r).url.to = Gateway
    /\ Len(exchanges[r]) < MaxHops
    /\ exchanges' = [exchanges EXCEPT ![r] = Append(@, Opened(Inner(r).url.path))]
    /\ UNCHANGED <<order, sent, answers, calls, failed>>

(* The connection is refused or lost, or a response timeout is over.       *)
SendFails(r) ==
    /\ Runs(r, "netty")
    /\ \E status \in {0, 504} : Throw(r, Handle(status))

(* NettyWriteResponseFilter, when the chain is through: as much of the     *)
(* body as there is.                                                       *)
Write(r) ==
    /\ exchanges[r] # <<>> /\ Inner(r).at = 4
    /\ Reply(r, Inner(r).answer)
    /\ UNCHANGED <<order, sent, calls, failed>>

(* The body ends early.  GlobalExceptionHandler still answers when nothing *)
(* was written; it leaves a committed response alone and passes the        *)
(* exception on, and the connection is broken off.                         *)
WriteFails(r) ==
    /\ exchanges[r] # <<>> /\ Inner(r).at = 4
    /\ \E body \in {"error", "cut"} :
           Throw(r, [Inner(r).answer EXCEPT !.body = body])

Proceed(r) ==
    \/ Route(r) \/ NoRoute(r)
    \/ RequestGlobalFilter(r) \/ SwaggerGatewayFilter(r)
    \/ ServiceAnswers(r) \/ SendToItself(r)
    \/ Write(r)

Next ==
    \E r \in Requests :
        Send(r) \/ Proceed(r) \/ NoInstance(r) \/ SendFails(r) \/ WriteFails(r)

(* Reactor runs what is ready; nothing has to fail for a request to end.   *)
(* That a service that is called answers in the end is assumed of it: no   *)
(* response timeout is configured here.                                    *)
Spec == Init /\ [][Next]_vars /\ \A r \in Requests : WF_vars(Proceed(r))

-----------------------------------------------------------------------------

HasRun(filter, exchange) == \E i \in 1..(exchange.at - 1) : order[i] = filter

(* A request passes the gateway once per segment and once more at most:    *)
(* each exchange has one segment less than the one that waits for it.      *)
OneHopPerSegment ==
    \A r \in Requests : \A k \in 1..Len(exchanges[r]) :
        LET exchange == exchanges[r][k]
            stripped == k - 1 + (IF HasRun("request", exchange) THEN 1 ELSE 0)
        IN  /\ k <= Len(sent[r].path) + 1
            /\ exchange.path = SubSeq(sent[r].path, stripped + 1, Len(sent[r].path))

(* RequestGlobalFilter comes before NettyRoutingFilter in this gateway.    *)
RequestFirst ==
    \E i, j \in 1..3 : i < j /\ order[i] = "request" /\ order[j] = "netty"

(* A gateway that sorted RequestGlobalFilter first calls no service, and   *)
(* one that did not never sends a request to itself: how filters of one    *)
(* precedence were sorted at the start decides it for all requests, in     *)
(* whatever exchange they are.                                             *)
OrderDecides ==
    \A r \in Requests :
        /\ RequestFirst => calls[r] = {}
        /\ ~RequestFirst => Len(exchanges[r]) <= 1

(* What is thrown anywhere on the way of a request, in whatever exchange,  *)
(* reaches the client as an error or a broken response, never as the body  *)
(* of a success.                                                           *)
FailuresAreTold ==
    \A r \in failed : answers[r] # None => answers[r].body # "whole"

(* Every request is answered, although the gateway may send it to itself.  *)
EveryRequestEnds ==
    \A r \in Requests : sent[r] # None ~> answers[r] # None

=============================================================================
