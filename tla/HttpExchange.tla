---------------------------- MODULE HttpExchange ----------------------------
(***************************************************************************)
(* One HTTP request from cHTTPClient::perform (cHTTPClient.cpp) to the     *)
(* handler of a cHTTPServer (cHTTPServer.cpp; cHTTPSServer.cpp has the     *)
(* same text) and back: the routes, the lambda around a handler, cResponse *)
(* with its copies, and the callbacks of libcurl.  libcurl and             *)
(* Simple-Web-Server are external.                                         *)
(*                                                                         *)
(* An exchange is one request on the wire; a followed redirect makes a new *)
(* one.  The stream that a cResponse writes to is sent when its last owner *)
(* lets go of it: the copies of the cResponse and the lambda.  A method or *)
(* a header name is a record of its word and how that is spelled: "plain", *)
(* in another "case", or "padded" with white space.                        *)
(***************************************************************************)
EXTENDS Integers, Sequences, FiniteSets

CONSTANTS Clients,        \* threads that call perform, once each
          Holders,        \* threads to which a handler may hand a copy of the cResponse
          Wrapped,        \* the cResponse on the stack of the lambda
          Requests,       \* the st_Request records that the clients perform
          Registrations,  \* the calls of addResource and setDefaultResource
          MaxCalls,       \* bound: how many of these calls are made
          MaxExchanges    \* bound: how many requests are sent

ASSUME ExchangeAssumption ==
    /\ Wrapped \notin Holders
    /\ MaxCalls \in Nat /\ MaxExchanges \in Nat

NoRoute == "none"
Empty == ""   \* an empty std::string

\* The statuses, one of each kind that a client tells apart.
Statuses == {200, 204, 302, 500}

\* The method of a request is one of enm_Method.
ASSUME RequestAssumption == \A r \in Requests : r.method # Empty

Exchanges == 1..MaxExchanges
Owners == Holders \cup {Wrapped}

VARIABLES resources,   \* m_impl->resources and, with an empty path, defaultResources
          pending,     \* the registrations that found the server not running and have yet to lock
          calls,       \* history: the registrations that returned true, in order
          routes,      \* what the server has been given by preRun
          inForce,     \* history: how many of the calls had been made by then
          serving,     \* the worker: "no", "starting", "yes", "stopping" or "down"
          curl,        \* g_curlInitFlag and g_curlInitResult
          cl,          \* the clients: their place in perform and their st_Response
          ex           \* the exchanges

serverPart == <<resources, pending, calls, routes, inForce, serving>>
exchangeVars == <<serverPart, curl, cl, ex>>

NoResponse == [curl |-> "OK", status |-> 0, raw |-> {}, headers |-> {}, body |-> {}]
NoRequest == [url |-> Empty]

\* stage: where the lambda is; writing: the owners between the exchange of
\* responded and the end of the writer; checked: the owners whose destructor has
\* decided; overlap, outcome and explicit (the handler or a holder answered) are
\* history.
NewExchange ==
    [stage |-> "unused", route |-> NoRoute, headers |-> {}, copies |-> {}, checked |-> {},
     responded |-> FALSE, writing |-> {}, stream |-> <<>>, sent |-> FALSE, outcome |-> "none",
     overlap |-> FALSE, explicit |-> FALSE]

ExchangeInit ==
    /\ resources = {} /\ pending = {} /\ calls = <<>>
    /\ routes = {} /\ inForce = 0
    /\ serving = "no"
    /\ curl = "untried"
    /\ cl = [k \in Clients |-> [pc |-> "idle", req |-> NoRequest, url |-> Empty, hops |-> 0,
                                cur |-> 0, resp |-> NoResponse]]
    /\ ex = [x \in Exchanges |-> NewExchange]

-----------------------------------------------------------------------------
(* The routes.                                                             *)

\* Mutant: the method is kept as it was spelled.
keepMethod(m) == IF m.spelling = "plain" THEN m.word ELSE "as spelled"

\* normalizeMethod: without the white space around it, in upper case.
normalizeMethod(m) == m.word

\* cBaseWorker_V2::isRunning: Starting or Running.
isRunning == serving \in {"starting", "yes"}

\* addResource, and setDefaultResource where the path is empty, ask whether the
\* server is running ...
AsksIsRunning(r) ==
    /\ normalizeMethod(r.method) # Empty /\ ~isRunning
    /\ r \notin pending /\ Len(calls) + Cardinality(pending) < MaxCalls
    /\ pending' = pending \cup {r}
    /\ UNCHANGED <<resources, calls, routes, inForce, serving, curl, cl, ex>>

\* ... and under the mutex replace the handler of the route, or append the route,
\* whatever the server does by then.
addResource(r) ==
    LET m == normalizeMethod(r.method)
    IN /\ r \in pending
       /\ pending' = pending \ {r}
       /\ resources' = {q \in resources : q.path # r.path \/ q.method # m}
                         \cup {[path |-> r.path, method |-> m, handler |-> r.handler]}
       /\ calls' = Append(calls, r)
       /\ UNCHANGED <<routes, inForce, serving, curl, cl, ex>>

Starts ==
    /\ serving = "no"
    /\ serving' = "starting"
    /\ UNCHANGED <<resources, pending, calls, routes, inForce, curl, cl, ex>>

\* preRun copies the routes into the server, which then listens.
Serve ==
    /\ serving = "starting"
    /\ serving' = "yes"
    /\ routes' = resources /\ inForce' = Len(calls)
    /\ UNCHANGED <<resources, pending, calls, curl, cl, ex>>

\* A stop is requested, and the server goes on until stopTriggered has reached it ...
Stops ==
    /\ serving = "yes"
    /\ serving' = "stopping"
    /\ UNCHANGED <<resources, pending, calls, routes, inForce, curl, cl, ex>>

\* ... and its thread has finished what it executes.
Stopped ==
    /\ serving = "stopping"
    /\ \A x \in Exchanges : ex[x].stage \in {"unused", "dropped", "done"}
    /\ serving' = "down"
    /\ UNCHANGED <<resources, pending, calls, routes, inForce, curl, cl, ex>>

\* The library's lookup: by path and method, else the default of the method.
Route(table, url, method) ==
    LET found == {q \in table : q.path = url /\ q.method = method}
        default == {q \in table : q.path = Empty /\ q.method = method}
    IN IF found # {} THEN (CHOOSE q \in found : TRUE).handler
       ELSE IF default # {} THEN (CHOOSE q \in default : TRUE).handler ELSE NoRoute

-----------------------------------------------------------------------------
(* cHTTPClient::perform                                                    *)

\* iequals tells spellings in another case not apart, and does not trim.
iequals(a, b) == a.word = b.word /\ (a.spelling = "padded" <=> b.spelling = "padded")

hasHeader(headers, name) == \E h \in headers : iequals(h.name, name)

Plain(word) == [word |-> word, spelling |-> "plain"]

\* st_Request, with its defaults: only the fields that perform decides on.
st_Request ==
    [url |-> Empty, method |-> "GET", headers |-> {}, body |-> FALSE, contentType |-> Empty,
     followRedirects |-> TRUE, maxRedirects |-> 10, timeout |-> 180000]

\* get, del and head ...
Request(url, method, headers) ==
    [st_Request EXCEPT !.url = url, !.method = method, !.headers = headers]

\* ... and post, put and patch.
RequestWithBody(url, method, body, headers, contentType) ==
    [Request(url, method, headers) EXCEPT !.body = body, !.contentType = contentType]

\* A header without a name is left out.
appendHeader(headers) == {h \in headers : h.name.word # Empty}

\* libcurl takes a line without a value for one that it is to leave out.
Passed(headers) == {h \in headers : h.value # Empty}

\* The headers as they go out: the ones of the request, and the content type (as
\* well as Accept) unless the caller gave one.
RequestHeaders(r) ==
    Passed(appendHeader(r.headers
        \cup IF r.contentType # Empty /\ ~hasHeader(r.headers, Plain("Content-Type"))
             THEN {[name |-> Plain("Content-Type"), value |-> r.contentType]} ELSE {}))

\* applyMethod: CURLOPT_POST for a POST, CURLOPT_HTTPGET for a GET, and the name in
\* CURLOPT_CUSTOMREQUEST for the others.
applyMethod(r) ==
    [post |-> r.method = "POST", custom |-> IF r.method \in {"GET", "POST"} THEN Empty ELSE r.method]

\* What libcurl then sends: the body makes a POST of what is not named; after a
\* redirect a POST goes on as a GET, and a method set by name stays.
WireMethod(r, hops) ==
    LET options == applyMethod(r)
    IN IF options.custom # Empty THEN options.custom
       ELSE IF hops = 0 /\ (options.post \/ r.body) THEN "POST" ELSE "GET"

ClientAt(k, loc) == cl[k].pc = loc

\* perform returns; the request is forgotten.
Fail(k, code) ==
    cl' = [cl EXCEPT ![k].pc = "returned", ![k].resp.curl = code]

Perform(k, r) ==
    /\ ClientAt(k, "idle")
    /\ cl' = [cl EXCEPT ![k].req = r, ![k].url = r.url,
                        ![k].pc = IF r.url = Empty THEN "returned" ELSE "init",
                        ![k].resp.curl = IF r.url = Empty THEN "URL_MALFORMAT" ELSE "OK"]
    /\ UNCHANGED <<serverPart, curl, ex>>

\* ensureCurlGlobalInit: one thread initialises, and the outcome is kept.
ensureCurlGlobalInit(k) ==
    /\ ClientAt(k, "init")
    /\ curl' \in IF curl = "untried" THEN {"OK", "FAILED_INIT"} ELSE {curl}
    /\ IF curl' = "OK" THEN cl' = [cl EXCEPT ![k].pc = "handle"] ELSE Fail(k, curl')
    /\ UNCHANGED <<serverPart, ex>>

\* CurlEasyHandle: curl_easy_init may fail.
NoHandle(k) ==
    /\ ClientAt(k, "handle")
    /\ Fail(k, "FAILED_INIT")
    /\ UNCHANGED <<serverPart, curl, ex>>

\* The options are set and curl_easy_perform is called.  A POST without
\* POSTFIELDS makes libcurl read the body from the standard input.
SetUp(k) ==
    /\ ClientAt(k, "handle")
    /\ cl' = [cl EXCEPT ![k].pc = IF cl[k].req.method = "POST" /\ ~cl[k].req.body
                                  THEN "stdin" ELSE "send"]
    /\ UNCHANGED <<serverPart, curl, ex>>

\* The standard input ends, if it ever does.
InputEnds(k) ==
    /\ ClientAt(k, "stdin")
    /\ cl' = [cl EXCEPT ![k].pc = "send"]
    /\ UNCHANGED <<serverPart, curl, ex>>

\* The request goes out to a server that listens, and is taken up when the thread
\* of the pool is free (threadPoolSize is 1 by default): makeRequestSnapshot.
Send(k, x) ==
    LET c == cl[k]
        route == Route(routes, c.url, WireMethod(c.req, c.hops))
    IN /\ ClientAt(k, "send") /\ serving \in {"yes", "stopping"}
       /\ \A y \in Exchanges : ex[y].stage \in {"unused", "dropped", "done"}
       /\ ex[x].stage = "unused" /\ \A y \in 1..(x - 1) : ex[y].stage # "unused"
       /\ cl' = [cl EXCEPT ![k].pc = "await", ![k].cur = x]
       /\ ex' = [ex EXCEPT ![x] = [@ EXCEPT !.stage = IF route = NoRoute THEN "dropped" ELSE "handler",
                                            !.route = route,
                                            !.headers = RequestHeaders(c.req),
                                            !.copies = IF route = NoRoute THEN {} ELSE {Wrapped}]]
       /\ UNCHANGED <<serverPart, curl>>

\* The connection fails, or is closed: by the network, by a server that has no
\* handler for the request, or by one that has ended.
Broken(k) ==
    /\ cl[k].pc \in {"send", "await", "headers"}
    /\ Fail(k, "FAILED")
    /\ UNCHANGED <<serverPart, curl, ex>>

\* Mutant: the headers of the hop before are kept.
StatusLineKeeps(resp, x) ==
    [resp EXCEPT !.status = Head(ex[x].stream), !.raw = @ \cup {x}]

\* writeHeaderCallback on the status line: libcurl has its code, and what earlier
\* hops left is cleared.
StatusLine(resp, x) ==
    [resp EXCEPT !.status = Head(ex[x].stream), !.raw = {x}, !.headers = {}]

ReceivesStatus(k) ==
    LET x == cl[k].cur
    IN /\ ClientAt(k, "await") /\ ex[x].sent /\ ex[x].stream # <<>>
       /\ cl' = [cl EXCEPT ![k].pc = "headers", ![k].resp = StatusLine(@, x)]
       /\ UNCHANGED <<serverPart, curl, ex>>

writeBodyCallback(resp, x) == [resp EXCEPT !.body = @ \cup {x}]

\* The other header lines; then the redirect is followed, refused, or the body
\* comes (writeBodyCallback) and the transfer is complete.
ReceivesRest(k, target) ==
    LET c == cl[k]
        resp == [c.resp EXCEPT !.headers = @ \cup {c.cur}]
    IN /\ ClientAt(k, "headers")
       /\ cl' = [cl EXCEPT ![k] =
              IF resp.status = 302 /\ c.req.followRedirects
              THEN IF c.hops < c.req.maxRedirects
                   THEN [@ EXCEPT !.pc = "send", !.hops = c.hops + 1, !.url = target, !.resp = resp]
                   ELSE [@ EXCEPT !.pc = "returned", !.resp = [resp EXCEPT !.curl = "TOO_MANY_REDIRECTS"]]
              ELSE [@ EXCEPT !.pc = "returned",
                             !.resp = IF resp.status = 200 /\ c.req.method # "HEAD"
                                      THEN writeBodyCallback(resp, c.cur) ELSE resp]]
       /\ UNCHANGED <<serverPart, curl, ex>>

\* libcurl knows no timeout without a positive value.
Limited(k) == cl[k].req.timeout > 0

\* Mutant: the timeout covers the connection only.
TimesOutConnecting(k) ==
    /\ ClientAt(k, "send") /\ Limited(k)
    /\ Fail(k, "TIMEDOUT")
    /\ UNCHANGED <<serverPart, curl, ex>>

\* CURLOPT_TIMEOUT_MS covers the transfer as a whole.
TimesOut(k) ==
    /\ cl[k].pc \in {"send", "await", "headers"} /\ Limited(k)
    /\ Fail(k, "TIMEDOUT")
    /\ UNCHANGED <<serverPart, curl, ex>>

\* st_Response::ok
ok(resp) == resp.curl = "OK" /\ resp.status \in 200..299

-----------------------------------------------------------------------------
(* cResponse, for any of its owners.                                       *)

\* An owner that executes no member function of its copy.
Ready(x, p) ==
    /\ p \in ex[x].copies \ ex[x].checked
    /\ \A w \in ex[x].writing : w.by # p

OnlyExchange(x, e) ==
    /\ ex' = [ex EXCEPT ![x] = e]
    /\ UNCHANGED <<serverPart, curl, cl>>

\* Mutant: responded is loaded, and stored when the writer is done.
writeLoads(e, p, status) ==
    IF e.responded THEN e ELSE [e EXCEPT !.writing = @ \cup {[by |-> p, status |-> status]}]

\* write: responded.exchange(true); whoever was first calls the writer.
write(e, p, status) ==
    IF e.responded THEN e
    ELSE [e EXCEPT !.responded = TRUE, !.writing = @ \cup {[by |-> p, status |-> status]}]

\* writeResponse: the stream gets the status line, the headers and the body.
writeResponse(x, w) ==
    /\ w \in ex[x].writing
    /\ OnlyExchange(x, [ex[x] EXCEPT !.writing = @ \ {w}, !.stream = Append(@, w.status),
                                     !.responded = TRUE])

\* A handler, or a holder of a copy, writes a status or redirects.
Answer(x, p, status) ==
    /\ Ready(x, p)
    /\ p = Wrapped => ex[x].stage = "handler"
    /\ ~ex[x].responded
    /\ OnlyExchange(x, [write(ex[x], p, status) EXCEPT !.explicit = TRUE])

\* use_count() == 1, read by a destructor.
IsLast(e) == Cardinality(e.copies) = 1

\* ~cResponse reads responded and use_count, and may write 204 ...
DestructorChecks(x, p) ==
    LET e == [ex[x] EXCEPT !.checked = @ \cup {p},
                           !.overlap = @ \/ (~ex[x].responded /\ ex[x].checked # {})]
    IN /\ Ready(x, p)
       /\ p = Wrapped => ex[x].stage \in {"unwind", "escape"}
       /\ OnlyExchange(x, IF ~e.responded /\ IsLast(e) THEN write(e, p, 204) ELSE e)

\* The last owner sends the stream.
Released(e) == [e EXCEPT !.sent = (e.copies = {} /\ e.stage = "done")]

\* ... and the copy is gone.  The lambda ends with its own, or leaves with the
\* exception of the error handler.
DestructorReleases(x, p) ==
    LET e == [ex[x] EXCEPT !.copies = @ \ {p}, !.checked = @ \ {p},
                           !.stage = IF p # Wrapped THEN @
                                     ELSE IF @ = "escape" THEN "onError" ELSE "done",
                           !.headers = IF p = Wrapped THEN {} ELSE @,
                           !.route = IF p = Wrapped THEN NoRoute ELSE @]
    IN /\ p \in ex[x].checked
       /\ \A w \in ex[x].writing : w.by # p
       /\ OnlyExchange(x, Released(e))

-----------------------------------------------------------------------------
(* The lambda that preRun installs for a route, on a thread of the pool.   *)

LambdaAt(x, loc) == ex[x].stage = loc /\ \A w \in ex[x].writing : w.by # Wrapped

\* The handler copies its cResponse for another thread.
HandlerCopies(x, h) ==
    /\ LambdaAt(x, "handler")
    /\ h \notin ex[x].copies
    /\ OnlyExchange(x, [ex[x] EXCEPT !.copies = @ \cup {h}])

HandlerReturns(x) ==
    /\ LambdaAt(x, "handler")
    /\ OnlyExchange(x, [ex[x] EXCEPT !.stage = "unwind", !.outcome = "returned"])

HandlerThrows(x) ==
    /\ LambdaAt(x, "handler")
    /\ OnlyExchange(x, [ex[x] EXCEPT !.stage = "catch", !.outcome = "threw"])

\* Mutant: the failure is only logged.
CatchesSilently(x) ==
    /\ LambdaAt(x, "catch")
    /\ OnlyExchange(x, [ex[x] EXCEPT !.stage = "unwind"])

\* setLastError and the error handler, and then the 500 ...
Catches(x) ==
    /\ LambdaAt(x, "catch")
    /\ OnlyExchange(x, write([ex[x] EXCEPT !.stage = "unwind"], Wrapped, 500))

\* ... which is never written if the error handler throws.
ErrorHandlerThrows(x) ==
    /\ LambdaAt(x, "catch")
    /\ OnlyExchange(x, [ex[x] EXCEPT !.stage = "escape", !.outcome = "escaped"])

\* The library passes what leaves a lambda to on_error, which calls the error
\* handler again.
OnError(x) ==
    /\ LambdaAt(x, "onError")
    /\ OnlyExchange(x, Released([ex[x] EXCEPT !.stage = "done"]))

\* If that throws, too, the exception leaves the library and run().
OnErrorThrows(x) ==
    /\ LambdaAt(x, "onError")
    /\ ex' = [ex EXCEPT ![x] = Released([@ EXCEPT !.stage = "done"])]
    /\ serving' = "down"
    /\ UNCHANGED <<resources, pending, calls, routes, inForce, curl, cl>>

-----------------------------------------------------------------------------
ClientStep(k) ==
    \/ ensureCurlGlobalInit(k) \/ NoHandle(k) \/ SetUp(k) \/ Broken(k) \/ ReceivesStatus(k)
    \/ TimesOut(k)
    \/ \E x \in Exchanges : Send(k, x)
    \/ \E r \in Requests : r.url # Empty /\ ReceivesRest(k, r.url)

ServerStep(x) ==
    \/ HandlerReturns(x) \/ HandlerThrows(x) \/ Catches(x) \/ ErrorHandlerThrows(x)
    \/ OnError(x) \/ OnErrorThrows(x)
    \/ \E h \in Holders : HandlerCopies(x, h)
    \/ \E p \in Owners :
          \/ DestructorChecks(x, p) \/ DestructorReleases(x, p)
          \/ \E status \in Statuses : Answer(x, p, status)
    \/ \E w \in ex[x].writing : writeResponse(x, w)

ExchangeNext ==
    \/ \E r \in Registrations : AsksIsRunning(r) \/ addResource(r)
    \/ Starts \/ Serve \/ Stops \/ Stopped
    \/ \E k \in Clients : ClientStep(k) \/ InputEnds(k) \/ \E r \in Requests : Perform(k, r)
    \/ \E x \in Exchanges : ServerStep(x)

ExchangeSpec == ExchangeInit /\ [][ExchangeNext]_exchangeVars

\* perform goes on by itself, and a timeout of libcurl expires; nothing is assumed
\* of the network or of the server.
FairExchangeSpec ==
    /\ ExchangeSpec
    /\ \A k \in Clients : /\ WF_exchangeVars(ensureCurlGlobalInit(k) \/ NoHandle(k) \/ SetUp(k))
                          /\ WF_exchangeVars(TimesOut(k))

-----------------------------------------------------------------------------
\* A request is answered exactly once, and whole before it is sent, whoever of the
\* handler, the threads it handed copies to, the lambda's catch clause and the
\* destructors of the copies gets there first (cResponse::write, ~cResponse).  It
\* gets no answer only if two copies are destroyed at the same time, when each
\* destructor sees the other's copy.
AnsweredOnce ==
    \A x \in Exchanges :
        /\ Len(ex[x].stream) + Cardinality(ex[x].writing) <= 1
        /\ ex[x].sent => ex[x].writing = {} /\ (ex[x].stream # <<>> \/ ex[x].overlap)

\* A failure is never taken for a success: the client that sees ok() has an answer
\* that the handler or a holder of a copy gave, or 204 from the destructor because
\* the handler chose to say nothing; unless the error handler throws as well, when
\* the destructor answers 204 in place of the 500.  A handler that first answers and
\* then throws is a success: responded keeps the 500 of the catch clause away.
FailureIsNotOk ==
    \A k \in Clients : ClientAt(k, "returned") /\ ok(cl[k].resp) =>
        LET e == ex[cl[k].cur]
        IN e.explicit \/ (cl[k].resp.status = 204 /\ e.outcome \in {"returned", "escaped"})

\* However many redirects were followed and wherever the transfer was cut off,
\* the status, the headers and the body of an st_Response are those of one hop
\* (writeHeaderCallback).
OneHop ==
    \A k \in Clients : ClientAt(k, "returned") =>
        LET r == cl[k].resp
        IN /\ r.headers \cup r.body \subseteq r.raw
           /\ Cardinality(r.raw) <= 1
           /\ \A x \in r.raw : r.status = Head(ex[x].stream)
           /\ ok(r) => r.raw = {cl[k].cur}

\* The registration in force for a path (or the default) and a method: the last one
\* written before preRun's copy.
LastCall(path, method) ==
    {i \in 1..inForce : /\ calls[i].path = path /\ calls[i].method.word = method
                       /\ \A j \in (i + 1)..inForce :
                             calls[j].path # path \/ calls[j].method.word # method}

\* The handler of the registration in force, its own before the default.
Registered(own, default) ==
    IF own \cup default = {} THEN NoRoute
    ELSE calls[CHOOSE i \in IF own # {} THEN own ELSE default : TRUE].handler

ContentTypes(headers) == {h \in headers : iequals(h.name, Plain("Content-Type"))}

\* A request reaches the handler whose registration for its path and method was the
\* last to be written before the server started, however the method was spelled,
\* with every header of the caller that has a name and a value, and with at most one
\* content type, unless the caller gave several; only a GET with a body arrives as a
\* POST (addResource, preRun, perform and applyMethod).  A registration that found
\* the server stopped or stopping, and was written after the start had copied the
\* routes, returns true as well and is not served.
RequestArrives ==
    \A k \in Clients : ClientAt(k, "await") /\ cl[k].hops = 0 =>
        LET r == cl[k].req
            e == ex[cl[k].cur]
            m == IF r.method = "GET" /\ r.body THEN "POST" ELSE r.method
        IN e.stage \in {"dropped", "handler"} =>
           /\ e.route = Registered(LastCall(r.url, m), LastCall(Empty, m))
           /\ {h \in r.headers : h.name.word # Empty /\ h.value # Empty} \subseteq e.headers
           /\ \/ Cardinality(ContentTypes(e.headers)) <= 1
              \/ ContentTypes(e.headers) \subseteq ContentTypes(r.headers)

\* perform with a timeout returns whatever the network and the server do or forget,
\* unless it has to read the body of a POST from the standard input.  Without a
\* timeout (0) it waits for a silent handler for ever.
PerformReturns ==
    \A k \in Clients :
        cl[k].pc = "init" /\ Limited(k) ~> cl[k].pc \in {"returned", "stdin"}
=============================================================================
