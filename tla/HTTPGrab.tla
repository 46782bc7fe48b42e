------------------------------ MODULE HTTPGrab ------------------------------
(***************************************************************************)
(* Conn.HTTP of src/zlib/conn.go: the optional proxy CONNECT (doProxy),   *)
(* the first request (makeAndSendHTTPRequest) and the redirect loop of    *)
(* doHTTP, with what each step records in grabData.HTTP and in c.domain.  *)
(*                                                                         *)
(* The call is one blocking sequence on one Conn; nothing else runs on    *)
(* the Conn meanwhile.  Each action is one request/response exchange,     *)
(* the points where the code blocks on the network.  The server's answer *)
(* (or a read error or timeout) is the environment's choice.              *)
(***************************************************************************)
EXTENDS Integers, Sequences, SequencesExt, FiniteSets

CONSTANTS
    Responses,      \* HTTP responses a server may send
    Domains,        \* values of c.domain when HTTP is called ("" = unset)
    ProxyConfigs,   \* config.ProxyDomain: NoProxy or [text, host], host the
                    \* part of text before the first ":"
    MaxRedirects    \* config.MaxRedirects

\* The Location header of a response: absent, several values, the empty
\* string, or a URL as url.Parse sees it (the host it names, "" for a
\* relative reference, its RequestURI, whether it parses).
NoLocation == [kind |-> "absent"]
MultiLocation == [kind |-> "multi"]
EmptyLocation == [kind |-> "empty"]
URLs(hosts, uris) == [kind : {"url"}, host : hosts, uri : uris, parseOK : BOOLEAN]

ASSUME /\ MaxRedirects \in Nat
       /\ \A r \in Responses : r.status \in 100 .. 599 /\ r.canRedirect \in BOOLEAN

\* The address of the peer (c.RemoteAddr()'s host) and the path requested
\* first (config.Endpoint).
RemoteIP == "remoteIP"
FirstEndpoint == "/"

\* The outcome of a read that failed: http.ReadResponse or the body read
\* returned an error (including a deadline timeout).
ReadError == [readError |-> TRUE]

None == [absent |-> TRUE]
NoProxy == None

VARIABLES
    pc,           \* where the call is: "proxy", "request", "loop" or "done"
    domain,       \* c.domain
    endpoint,     \* config.Endpoint
    proxy,        \* config.ProxyDomain
    response,     \* httpResponse of doHTTP: the response the loop examines
    redirectCount,
    wire,         \* the exchanges on the socket: [req, resp] in order
    grab,         \* grabData.HTTP
    ret           \* what HTTP returned: "ok", an error name or "panic"

vars == <<pc, domain, endpoint, proxy, response, redirectCount, wire, grab, ret>>

-----------------------------------------------------------------------------
(* Helpers of the code.                                                     *)

\* Mutant of MakeHTTPRequest: the RemoteAddr fallback dropped.
MakeHTTPRequestNoFallback(dom, method, path) == [method |-> method, host |-> dom, path |-> path]

\* makeHTTPRequest: the Host is c.domain, or the peer's address when
\* c.domain is empty.  (Scheme, User-Agent and the encoded copy are
\* formatting and left out.)
MakeHTTPRequest(dom, method, path) ==
    [method |-> method, host |-> IF dom # "" THEN dom ELSE RemoteIP, path |-> path]

\* makeAndSendHTTPRequest: through a proxy the Host is the proxy's host,
\* config.ProxyDomain up to the first ":".
TargetRequest(dom, path) ==
    LET req == MakeHTTPRequest(dom, "GET", path)
    IN  IF proxy # NoProxy THEN [req EXCEPT !.host = proxy.host] ELSE req

\* HTTPResponse.isRedirect and canRedirectWithConn (outside this
\* repository): a 3xx status, and the server's redirect being one this
\* conn may follow.
IsRedirect(r) == r.status \in 300 .. 399
CanRedirectWithConn(r) == r.canRedirect

\* The statuses the loop follows with a new request.
FollowStatuses == {300, 301, 302, 303, 307}
UseProxy == 305
NotModified == 304

\* What one iteration of the loop body does with the response: the
\* .(string) assertion panics on a missing or multi-valued Location, an
\* empty one is an error, then the status decides.
Iteration(r) ==
    CASE r.location \in {NoLocation, MultiLocation}           -> "panic"
      [] r.location = EmptyLocation                           -> "errNoLocation"
      [] r.status \in FollowStatuses /\ ~r.location.parseOK   -> "errURLParse"
      [] r.status \in FollowStatuses                          -> "follow"
      [] r.status = UseProxy                                  -> "useProxy"
      [] r.status = NotModified                               -> "errNotModified"
      [] OTHER                                                -> "errRedirectCode"

\* Mutant of LoopContinues: redirectCount <= config.MaxRedirects.
LoopContinuesOffByOne(r, count) ==
    IsRedirect(r) /\ CanRedirectWithConn(r) /\ count <= MaxRedirects

\* The condition of doHTTP's for loop.
LoopContinues(r, count) ==
    IsRedirect(r) /\ CanRedirectWithConn(r) /\ count < MaxRedirects

\* Mutant of NextCount: the count advanced only where a request is sent, as
\* if the increment sat in the redirect case instead of the for statement.
NextCountOnFollow(r, count) == IF r.status \in FollowStatuses THEN count + 1 ELSE count

\* The loop's post statement: redirectCount++ after every iteration.
NextCount(r, count) == count + 1

\* Mutant of ProxyOutcome: the status check of doProxy dropped.
ProxyOutcomeNoStatusCheck(r) == "ok"

\* doProxy after the CONNECT response was read: only 200 opens the tunnel.
ProxyOutcome(r) == IF r.status = 200 THEN "ok" ELSE "errProxyStatus"

\* Mutant of RecordFirst: Request and Response stored before the error check.
RecordFirstBeforeCheck(req, resp) == [grab EXCEPT !.request = req, !.response = resp]

\* doHTTP: Request and Response are stored only after the exchange succeeded.
RecordFirst(req, resp) ==
    IF resp = ReadError THEN grab ELSE [grab EXCEPT !.request = req, !.response = resp]

\* An exchange: the request written and what the read returned.
Exchange(req) == {[req |-> req, resp |-> r] : r \in Responses \cup {ReadError}}

EmptyGrab == [proxyRequest |-> None, proxyResponse |-> None, request |-> None,
              response |-> None, redirectRequests |-> <<>>, redirectResponses |-> <<>>]

-----------------------------------------------------------------------------
(* The call.                                                                *)

Init ==
    /\ domain \in Domains
    /\ proxy \in ProxyConfigs
    /\ endpoint = FirstEndpoint
    /\ pc = IF proxy # NoProxy THEN "proxy" ELSE "request"
    /\ response = None
    /\ redirectCount = 0
    /\ wire = <<>>
    /\ grab = EmptyGrab
    /\ ret = "none"

\* doProxy: record the request, send CONNECT for config.ProxyDomain, record
\* the response; a read error or a status other than 200 ends HTTP.
DoProxy ==
    /\ pc = "proxy"
    /\ LET req == MakeHTTPRequest(domain, "CONNECT", proxy.text)
       IN  \E x \in Exchange(req) :
             /\ wire' = Append(wire, x)
             /\ IF x.resp = ReadError
                THEN /\ grab' = [grab EXCEPT !.proxyRequest = req]
                     /\ ret' = "errIO"
                     /\ pc' = "done"
                ELSE /\ grab' = [grab EXCEPT !.proxyRequest = req, !.proxyResponse = x.resp]
                     /\ ret' = IF ProxyOutcome(x.resp) = "ok" THEN ret ELSE ProxyOutcome(x.resp)
                     /\ pc' = IF ProxyOutcome(x.resp) = "ok" THEN "request" ELSE "done"
    /\ UNCHANGED <<domain, endpoint, proxy, response, redirectCount>>

\* doHTTP's first request; an error returns before anything is recorded.
FirstRequest ==
    /\ pc = "request"
    /\ \E x \in Exchange(TargetRequest(domain, endpoint)) :
         /\ wire' = Append(wire, x)
         /\ grab' = RecordFirst(x.req, x.resp)
         /\ response' = IF x.resp = ReadError THEN response ELSE x.resp
         /\ ret' = IF x.resp = ReadError THEN "errIO" ELSE ret
         /\ pc' = IF x.resp = ReadError THEN "done" ELSE "loop"
    /\ UNCHANGED <<domain, endpoint, proxy, redirectCount>>

\* The loop condition fails: HTTP returns nil.
LoopExit ==
    /\ pc = "loop"
    /\ ~LoopContinues(response, redirectCount)
    /\ pc' = "done"
    /\ ret' = "ok"
    /\ UNCHANGED <<domain, endpoint, proxy, response, redirectCount, wire, grab>>

\* An iteration that returns an error (or panics).
LoopFail ==
    /\ pc = "loop"
    /\ LoopContinues(response, redirectCount)
    /\ Iteration(response) \notin {"follow", "useProxy"}
    /\ ret' = Iteration(response)
    /\ pc' = "done"
    /\ UNCHANGED <<domain, endpoint, proxy, response, redirectCount, wire, grab>>

\* 305 Use Proxy: nothing is done and the loop goes round with the same
\* response.
UseProxyIteration ==
    /\ pc = "loop"
    /\ LoopContinues(response, redirectCount)
    /\ Iteration(response) = "useProxy"
    /\ redirectCount' = NextCount(response, redirectCount)
    /\ UNCHANGED <<pc, domain, endpoint, proxy, response, wire, grab, ret>>

\* 301/302/...: c.domain and config.Endpoint are overwritten from the
\* Location URL and a new request is sent; on success both sides are
\* appended to the redirect lists, on error HTTP returns.
FollowRedirect ==
    /\ pc = "loop"
    /\ LoopContinues(response, redirectCount)
    /\ Iteration(response) = "follow"
    /\ domain' = response.location.host
    /\ endpoint' = response.location.uri
    /\ \E x \in Exchange(TargetRequest(domain', endpoint')) :
         /\ wire' = Append(wire, x)
         /\ IF x.resp = ReadError
            THEN /\ UNCHANGED <<grab, response, redirectCount>>
                 /\ ret' = "errIO"
                 /\ pc' = "done"
            ELSE /\ grab' = [grab EXCEPT !.redirectRequests = Append(@, x.req),
                                         !.redirectResponses = Append(@, x.resp)]
                 /\ response' = x.resp
                 /\ redirectCount' = NextCount(response, redirectCount)
                 /\ UNCHANGED <<ret, pc>>
    /\ UNCHANGED proxy

Next == DoProxy \/ FirstRequest \/ LoopExit \/ LoopFail \/ UseProxyIteration \/ FollowRedirect

\* Every step is the code's own next statement; a blocking read returns at
\* the latest when the deadline passes (as an error).
Spec == Init /\ [][Next]_vars /\ WF_vars(Next)

-----------------------------------------------------------------------------
(* Properties.                                                              *)

Request == [method : {"GET", "CONNECT"}, host : STRING, path : STRING]
Answer == Responses \cup {ReadError}

\* Every request carries a host and every recorded response is one the
\* server sent.
TypeOK ==
    /\ pc \in {"proxy", "request", "loop", "done"}
    /\ redirectCount \in 0 .. MaxRedirects
    /\ response \in Responses \cup {None}
    /\ wire \in Seq([req : Request, resp : Answer])
    /\ \A i \in DOMAIN wire : wire[i].req.host # ""
    /\ grab.request \in Request \cup {None} /\ grab.response \in Responses \cup {None}
    /\ grab.redirectRequests \in Seq(Request) /\ grab.redirectResponses \in Seq(Responses)

\* doHTTP's loop bound: however the server answers, the scanner sends at
\* most MaxRedirects redirect requests, and so at most MaxRedirects + 2
\* requests in all (CONNECT, first request, redirects).
RedirectsBounded ==
    /\ Len(grab.redirectRequests) <= MaxRedirects
    /\ Len(wire) <= MaxRedirects + 2

\* HTTP returns: redirect chains, 305 answers that make no new request, and
\* read errors all end the call.
HTTPReturns == <>(pc = "done")

\* With a proxy configured, no request for the target is written before a
\* CONNECT to the proxy was answered with 200 (doProxy's status check).
TargetOnlyThroughTunnel ==
    proxy # NoProxy =>
        \A i \in DOMAIN wire :
            wire[i].req.method = "GET" =>
                \E j \in 1 .. i - 1 : /\ wire[j].req.method = "CONNECT"
                                     /\ wire[j].resp # ReadError
                                     /\ wire[j].resp.status = 200

\* The exchanges recorded in grabData.HTTP (Request/Response, then the
\* redirect lists) are exactly the successful target exchanges on the
\* socket, in order: no failed exchange is recorded and none is lost.
TargetExchangesRecorded ==
    LET ok  == SelectSeq(wire, LAMBDA x : x.req.method = "GET" /\ x.resp # ReadError)
        rec == IF grab.request = None THEN <<>>
               ELSE <<[req |-> grab.request, resp |-> grab.response]>>
        red == [i \in 1 .. Len(grab.redirectRequests) |->
                  [req |-> grab.redirectRequests[i], resp |-> grab.redirectResponses[i]]]
    IN  rec \o red = ok

\* The code checks for a missing Location and returns "No location found":
\* a redirect without a single Location header ends HTTP with an error,
\* never a panic.
LocationCheckedWithoutPanic == ret # "panic"

\* A redirect is sent to the host its Location names, and a relative
\* Location stays on the host of the request it answered (without a proxy).
RedirectHostResolved ==
    proxy = NoProxy =>
        \A i \in 2 .. Len(wire) :
            wire[i - 1].req.method = "GET" =>
                LET loc == wire[i - 1].resp.location
                IN  wire[i].req.host = IF loc.host # "" THEN loc.host ELSE wire[i - 1].req.host

=============================================================================
