---------------------------- MODULE HandlerChains ----------------------------
(***************************************************************************)
(* goproxy's handler chains: ProxyHttpServer.reqHandlers and respHandlers. *)
(* Handlers are appended at setup, before the server serves (OnRequest().  *)
(* Do and OnResponse().Do, not under src/).  filterRequest folds the       *)
(* request chain over every request, and filterResponse folds the          *)
(* response chain over every response, nil included on the round-trip     *)
(* error path.  A request handler returns the request to send on and,      *)
(* to short-circuit, a canned response; a response handler returns the    *)
(* response to pass on.  Requests and responses are model values, a       *)
(* handler is a function on them, and Nil is Go's nil.                     *)
(***************************************************************************)
EXTENDS Naturals, Sequences, SequencesExt

CONSTANTS
    Reqs,         \* the requests a handler may see or return
    Resps,        \* the responses a handler may see or return
    Nil,          \* nil, a value in neither Reqs nor Resps
    MaxHandlers   \* the longest chain explored, a natural number

\* ReqHandler.Handle(req, ctx) (*http.Request, *http.Response)
ReqHandlers == [Reqs -> [req: Reqs, resp: Resps \cup {Nil}]]
\* RespHandler.Handle(resp, ctx) *http.Response
RespHandlers == [Resps \cup {Nil} -> Resps \cup {Nil}]

VARIABLES
    reqHandlers,   \* proxy.reqHandlers
    respHandlers,  \* proxy.respHandlers
    serving,       \* the server has started serving
    reqOut,        \* the last filterRequest call: input and result
    respOut        \* the last filterResponse call: input and result

vars == <<reqHandlers, respHandlers, serving, reqOut, respOut>>

TypeOK ==
    /\ reqHandlers \in Seq(ReqHandlers) /\ Len(reqHandlers) <= MaxHandlers
    /\ respHandlers \in Seq(RespHandlers) /\ Len(respHandlers) <= MaxHandlers
    /\ serving \in BOOLEAN
    /\ reqOut \in [done: BOOLEAN, in: Reqs \cup {Nil},
                   out: [req: Reqs \cup {Nil}, resp: Resps \cup {Nil}]]
    /\ respOut \in [done: BOOLEAN, in: Resps \cup {Nil}, out: Resps \cup {Nil}]

-----------------------------------------------------------------------------
(* filterRequest: req = r, then every handler is called, each with the     *)
(* original r, and its result replaces req and resp; a non-nil resp ends   *)
(* the loop.                                                               *)
FilterRequest(hs, r) ==
    FoldLeft(LAMBDA acc, h : IF acc.resp /= Nil THEN acc ELSE h[r],
             [req |-> r, resp |-> Nil], hs)

(* filterResponse: resp = respOrig, then each handler, with ctx.Resp set   *)
(* to the current resp, returns the next one.                              *)
FilterResponse(hs, respOrig) ==
    FoldLeft(LAMBDA acc, h : h[acc], respOrig, hs)

(* The request chain as handlers are meant to compose: each handler gets   *)
(* what the one before it returned, and a canned response stops it.       *)
ChainedRequest(hs, r) ==
    LET f[i \in 0..Len(hs)] ==
          IF i = 0 THEN [req |-> r, resp |-> Nil]
          ELSE IF f[i - 1].resp /= Nil THEN f[i - 1]
          ELSE hs[i][f[i - 1].req]
    IN  f[Len(hs)]

-----------------------------------------------------------------------------
\* NewProxyHttpServer: both chains empty.
Init ==
    /\ reqHandlers = <<>>
    /\ respHandlers = <<>>
    /\ serving = FALSE
    /\ reqOut = [done |-> FALSE, in |-> Nil, out |-> [req |-> Nil, resp |-> Nil]]
    /\ respOut = [done |-> FALSE, in |-> Nil, out |-> Nil]

\* OnRequest().Do(h): append a request handler.
OnRequestDo(h) ==
    /\ ~serving
    /\ Len(reqHandlers) < MaxHandlers
    /\ reqHandlers' = Append(reqHandlers, h)
    /\ UNCHANGED <<respHandlers, serving, reqOut, respOut>>

\* OnResponse().Do(h): append a response handler.
OnResponseDo(h) ==
    /\ ~serving
    /\ Len(respHandlers) < MaxHandlers
    /\ respHandlers' = Append(respHandlers, h)
    /\ UNCHANGED <<reqHandlers, serving, reqOut, respOut>>

\* The server starts serving; the chains are fixed from now on.
Serve ==
    /\ ~serving
    /\ serving' = TRUE
    /\ UNCHANGED <<reqHandlers, respHandlers, reqOut, respOut>>

\* ServeHTTP calls filterRequest on a request.
HandleRequest(r) ==
    /\ serving
    /\ reqOut' = [done |-> TRUE, in |-> r, out |-> FilterRequest(reqHandlers, r)]
    /\ UNCHANGED <<reqHandlers, respHandlers, serving, respOut>>

\* ServeHTTP calls filterResponse on a response, or on nil after an error.
HandleResponse(p) ==
    /\ serving
    /\ respOut' = [done |-> TRUE, in |-> p,
                   out |-> FilterResponse(respHandlers, p)]
    /\ UNCHANGED <<reqHandlers, respHandlers, serving, reqOut>>

Next ==
    \/ \E h \in ReqHandlers : OnRequestDo(h)
    \/ \E h \in RespHandlers : OnResponseDo(h)
    \/ Serve
    \/ \E r \in Reqs : HandleRequest(r)
    \/ \E p \in Resps \cup {Nil} : HandleResponse(p)

Spec == Init /\ [][Next]_vars

-----------------------------------------------------------------------------
(* filterRequest composes the request handlers: a handler sees the        *)
(* request the handler before it returned, and the first canned response  *)
(* ends the chain, as the loop's assignments to req and resp suggest and  *)
(* as filterResponse does for responses.                                   *)
RequestChained ==
    reqOut.done => reqOut.out = ChainedRequest(reqHandlers, reqOut.in)

=============================================================================
