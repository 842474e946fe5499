------------------------------ MODULE ProxyHTTP ------------------------------
(***************************************************************************)
(* The plain-HTTP path of the proxy: goproxy's ProxyHttpServer.ServeHTTP   *)
(* for a method other than CONNECT, with smokescreen's request handler     *)
(* (role extraction and ACL decision), its dialer (address                 *)
(* classification) and its response handler (error-header stripping,     *)
(* rejection of failed round trips, the canonical decision record).        *)
(*                                                                         *)
(* Requests are handled concurrently, each by its own goroutine; a request *)
(* is a record of the parts the handlers look at.  Headers, bodies and     *)
(* URLs are abstracted to what the properties tell apart.                  *)
(***************************************************************************)
EXTENDS Integers, Sequences, FiniteSets

CONSTANTS
    Requests,         \* concurrent client requests
    Roles,            \* role names a client may present
    Hosts,            \* destination hosts a request may name
    Policy,           \* the egress ACL: configured role -> [mode, hosts]
    DefaultRule,      \* the ACL's rule for a role it does not list, or NoRule
    NoRule,           \* the ACL has no default rule
    AddrClass,        \* host -> class of the address it resolves to
    NoHost,           \* the request carries no Host
    BadHost           \* a Host header url.Parse rejects

Modes == {"open", "report", "enforce"}
Classes == {"public", "private", "allowed_exempt", "denied"}

ASSUME ConstAssumption ==
    /\ IsFiniteSet(Requests)
    /\ DOMAIN Policy \subseteq Roles
    /\ \A role \in DOMAIN Policy :
          /\ Policy[role].mode \in Modes
          /\ Policy[role].hosts \subseteq Hosts
          /\ Policy[role] /= NoRule
    /\ DefaultRule /= NoRule =>
          /\ DefaultRule.mode \in Modes
          /\ DefaultRule.hosts \subseteq Hosts
    /\ AddrClass \in [Hosts -> Classes]
    /\ Hosts /= {}
    /\ NoHost \notin Hosts /\ BadHost \notin Hosts /\ NoHost /= BadHost

\* The X-Smokescreen-Role values a request may carry (zero, one or two).
RoleHeaders == {<<>>} \cup [1..1 -> Roles] \cup [1..2 -> Roles]

\* A request: an absolute URL naming a host, or a path with a Host header
\* that may be missing or unparsable.
RequestShapes ==
    {q \in [abs: BOOLEAN, target: Hosts \cup {NoHost, BadHost},
            roleHdr: RoleHeaders] :
        q.abs => q.target \in Hosts}

\* A response as the client sees it: status, whether it carries the
\* X-Smokescreen-Error header, and whose body it is.
Responses == [status: {200, 404, 407, 500, 503}, errHdr: BOOLEAN,
              body: {"upstream", "reject", "error"}]
NoResp == [status |-> 0, errHdr |-> FALSE, body |-> "none"]

\* How the upstream round trip ended (ctx.Error).
RoundTripErrors == {"none", "denied", "resolve", "dial"}

Decisions == [allow: BOOLEAN, reason: {"open", "allowed", "would_deny",
              "acl_deny", "unknown_role", "missing_role", "denied_address"}]

VARIABLES
    pc,         \* where each request's goroutine is in ServeHTTP
    req,        \* the request as received
    decision,   \* smokescreenContext.decision
    dialed,     \* an upstream connection was opened for the request
    upstream,   \* the response of the round trip, or NoResp
    rtErr,      \* ctx.Error after the round trip
    delivered,  \* the response written to the client, or NoResp
    logs,       \* canonical decision records emitted for the request
    logAllow,   \* the allow field of the last of them
    AllowMissingRole \* Config.AllowMissingRole, fixed once LoadConfig returns

vars == <<pc, req, decision, dialed, upstream, rtErr, delivered, logs,
          logAllow, AllowMissingRole>>

PCs == {"idle", "received", "filtering", "roundtrip", "responding",
        "answered", "aborted"}

TypeOK ==
    /\ pc \in [Requests -> PCs]
    /\ req \in [Requests -> RequestShapes]
    /\ decision \in [Requests -> Decisions]
    /\ dialed \in [Requests -> BOOLEAN]
    /\ upstream \in [Requests -> Responses \cup {NoResp}]
    /\ rtErr \in [Requests -> RoundTripErrors]
    /\ delivered \in [Requests -> Responses \cup {NoResp}]
    /\ logs \in [Requests -> Nat]
    /\ logAllow \in [Requests -> BOOLEAN]
    /\ AllowMissingRole \in BOOLEAN

-----------------------------------------------------------------------------
(* RoleFromRequest with the header strategy: exactly one                   *)
(* X-Smokescreen-Role value is the role, anything else a MissingRoleError. *)
RoleOK(hdr) == Len(hdr) = 1

(* The ACL rule that applies to a role: its own entry, or else the ACL's   *)
(* default rule, which the integration test relies on: an unknown role is *)
(* allowed to localhost and denied 127.0.0.1 (noRole/unknownRole cases).  *)
Rule(role) == IF role \in DOMAIN Policy THEN Policy[role] ELSE DefaultRule

(* Variant: a role in report mode is denied like one in enforce mode.     *)
DecideReportDenies(role, host) ==
    IF Rule(role) = NoRule
    THEN IF AllowMissingRole THEN [allow |-> TRUE, reason |-> "open"]
         ELSE [allow |-> FALSE, reason |-> "unknown_role"]
    ELSE CASE Rule(role).mode = "open"      -> [allow |-> TRUE, reason |-> "open"]
           [] host \in Rule(role).hosts     -> [allow |-> TRUE, reason |-> "allowed"]
           [] OTHER                         -> [allow |-> FALSE, reason |-> "acl_deny"]

(* The ACL decision for a role and the requested host: with no rule for   *)
(* the role, allow_missing_role synthesises an open one (spec 4.3 step 1); *)
(* otherwise open mode allows, a listed host allows, report mode allows   *)
(* with a would-deny, and enforce mode denies.                             *)
Decide(role, host) ==
    IF Rule(role) = NoRule
    THEN IF AllowMissingRole THEN [allow |-> TRUE, reason |-> "open"]
         ELSE [allow |-> FALSE, reason |-> "unknown_role"]
    ELSE CASE Rule(role).mode = "open"      -> [allow |-> TRUE, reason |-> "open"]
           [] host \in Rule(role).hosts     -> [allow |-> TRUE, reason |-> "allowed"]
           [] Rule(role).mode = "report"    -> [allow |-> TRUE, reason |-> "would_deny"]
           [] OTHER                         -> [allow |-> FALSE, reason |-> "acl_deny"]

(* The canned denial response smokescreen builds.                          *)
Reject(status) == [status |-> status, errHdr |-> FALSE, body |-> "reject"]

(* The response with X-Smokescreen-Error deleted.                          *)
StripErrorHeader(resp) ==
    [status |-> resp.status, errHdr |-> FALSE, body |-> resp.body]

(* Variant: a failed round trip is rejected with 502, as for CONNECT.    *)
FilterResponseBadGateway(resp, err) ==
    IF resp /= NoResp
    THEN [resp |-> StripErrorHeader(resp), log |-> 1]
    ELSE IF err /= "none"
         THEN [resp |-> Reject(502), log |-> 0]
         ELSE [resp |-> NoResp, log |-> 0]

(* Variant: the record is emitted on the call without a response as well. *)
FilterResponseLogsAlways(resp, err) ==
    IF resp /= NoResp
    THEN [resp |-> StripErrorHeader(resp), log |-> 1]
    ELSE IF err /= "none"
         THEN [resp |-> Reject(503), log |-> 1]
         ELSE [resp |-> NoResp, log |-> 0]

(* smokescreen's response handler, the one handler of filterResponse: it   *)
(* strips X-Smokescreen-Error from a response and emits the canonical      *)
(* decision record; called with no response after a failed round trip it  *)
(* returns a 503 rejection and logs nothing, because ServeHTTP calls it a  *)
(* second time with that rejection.                                        *)
FilterResponse(resp, err) ==
    IF resp /= NoResp
    THEN [resp |-> StripErrorHeader(resp), log |-> 1]
    ELSE IF err /= "none"
         THEN [resp |-> Reject(503), log |-> 0]
         ELSE [resp |-> NoResp, log |-> 0]

-----------------------------------------------------------------------------
Init ==
    /\ pc = [r \in Requests |-> "idle"]
    /\ req = [r \in Requests |-> [abs |-> TRUE, target |-> CHOOSE h \in Hosts : TRUE,
                                  roleHdr |-> <<>>]]
    /\ decision = [r \in Requests |-> [allow |-> FALSE, reason |-> "missing_role"]]
    /\ dialed = [r \in Requests |-> FALSE]
    /\ upstream = [r \in Requests |-> NoResp]
    /\ rtErr = [r \in Requests |-> "none"]
    /\ delivered = [r \in Requests |-> NoResp]
    /\ logs = [r \in Requests |-> 0]
    /\ logAllow = [r \in Requests |-> FALSE]
    /\ AllowMissingRole \in BOOLEAN

(* The server reads the next request of client connection r (the first,  *)
(* one after an answer, or one on a new connection after a dropped one)   *)
(* and hands it to a fresh ServeHTTP goroutine with a fresh context.      *)
Receive(r) ==
    /\ pc[r] \in {"idle", "answered", "aborted"}
    /\ \E q \in RequestShapes : req' = [req EXCEPT ![r] = q]
    /\ pc' = [pc EXCEPT ![r] = "received"]
    /\ decision' = [decision EXCEPT ![r] = [allow |-> FALSE, reason |-> "missing_role"]]
    /\ dialed' = [dialed EXCEPT ![r] = FALSE]
    /\ upstream' = [upstream EXCEPT ![r] = NoResp]
    /\ rtErr' = [rtErr EXCEPT ![r] = "none"]
    /\ delivered' = [delivered EXCEPT ![r] = NoResp]
    /\ logs' = [logs EXCEPT ![r] = 0]
    /\ logAllow' = [logAllow EXCEPT ![r] = FALSE]
    /\ UNCHANGED AllowMissingRole

(* ServeHTTP, up to filterRequest: a URL that is not absolute is rebuilt   *)
(* from the Host header.  Without a Host, http.Error(w, err.Error(), 500)  *)
(* dereferences the nil err: the goroutine panics and net/http drops the   *)
(* connection without a response.  An unparsable Host is answered 500.     *)
ServeHTTP(r) ==
    /\ pc[r] = "received"
    /\ \/ /\ req[r].abs \/ req[r].target \in Hosts
          /\ pc' = [pc EXCEPT ![r] = "filtering"]
          /\ UNCHANGED delivered
       \/ /\ ~req[r].abs /\ req[r].target = NoHost
          /\ pc' = [pc EXCEPT ![r] = "aborted"]
          /\ UNCHANGED delivered
       \/ /\ ~req[r].abs /\ req[r].target = BadHost
          /\ pc' = [pc EXCEPT ![r] = "answered"]
          /\ delivered' = [delivered EXCEPT ![r] =
                             [status |-> 500, errHdr |-> FALSE, body |-> "error"]]
    /\ UNCHANGED <<req, decision, dialed, upstream, rtErr, logs, logAllow, AllowMissingRole>>

(* filterRequest with smokescreen's request handler: extract the role,     *)
(* decide, and on a denial return a canned response (407 for a missing     *)
(* role, 503 otherwise) so that no round trip is made.                     *)
FilterRequest(r) ==
    /\ pc[r] = "filtering"
    /\ LET hdr == req[r].roleHdr
           d   == IF RoleOK(hdr) THEN Decide(hdr[1], req[r].target)
                  ELSE [allow |-> FALSE, reason |-> "missing_role"]
       IN  /\ decision' = [decision EXCEPT ![r] = d]
           /\ IF d.allow
              THEN /\ pc' = [pc EXCEPT ![r] = "roundtrip"]
                   /\ UNCHANGED upstream
              ELSE /\ pc' = [pc EXCEPT ![r] = "responding"]
                   /\ upstream' = [upstream EXCEPT ![r] =
                        Reject(IF RoleOK(hdr) THEN 503 ELSE 407)]
    /\ UNCHANGED <<req, dialed, rtErr, delivered, logs, logAllow, AllowMissingRole>>

(* Variant: the dialer refuses denied addresses only, not private ones.   *)
RoundTripDialsPrivate(r) ==
    /\ pc[r] = "roundtrip"
    /\ pc' = [pc EXCEPT ![r] = "responding"]
    /\ \/ /\ AddrClass[req[r].target] = "denied"
          /\ rtErr' = [rtErr EXCEPT ![r] = "denied"]
          /\ decision' = [decision EXCEPT ![r] =
                            [allow |-> FALSE, reason |-> "denied_address"]]
          /\ UNCHANGED <<dialed, upstream>>
       \/ /\ AddrClass[req[r].target] /= "denied"
          /\ dialed' = [dialed EXCEPT ![r] = TRUE]
          /\ \E s \in {200, 404}, forged \in BOOLEAN :
                upstream' = [upstream EXCEPT ![r] =
                   [status |-> s, errHdr |-> forged, body |-> "upstream"]]
          /\ UNCHANGED <<rtErr, decision>>
    /\ UNCHANGED <<req, delivered, logs, logAllow, AllowMissingRole>>

(* removeProxyHeaders and Tr.DetailedRoundTrip through smokescreen's       *)
(* dialer: an address classified denied or private is refused (and the     *)
(* decision becomes a denial); otherwise resolution or the dial may fail,  *)
(* or the upstream answers, possibly with a forged X-Smokescreen-Error.    *)
RoundTrip(r) ==
    /\ pc[r] = "roundtrip"
    /\ pc' = [pc EXCEPT ![r] = "responding"]
    /\ \/ /\ AddrClass[req[r].target] \in {"denied", "private"}
          /\ rtErr' = [rtErr EXCEPT ![r] = "denied"]
          /\ decision' = [decision EXCEPT ![r] =
                            [allow |-> FALSE, reason |-> "denied_address"]]
          /\ UNCHANGED <<dialed, upstream>>
       \/ /\ AddrClass[req[r].target] \in {"public", "allowed_exempt"}
          /\ \/ /\ \E e \in {"resolve", "dial"} : rtErr' = [rtErr EXCEPT ![r] = e]
                /\ UNCHANGED <<dialed, upstream>>
             \/ /\ dialed' = [dialed EXCEPT ![r] = TRUE]
                /\ \E s \in {200, 404}, forged \in BOOLEAN :
                      upstream' = [upstream EXCEPT ![r] =
                         [status |-> s, errHdr |-> forged, body |-> "upstream"]]
                /\ UNCHANGED rtErr
          /\ UNCHANGED decision
    /\ UNCHANGED <<req, delivered, logs, logAllow, AllowMissingRole>>

(* Variant: the client gets the response as it was before filterResponse. *)
RespondUnfiltered(r) ==
    /\ pc[r] = "responding"
    /\ pc' = [pc EXCEPT ![r] = "answered"]
    /\ LET first  == IF upstream[r] = NoResp
                     THEN FilterResponse(NoResp, rtErr[r])
                     ELSE [resp |-> upstream[r], log |-> 0]
           second == FilterResponse(first.resp, rtErr[r])
       IN  /\ delivered' = [delivered EXCEPT ![r] = first.resp]
           /\ logs' = [logs EXCEPT ![r] = @ + first.log + second.log]
           /\ logAllow' = [logAllow EXCEPT ![r] = decision[r].allow]
    /\ UNCHANGED <<req, decision, dialed, upstream, rtErr, AllowMissingRole>>

(* The rest of ServeHTTP.  After a failed round trip filterResponse is     *)
(* called with no response; if it returns none the client gets 500.  Then  *)
(* the response is filtered (again, after a failure) and written.          *)
Respond(r) ==
    /\ pc[r] = "responding"
    /\ pc' = [pc EXCEPT ![r] = "answered"]
    /\ LET first  == IF upstream[r] = NoResp
                     THEN FilterResponse(NoResp, rtErr[r])
                     ELSE [resp |-> upstream[r], log |-> 0]
           second == FilterResponse(first.resp, rtErr[r])
       IN  IF first.resp = NoResp
           THEN /\ delivered' = [delivered EXCEPT ![r] =
                     [status |-> 500, errHdr |-> FALSE, body |-> "error"]]
                /\ logs' = [logs EXCEPT ![r] = @ + first.log]
                /\ UNCHANGED logAllow
           ELSE /\ delivered' = [delivered EXCEPT ![r] = second.resp]
                /\ logs' = [logs EXCEPT ![r] = @ + first.log + second.log]
                /\ logAllow' = [logAllow EXCEPT ![r] = decision[r].allow]
    /\ UNCHANGED <<req, decision, dialed, upstream, rtErr, AllowMissingRole>>

Next ==
    \E r \in Requests :
        \/ Receive(r)
        \/ ServeHTTP(r)
        \/ FilterRequest(r)
        \/ RoundTrip(r)
        \/ Respond(r)

Spec == Init /\ [][Next]_vars

-----------------------------------------------------------------------------
(* What the egress policy and the address rules allow for a request: one  *)
(* role header naming a role whose rule (its own, or the ACL's default)   *)
(* is not in enforce mode or lists the target (conformResult's            *)
(* expectation), or a role with no rule at all when missing roles are     *)
(* allowed; and an address that is public or explicitly allowed.          *)
PolicyAllows(q) ==
    /\ RoleOK(q.roleHdr)
    /\ LET rule == Rule(q.roleHdr[1])
       IN  IF rule = NoRule
           THEN AllowMissingRole
           ELSE rule.mode /= "enforce" \/ q.target \in rule.hosts
Dialable(h) == AddrClass[h] \in {"public", "allowed_exempt"}

(* A request whose target passed URL normalisation gets exactly one        *)
(* canonical decision record, even on the failed-round-trip path where     *)
(* ServeHTTP runs the response handler twice.                              *)
ExactlyOneDecision ==
    \A r \in Requests :
        /\ logs[r] <= 1
        /\ pc[r] = "answered" /\ delivered[r].body /= "error" => logs[r] = 1

(* No upstream connection is opened unless the ACL and the address rules   *)
(* both allow the request.                                                 *)
NoEgressWithoutAllow ==
    \A r \in Requests :
        dialed[r] => PolicyAllows(req[r]) /\ Dialable(req[r].target)

(* A request whose goroutine is in the round trip was allowed by the       *)
(* policy: the request handler only lets an allowed request through.      *)
RoundTripAllowed ==
    \A r \in Requests : pc[r] = "roundtrip" => PolicyAllows(req[r])

(* The inductive invariant behind NoEgressWithoutAllow: a request reaches  *)
(* the round trip only when the ACL allowed it, which the request handler  *)
(* decided from the same request.                                          *)
EgressInv ==
    /\ TypeOK
    /\ RoundTripAllowed
    /\ NoEgressWithoutAllow

(* The canonical record's allow field is the policy's verdict, and it      *)
(* agrees with what the client got: the upstream's response exactly when  *)
(* the verdict allows and the round trip succeeded; otherwise a rejection, *)
(* 407 or 503, and a 503 when an allowed request's resolution or dial     *)
(* failed (spec 4.6 step 5), although the record then says allow.         *)
OutcomeMatchesPolicy ==
    \A r \in Requests :
        (pc[r] = "answered" /\ delivered[r].body /= "error") =>
            /\ logAllow[r] = (PolicyAllows(req[r]) /\ Dialable(req[r].target))
            /\ (delivered[r].body = "upstream") = (logAllow[r] /\ rtErr[r] = "none")
            /\ delivered[r].body /= "upstream" => delivered[r].status \in {407, 503}
            /\ rtErr[r] \in {"resolve", "dial"} => delivered[r].status = 503

(* A client never receives an X-Smokescreen-Error header forged by an      *)
(* upstream.                                                               *)
NoForgedErrorHeader ==
    \A r \in Requests : pc[r] = "answered" => ~delivered[r].errHdr

(* A step that opens an upstream connection is taken by a goroutine whose *)
(* smokescreenContext.decision allows the request, before and after the    *)
(* step, for an address the dialer accepts: the dialer never consults the  *)
(* decision, only ServeHTTP's order of filterRequest and the round trip   *)
(* keeps a denied request from dialing.                                    *)
DialStepAllowed ==
    [][\A r \in Requests :
          ~dialed[r] /\ dialed'[r] =>
              decision[r].allow /\ decision'[r].allow /\ Dialable(req[r].target)]_vars

(* What a request's goroutine holds when it is about to respond: a canned  *)
(* 407 (no role) or 503 for a request the ACL denied; for a request the   *)
(* ACL allowed, nothing after the dialer refused a private or denied      *)
(* address, nothing after a failed resolution or dial of a dialable one,  *)
(* or the response of an upstream that was dialed.                        *)
RespondingShape(r) ==
    \/ /\ ~decision[r].allow /\ ~PolicyAllows(req[r]) /\ rtErr[r] = "none"
       /\ upstream[r] = Reject(IF RoleOK(req[r].roleHdr) THEN 503 ELSE 407)
    \/ /\ ~decision[r].allow /\ PolicyAllows(req[r]) /\ ~Dialable(req[r].target)
       /\ rtErr[r] = "denied" /\ upstream[r] = NoResp
    \/ /\ decision[r].allow /\ PolicyAllows(req[r]) /\ Dialable(req[r].target)
       /\ rtErr[r] \in {"resolve", "dial"} /\ upstream[r] = NoResp
    \/ /\ decision[r].allow /\ PolicyAllows(req[r]) /\ Dialable(req[r].target)
       /\ rtErr[r] = "none" /\ dialed[r]
       /\ upstream[r] \in Responses /\ upstream[r].body = "upstream"
       /\ upstream[r].status \in {200, 404}

(* The state of one request's goroutine at each point of ServeHTTP: no     *)
(* record and no response before it answers, no round trip before the     *)
(* request handler lets it through, only a normalised target past        *)
(* ServeHTTP, and one of the shapes above before it responds.             *)
RequestStateOK(r) ==
    /\ pc[r] /= "answered" => logs[r] = 0 /\ delivered[r] = NoResp
    /\ pc[r] \in {"filtering", "roundtrip", "responding"} =>
           req[r].abs \/ req[r].target \in Hosts
    /\ pc[r] \in {"idle", "received", "filtering", "roundtrip"} =>
           upstream[r] = NoResp /\ rtErr[r] = "none" /\ ~dialed[r]
    /\ pc[r] = "roundtrip" => decision[r].allow
    /\ pc[r] = "responding" => RespondingShape(r)

(* The inductive invariant behind ExactlyOneDecision, OutcomeMatchesPolicy *)
(* and NoForgedErrorHeader.                                                *)
ResponseInv ==
    /\ EgressInv
    /\ \A r \in Requests : RequestStateOK(r)
    /\ ExactlyOneDecision
    /\ OutcomeMatchesPolicy
    /\ NoForgedErrorHeader

(* A request without a usable target (no Host, or one url.Parse rejects)   *)
(* is answered 400 with a canonical decision record (spec: malformed       *)
(* client request; every non-internal error yields a well-formed response *)
(* and exactly one record).                                                *)
MalformedAnswered400 ==
    \A r \in Requests :
        (pc[r] \in {"answered", "aborted"} /\ ~req[r].abs
                                            /\ req[r].target \notin Hosts) =>
            /\ pc[r] = "answered"
            /\ delivered[r].status = 400
            /\ logs[r] = 1

-----------------------------------------------------------------------------
(* The refinement mapping onto the per-request promise: a request is open  *)
(* from ServeHTTP to the response and done once answered or aborted; the   *)
(* request, the delivered response, the records, their allow field and the *)
(* dial are the abstract ones.                                             *)
Phase == [r \in Requests |->
            IF pc[r] = "idle" THEN "idle"
            ELSE IF pc[r] \in {"answered", "aborted"} THEN "done"
            ELSE "open"]
Contract == INSTANCE ProxyPolicy
    WITH phase <- Phase,
         areq <- req, reply <- delivered, records <- logs,
         recAllow <- logAllow, egress <- dialed,
         allowMissing <- AllowMissingRole,
         Shapes <- RequestShapes, UpstreamStatus <- {200, 404}

(* ServeHTTP, the two handler chains and the round trip implement the      *)
(* per-request promise: every request ends in one reply and one record,    *)
(* written in the same step, that the policy and the dial outcome allow,   *)
(* and the upstream is dialed only when both the ACL and the address allow *)
(* it, on every interleaving of the requests.                              *)
ImplementsPolicy == Contract!Spec

=============================================================================
