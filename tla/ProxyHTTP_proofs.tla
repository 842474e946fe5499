--------------------------- MODULE ProxyHTTP_proofs ---------------------------
(***************************************************************************)
(* Proofs about the plain-HTTP path, for every set of concurrent requests, *)
(* roles, hosts, ACL, address classification and AllowMissingRole.         *)
(***************************************************************************)
EXTENDS ProxyHTTP, TLAPS

USE ConstAssumption

-----------------------------------------------------------------------------
(* The ACL's decision is a decision record, and it allows exactly what the *)
(* policy allows: Decide's cases (no rule, open, listed host, report) are  *)
(* the two disjuncts of PolicyAllows, because enforce is the only mode     *)
(* left, whether the rule is the role's own or the ACL's default.          *)
LEMMA DecideMatchesPolicy ==
    ASSUME NEW q \in RequestShapes, RoleOK(q.roleHdr)
    PROVE  /\ Decide(q.roleHdr[1], q.target) \in Decisions
           /\ Decide(q.roleHdr[1], q.target).allow = PolicyAllows(q)
<1>1. q.roleHdr \in [1..1 -> Roles]
  BY DEF RequestShapes, RoleHeaders, RoleOK
<1> DEFINE rule == Rule(q.roleHdr[1])
<1>2. CASE rule = NoRule
  BY <1>2 DEF Decide, PolicyAllows, Decisions
<1>3. CASE rule /= NoRule
  <2>1. rule.mode \in Modes
    BY <1>3 DEF Rule
  <2>. QED
    BY <1>3, <2>1 DEF Decide, PolicyAllows, Decisions, Modes
<1>. QED
  BY <1>2, <1>3

(* smokescreen's response handler returns a response or none, and emits   *)
(* at most one record per call.                                            *)
LEMMA FilterResponseType ==
    ASSUME NEW resp \in Responses \cup {NoResp}, NEW err \in RoundTripErrors
    PROVE  /\ FilterResponse(resp, err).resp \in Responses \cup {NoResp}
           /\ FilterResponse(resp, err).log \in {0, 1}
<1>1. CASE resp \in Responses
  <2>1. resp /= NoResp
    BY <1>1 DEF Responses, NoResp
  <2>. QED
    <3>2. StripErrorHeader(resp) \in Responses
      BY <1>1 DEF StripErrorHeader, Responses
    <3>. QED
      BY <2>1, <3>2 DEF FilterResponse
<1>2. CASE resp = NoResp
  BY <1>2 DEF FilterResponse, Reject, Responses
<1>. QED
  BY <1>1, <1>2

-----------------------------------------------------------------------------
(* The initial state is well typed.                                       *)
LEMMA TypeInit == Init => TypeOK
<1> SUFFICES ASSUME Init PROVE TypeOK
  OBVIOUS
<1>1. [abs |-> TRUE, target |-> CHOOSE h \in Hosts : TRUE, roleHdr |-> <<>>]
        \in RequestShapes
  BY DEF RequestShapes, RoleHeaders
<1>. QED
  BY <1>1 DEF Init, TypeOK, PCs, Decisions, NoResp, RoundTripErrors

(* Every step, stuttering included, preserves the types.                   *)
LEMMA TypeStep == TypeOK /\ [Next]_vars => TypeOK'
<1> SUFFICES ASSUME TypeOK, [Next]_vars PROVE TypeOK'
  OBVIOUS
<1>1. ASSUME NEW r \in Requests, Receive(r) PROVE TypeOK'
  BY <1>1 DEF Receive, TypeOK, PCs, Decisions, NoResp, RoundTripErrors
<1>2. ASSUME NEW r \in Requests, ServeHTTP(r) PROVE TypeOK'
  <2>1. [status |-> 500, errHdr |-> FALSE, body |-> "error"] \in Responses
    BY DEF Responses
  <2>2. pc' \in [Requests -> PCs]
    BY <1>2 DEF ServeHTTP, TypeOK, PCs
  <2>3. delivered' \in [Requests -> Responses \cup {NoResp}]
    <3>1. \/ delivered' = delivered
          \/ delivered' = [delivered EXCEPT ![r] =
                             [status |-> 500, errHdr |-> FALSE, body |-> "error"]]
      BY <1>2 DEF ServeHTTP
    <3>2. CASE delivered' = delivered
      BY <3>2 DEF TypeOK
    <3>3. CASE delivered' = [delivered EXCEPT ![r] =
                               [status |-> 500, errHdr |-> FALSE, body |-> "error"]]
      BY <2>1, <3>3 DEF TypeOK
    <3>. QED
      BY <3>1, <3>2, <3>3
  <2>. QED
    BY <1>2, <2>2, <2>3 DEF ServeHTTP, TypeOK
<1>3. ASSUME NEW r \in Requests, FilterRequest(r) PROVE TypeOK'
  <2> DEFINE hdr == req[r].roleHdr
             d   == IF RoleOK(hdr) THEN Decide(hdr[1], req[r].target)
                    ELSE [allow |-> FALSE, reason |-> "missing_role"]
  <2>1. d \in Decisions
    BY DecideMatchesPolicy DEF TypeOK, Decisions
  <2>2. Reject(503) \in Responses /\ Reject(407) \in Responses
    BY DEF Reject, Responses
  <2>. QED
    BY <1>3, <2>1, <2>2 DEF FilterRequest, TypeOK, PCs
<1>4. ASSUME NEW r \in Requests, RoundTrip(r) PROVE TypeOK'
  <2>1. pc' \in [Requests -> PCs]
    BY <1>4 DEF RoundTrip, TypeOK, PCs
  <2>2. decision' \in [Requests -> Decisions]
    <3>1. \/ decision' = decision
          \/ decision' = [decision EXCEPT ![r] =
                            [allow |-> FALSE, reason |-> "denied_address"]]
      BY <1>4 DEF RoundTrip
    <3>0. [allow |-> FALSE, reason |-> "denied_address"] \in Decisions
      BY DEF Decisions
    <3>2. CASE decision' = decision
      BY <3>2 DEF TypeOK
    <3>3. CASE decision' = [decision EXCEPT ![r] =
                              [allow |-> FALSE, reason |-> "denied_address"]]
      BY <3>0, <3>3 DEF TypeOK
    <3>. QED
      BY <3>1, <3>2, <3>3
  <2>3. rtErr' \in [Requests -> RoundTripErrors]
    BY <1>4 DEF RoundTrip, TypeOK, RoundTripErrors
  <2>4. dialed' \in [Requests -> BOOLEAN]
    <3>1. dialed' = dialed \/ dialed' = [dialed EXCEPT ![r] = TRUE]
      BY <1>4 DEF RoundTrip
    <3>2. CASE dialed' = dialed
      BY <3>2 DEF TypeOK
    <3>3. CASE dialed' = [dialed EXCEPT ![r] = TRUE]
      BY <3>3 DEF TypeOK
    <3>. QED
      BY <3>1, <3>2, <3>3
  <2>5. \A s \in {200, 404}, forged \in BOOLEAN :
          [status |-> s, errHdr |-> forged, body |-> "upstream"] \in Responses
    BY DEF Responses
  <2>6. upstream' \in [Requests -> Responses \cup {NoResp}]
    BY <1>4, <2>5 DEF RoundTrip, TypeOK
  <2>. QED
    BY <1>4, <2>1, <2>2, <2>3, <2>4, <2>6 DEF RoundTrip, TypeOK
<1>5. ASSUME NEW r \in Requests, Respond(r) PROVE TypeOK'
  <2> DEFINE first  == IF upstream[r] = NoResp
                       THEN FilterResponse(NoResp, rtErr[r])
                       ELSE [resp |-> upstream[r], log |-> 0]
             second == FilterResponse(first.resp, rtErr[r])
  <2>1. first.resp \in Responses \cup {NoResp} /\ first.log \in {0, 1}
    BY FilterResponseType DEF TypeOK
  <2>2. second.resp \in Responses \cup {NoResp} /\ second.log \in {0, 1}
    BY <2>1, FilterResponseType DEF TypeOK
  <2>3. [status |-> 500, errHdr |-> FALSE, body |-> "error"] \in Responses
    BY DEF Responses
  <2>. QED
    <3>1. pc' \in [Requests -> PCs]
      BY <1>5 DEF Respond, TypeOK, PCs
    <3>2. delivered' \in [Requests -> Responses \cup {NoResp}]
      <4>1. CASE first.resp = NoResp
        <5>1. delivered' = [delivered EXCEPT ![r] =
                              [status |-> 500, errHdr |-> FALSE, body |-> "error"]]
          BY <1>5, <4>1 DEF Respond
        <5>. QED
          BY <2>3, <5>1 DEF TypeOK
      <4>2. CASE first.resp /= NoResp
        BY <1>5, <2>2, <4>2 DEF Respond, TypeOK
      <4>. QED
        BY <4>1, <4>2
    <3>3. logs' \in [Requests -> Nat]
      BY <1>5, <2>1, <2>2 DEF Respond, TypeOK
    <3>4. logAllow' \in [Requests -> BOOLEAN]
      BY <1>5 DEF Respond, TypeOK, Decisions
    <3>. QED
      BY <1>5, <3>1, <3>2, <3>3, <3>4 DEF Respond, TypeOK
<1>6. CASE UNCHANGED vars
  BY <1>6 DEF vars, TypeOK
<1>. QED
  BY <1>1, <1>2, <1>3, <1>4, <1>5, <1>6 DEF Next

(* Type correctness of the HTTP path: every request's program counter,    *)
(* request, decision, round-trip outcome, delivered response and record   *)
(* count keep their types.                                                 *)
THEOREM TypeCorrect == Spec => []TypeOK
BY TypeInit, TypeStep, PTL DEF Spec

-----------------------------------------------------------------------------
(* Every step keeps the round trip behind an allowing decision and every  *)
(* dial behind an allowing decision and a dialable address.                *)
LEMMA EgressStep ==
    TypeOK /\ RoundTripAllowed /\ NoEgressWithoutAllow /\ [Next]_vars
      => RoundTripAllowed' /\ NoEgressWithoutAllow'
<1> SUFFICES ASSUME TypeOK, RoundTripAllowed, NoEgressWithoutAllow,
                    [Next]_vars
             PROVE  RoundTripAllowed' /\ NoEgressWithoutAllow'
  OBVIOUS
<1>1. ASSUME NEW r \in Requests, Receive(r)
      PROVE  RoundTripAllowed' /\ NoEgressWithoutAllow'
  BY <1>1 DEF Receive, TypeOK, RoundTripAllowed, NoEgressWithoutAllow, PolicyAllows
<1>2. ASSUME NEW r \in Requests, ServeHTTP(r)
      PROVE  RoundTripAllowed' /\ NoEgressWithoutAllow'
  <2>1. pc'[r] /= "roundtrip"
    BY <1>2 DEF ServeHTTP, TypeOK
  <2>. QED
    BY <1>2, <2>1 DEF ServeHTTP, TypeOK, RoundTripAllowed,
                      NoEgressWithoutAllow, PolicyAllows
<1>3. ASSUME NEW r \in Requests, FilterRequest(r)
      PROVE  RoundTripAllowed' /\ NoEgressWithoutAllow'
  <2> DEFINE hdr == req[r].roleHdr
             d   == IF RoleOK(hdr) THEN Decide(hdr[1], req[r].target)
                    ELSE [allow |-> FALSE, reason |-> "missing_role"]
  <2>1. d.allow => PolicyAllows(req[r])
    BY DecideMatchesPolicy DEF TypeOK
  <2>2. pc'[r] = "roundtrip" => d.allow
    BY <1>3 DEF FilterRequest, TypeOK
  <2>. QED
    BY <1>3, <2>1, <2>2 DEF FilterRequest, TypeOK, RoundTripAllowed,
                            NoEgressWithoutAllow, PolicyAllows
<1>4. ASSUME NEW r \in Requests, RoundTrip(r)
      PROVE  RoundTripAllowed' /\ NoEgressWithoutAllow'
  <2>1. PolicyAllows(req[r])
    BY <1>4 DEF RoundTrip, RoundTripAllowed, PolicyAllows
  <2>2. dialed'[r] => Dialable(req[r].target)
    BY <1>4 DEF RoundTrip, TypeOK, Dialable, NoEgressWithoutAllow, PolicyAllows
  <2>3. NoEgressWithoutAllow'
    BY <1>4, <2>1, <2>2 DEF RoundTrip, TypeOK, NoEgressWithoutAllow, PolicyAllows
  <2>4. RoundTripAllowed'
    BY <1>4 DEF RoundTrip, TypeOK, RoundTripAllowed, PolicyAllows
  <2>. QED
    BY <2>3, <2>4
<1>5. ASSUME NEW r \in Requests, Respond(r)
      PROVE  RoundTripAllowed' /\ NoEgressWithoutAllow'
  BY <1>5 DEF Respond, TypeOK, RoundTripAllowed, NoEgressWithoutAllow, PolicyAllows
<1>6. CASE UNCHANGED vars
  BY <1>6 DEF vars, RoundTripAllowed, NoEgressWithoutAllow, PolicyAllows
<1>. QED
  BY <1>1, <1>2, <1>3, <1>4, <1>5, <1>6 DEF Next

(* The inductive invariant of the egress path holds in every reachable     *)
(* state, for every ACL, address classification and number of concurrent   *)
(* requests: a goroutine in the round trip holds a request the request     *)
(* handler's ACL allowed, and a dialed request is allowed and dialable.    *)
LEMMA EgressInvariant == Spec => []EgressInv
<1>1. Init => EgressInv
  BY TypeInit DEF Init, EgressInv, RoundTripAllowed, NoEgressWithoutAllow
<1>2. EgressInv /\ [Next]_vars => EgressInv'
  BY TypeStep, EgressStep DEF EgressInv
<1>. QED
  BY <1>1, <1>2, PTL DEF Spec

(* No upstream connection without permission: for every set of concurrent *)
(* requests, ACL, address classification and AllowMissingRole, the dialer *)
(* connects for a request only if the request handler's ACL decision and  *)
(* the address rules both allow it, on every interleaving of the requests' *)
(* goroutines.                                                             *)
THEOREM EgressNeedsAllow == Spec => []NoEgressWithoutAllow
<1>1. EgressInv => NoEgressWithoutAllow
  BY DEF EgressInv
<1>. QED
  BY EgressInvariant, <1>1, PTL

-----------------------------------------------------------------------------
(* The response path.  ResponseInv says, per request, what RequestStateOK  *)
(* says of its goroutine and what the three response properties say once  *)
(* it has answered; ReqOK(s) is that for request s alone.                  *)
OneRecord(s) ==
    /\ logs[s] <= 1
    /\ pc[s] = "answered" /\ delivered[s].body /= "error" => logs[s] = 1
Verdict(s) == PolicyAllows(req[s]) /\ Dialable(req[s].target)
OutcomeOK(s) ==
    (pc[s] = "answered" /\ delivered[s].body /= "error") =>
        /\ logAllow[s] = Verdict(s)
        /\ (delivered[s].body = "upstream") = (logAllow[s] /\ rtErr[s] = "none")
        /\ delivered[s].body /= "upstream" => delivered[s].status \in {407, 503}
        /\ rtErr[s] \in {"resolve", "dial"} => delivered[s].status = 503
NoForged(s) == pc[s] = "answered" => ~delivered[s].errHdr
ReqOK(s) == RequestStateOK(s) /\ OneRecord(s) /\ OutcomeOK(s) /\ NoForged(s)

LEMMA ResponseInvByRequest ==
    ResponseInv = (EgressInv /\ \A s \in Requests : ReqOK(s))
<1>1. ExactlyOneDecision = \A s \in Requests : OneRecord(s)
  BY DEF ExactlyOneDecision, OneRecord
<1>2. OutcomeMatchesPolicy = \A s \in Requests : OutcomeOK(s)
  BY DEF OutcomeMatchesPolicy, OutcomeOK, Verdict
<1>3. NoForgedErrorHeader = \A s \in Requests : NoForged(s)
  BY DEF NoForgedErrorHeader, NoForged
<1>. QED
  BY <1>1, <1>2, <1>3 DEF ResponseInv, ReqOK

(* A step that leaves request s's state alone keeps ReqOK(s).              *)
LEMMA Frame ==
    ASSUME NEW s, ReqOK(s),
           pc'[s] = pc[s], req'[s] = req[s], decision'[s] = decision[s],
           dialed'[s] = dialed[s], upstream'[s] = upstream[s],
           rtErr'[s] = rtErr[s], delivered'[s] = delivered[s],
           logs'[s] = logs[s], logAllow'[s] = logAllow[s],
           AllowMissingRole' = AllowMissingRole
    PROVE  ReqOK(s)'
BY DEF ReqOK, RequestStateOK, RespondingShape, OneRecord, OutcomeOK, NoForged,
       Verdict, PolicyAllows, Dialable

(* A request that has answered with X, logged once, keeps ReqOK.          *)
LEMMA AnsweredOK ==
    ASSUME NEW r, NEW X, NEW la,
           pc'[r] = "answered", logs'[r] = 1, delivered'[r] = X,
           logAllow'[r] = la, ~X.errHdr, X.body /= "error",
           la = Verdict(r)',
           (X.body = "upstream") = (la /\ rtErr'[r] = "none"),
           X.body /= "upstream" => X.status \in {407, 503},
           rtErr'[r] \in {"resolve", "dial"} => X.status = 503
    PROVE  ReqOK(r)'
BY DEF ReqOK, RequestStateOK, OneRecord, OutcomeOK, NoForged

(* The response handler on a response: the header stripped, one record.   *)
LEMMA FilterOnResponse ==
    ASSUME NEW resp \in Responses, NEW err
    PROVE  FilterResponse(resp, err) = [resp |-> StripErrorHeader(resp), log |-> 1]
<1>1. resp /= NoResp
  BY DEF Responses, NoResp
<1>. QED
  BY <1>1 DEF FilterResponse

(* The response handler on no response after a failed round trip: a 503   *)
(* rejection and no record.                                                *)
LEMMA FilterOnNone ==
    ASSUME NEW err \in RoundTripErrors \ {"none"}
    PROVE  FilterResponse(NoResp, err) = [resp |-> Reject(503), log |-> 0]
BY DEF FilterResponse

(* A canned rejection is a response without the error header.              *)
LEMMA RejectFacts ==
    ASSUME NEW st \in {407, 503}
    PROVE  /\ Reject(st) \in Responses
           /\ StripErrorHeader(Reject(st)) = Reject(st)
           /\ Reject(st).body = "reject" /\ Reject(st).status = st
           /\ ~Reject(st).errHdr
BY DEF Reject, Responses, StripErrorHeader

(* What holds of request r before every step it takes.                     *)
LEMMA OwnFacts ==
    ASSUME TypeOK, NEW r \in Requests, ReqOK(r)
    PROVE  /\ pc[r] /= "answered" => logs[r] = 0 /\ delivered[r] = NoResp
           /\ pc[r] \in {"filtering", "roundtrip", "responding"} =>
                  req[r].abs \/ req[r].target \in Hosts
           /\ pc[r] \in {"idle", "received", "filtering", "roundtrip"} =>
                  upstream[r] = NoResp /\ rtErr[r] = "none" /\ ~dialed[r]
           /\ pc[r] = "roundtrip" => decision[r].allow
           /\ pc[r] = "responding" => RespondingShape(r)
BY DEF ReqOK, RequestStateOK

(* Every step keeps what ReqOK says of the request that takes it and, by   *)
(* Frame, of every other request.                                           *)
LEMMA ResponseStep == ResponseInv /\ [Next]_vars => ResponseInv'
<1> SUFFICES ASSUME ResponseInv, [Next]_vars PROVE ResponseInv'
  OBVIOUS
<1>0. EgressInv'
  BY TypeStep, EgressStep DEF ResponseInv, EgressInv
<1>a. /\ TypeOK /\ RoundTripAllowed /\ NoEgressWithoutAllow
      /\ \A s \in Requests : ReqOK(s)
  BY ResponseInvByRequest DEF ResponseInv, EgressInv
<1>b. SUFFICES \A s \in Requests : ReqOK(s)'
  BY <1>0 DEF ResponseInv, ReqOK, OneRecord, OutcomeOK, NoForged, Verdict,
              ExactlyOneDecision, OutcomeMatchesPolicy, NoForgedErrorHeader
<1>1. ASSUME NEW r \in Requests, Receive(r) PROVE \A s \in Requests : ReqOK(s)'
  <2>1. ReqOK(r)'
    BY <1>1, <1>a DEF Receive, TypeOK, ReqOK, RequestStateOK, OneRecord,
                          OutcomeOK, NoForged
  <2>2. ASSUME NEW s \in Requests, s /= r PROVE ReqOK(s)'
    BY <1>1, <1>a, <2>2, Frame DEF Receive, TypeOK
  <2>. QED
    BY <2>1, <2>2
<1>2. ASSUME NEW r \in Requests, ServeHTTP(r) PROVE \A s \in Requests : ReqOK(s)'
  <2>0. /\ pc[r] = "received" /\ logs[r] = 0 /\ delivered[r] = NoResp
        /\ upstream[r] = NoResp /\ rtErr[r] = "none" /\ ~dialed[r]
    BY <1>2, <1>a, OwnFacts DEF ServeHTTP
  <2>1. ReqOK(r)'
    <3>1. CASE pc'[r] = "answered"
      BY <1>2, <1>a, <2>0, <3>1 DEF ServeHTTP, TypeOK, ReqOK, RequestStateOK,
                                  OneRecord, OutcomeOK, NoForged
    <3>2. CASE pc'[r] /= "answered"
      BY <1>2, <1>a, <2>0, <3>2 DEF ServeHTTP, TypeOK, ReqOK, RequestStateOK,
                                  OneRecord, OutcomeOK, NoForged
    <3>. QED
      BY <3>1, <3>2
  <2>2. ASSUME NEW s \in Requests, s /= r PROVE ReqOK(s)'
    BY <1>2, <1>a, <2>2, Frame DEF ServeHTTP, TypeOK
  <2>. QED
    BY <2>1, <2>2
<1>3. ASSUME NEW r \in Requests, FilterRequest(r)
      PROVE \A s \in Requests : ReqOK(s)'
  <2> DEFINE hdr == req[r].roleHdr
             d   == IF RoleOK(hdr) THEN Decide(hdr[1], req[r].target)
                    ELSE [allow |-> FALSE, reason |-> "missing_role"]
  <2>0. /\ pc[r] = "filtering" /\ logs[r] = 0 /\ delivered[r] = NoResp
        /\ upstream[r] = NoResp /\ rtErr[r] = "none" /\ ~dialed[r]
        /\ req[r].abs \/ req[r].target \in Hosts
    BY <1>3, <1>a, OwnFacts DEF FilterRequest
  <2>1. d.allow = PolicyAllows(req[r])
    <3>1. CASE RoleOK(hdr)
      <4>1. req[r] \in RequestShapes
        BY <1>a DEF TypeOK
      <4>. QED
        BY <3>1, <4>1, DecideMatchesPolicy
    <3>2. CASE ~RoleOK(hdr)
      BY <3>2 DEF PolicyAllows
    <3>. QED
      BY <3>1, <3>2
  <2>2. /\ decision'[r] = d
        /\ d.allow => pc'[r] = "roundtrip" /\ upstream'[r] = NoResp
        /\ ~d.allow => /\ pc'[r] = "responding"
                       /\ upstream'[r] = Reject(IF RoleOK(hdr) THEN 503 ELSE 407)
        /\ UNCHANGED <<req, dialed, rtErr, delivered, logs, logAllow,
                       AllowMissingRole>>
    BY <1>3, <1>a, <2>0 DEF FilterRequest, TypeOK
  <2>3. ReqOK(r)'
    <3>1. RequestStateOK(r)'
      <4>1. PolicyAllows(req[r])' = PolicyAllows(req[r])
        BY <2>2 DEF PolicyAllows
      <4>2. CASE d.allow
        BY <2>0, <2>2, <4>2 DEF RequestStateOK
      <4>3. CASE ~d.allow
        <5>1. ~decision'[r].allow
          BY <2>2, <4>3
        <5>2. ~PolicyAllows(req[r])'
          BY <2>1, <4>1, <4>3
        <5>3. /\ pc'[r] = "responding" /\ rtErr'[r] = "none"
              /\ upstream'[r] = Reject(IF RoleOK(hdr) THEN 503 ELSE 407)
              /\ logs'[r] = 0 /\ delivered'[r] = NoResp
          BY <2>0, <2>2, <4>3
        <5>. QED
          BY <2>0, <2>2, <5>1, <5>2, <5>3 DEF RequestStateOK, RespondingShape
      <4>. QED
        BY <4>2, <4>3
    <3>2. pc'[r] /= "answered"
      BY <2>2
    <3>. QED
      BY <2>0, <2>2, <3>1, <3>2 DEF ReqOK, OneRecord, OutcomeOK, NoForged
  <2>4. ASSUME NEW s \in Requests, s /= r PROVE ReqOK(s)'
    BY <1>3, <1>a, <2>4, Frame DEF FilterRequest, TypeOK
  <2>. QED
    BY <2>3, <2>4
<1>4. ASSUME NEW r \in Requests, RoundTrip(r) PROVE \A s \in Requests : ReqOK(s)'
  <2>0. /\ pc[r] = "roundtrip" /\ logs[r] = 0 /\ delivered[r] = NoResp
        /\ upstream[r] = NoResp /\ rtErr[r] = "none" /\ ~dialed[r]
        /\ decision[r].allow /\ PolicyAllows(req[r])
        /\ req[r].abs \/ req[r].target \in Hosts
    BY <1>4, <1>a, OwnFacts DEF RoundTrip, RoundTripAllowed
  <2>1. /\ pc'[r] = "responding"
        /\ UNCHANGED <<req, delivered, logs, logAllow, AllowMissingRole>>
    BY <1>4, <1>a DEF RoundTrip, TypeOK
  <2>2. RespondingShape(r)'
    <3>1. CASE AddrClass[req[r].target] \in {"denied", "private"}
      <4>1. /\ decision'[r].allow = FALSE /\ rtErr'[r] = "denied"
            /\ upstream'[r] = NoResp
        BY <1>4, <1>a, <2>0, <3>1 DEF RoundTrip, TypeOK
      <4>. QED
        BY <2>0, <2>1, <3>1, <4>1 DEF RespondingShape, Dialable, PolicyAllows
    <3>2. CASE AddrClass[req[r].target] \in {"public", "allowed_exempt"}
      <4>1. decision'[r] = decision[r]
        BY <1>4, <3>2 DEF RoundTrip, TypeOK
      <4>2. \/ rtErr'[r] \in {"resolve", "dial"} /\ upstream'[r] = NoResp
            \/ /\ rtErr'[r] = "none" /\ dialed'[r]
               /\ upstream'[r] \in Responses /\ upstream'[r].body = "upstream"
               /\ upstream'[r].status \in {200, 404}
        BY <1>4, <1>a, <2>0, <3>2 DEF RoundTrip, TypeOK, Responses
      <4>. QED
        BY <2>0, <2>1, <3>2, <4>1, <4>2 DEF RespondingShape, Dialable,
                                            PolicyAllows
    <3>. QED
      BY <1>4, <3>1, <3>2 DEF RoundTrip
  <2>3. ReqOK(r)'
    BY <2>0, <2>1, <2>2 DEF ReqOK, RequestStateOK, OneRecord, OutcomeOK,
                           NoForged
  <2>4. ASSUME NEW s \in Requests, s /= r PROVE ReqOK(s)'
    BY <1>4, <1>a, <2>4, Frame DEF RoundTrip, TypeOK
  <2>. QED
    BY <2>3, <2>4
<1>5. ASSUME NEW r \in Requests, Respond(r) PROVE \A s \in Requests : ReqOK(s)'
  <2> DEFINE first  == IF upstream[r] = NoResp
                       THEN FilterResponse(NoResp, rtErr[r])
                       ELSE [resp |-> upstream[r], log |-> 0]
             second == FilterResponse(first.resp, rtErr[r])
  <2>0. /\ pc[r] = "responding" /\ logs[r] = 0 /\ RespondingShape(r)
    BY <1>5, <1>a, OwnFacts DEF Respond
  <2>1. /\ pc'[r] = "answered"
        /\ UNCHANGED <<req, decision, dialed, upstream, rtErr, AllowMissingRole>>
        /\ first.resp /= NoResp =>
              /\ delivered'[r] = second.resp
              /\ logs'[r] = logs[r] + first.log + second.log
              /\ logAllow'[r] = decision[r].allow
    BY <1>5, <1>a DEF Respond, TypeOK
  <2>2. /\ first.resp \in Responses /\ ~first.resp.errHdr /\ first.log \in {0, 1}
        => /\ delivered'[r] = first.resp
           /\ logs'[r] = first.log + 1
           /\ logAllow'[r] = decision[r].allow
    <3> SUFFICES ASSUME first.resp \in Responses, ~first.resp.errHdr,
                        first.log \in {0, 1}
                 PROVE  /\ delivered'[r] = first.resp
                        /\ logs'[r] = first.log + 1
                        /\ logAllow'[r] = decision[r].allow
      OBVIOUS
    <3>1. first.resp /= NoResp
      BY DEF Responses, NoResp
    <3>2. second = [resp |-> StripErrorHeader(first.resp), log |-> 1]
      BY FilterOnResponse
    <3>3. StripErrorHeader(first.resp) = first.resp
      BY DEF Responses, StripErrorHeader
    <3>4. second.resp = first.resp /\ second.log = 1
      BY <3>2, <3>3
    <3>5. /\ delivered'[r] = second.resp
          /\ logs'[r] = logs[r] + first.log + second.log
          /\ logAllow'[r] = decision[r].allow
      BY <2>1, <3>1, Zenon
    <3>. QED
      BY <2>0, <3>4, <3>5
  <2>3. ReqOK(r)'
    <3>0. Verdict(r)' = Verdict(r)
      <4>1. PolicyAllows(req[r])' = PolicyAllows(req[r])
        BY <2>1 DEF PolicyAllows
      <4>2. Dialable(req[r].target)' = Dialable(req[r].target)
        BY <2>1 DEF Dialable
      <4>. QED
        BY <4>1, <4>2 DEF Verdict
    <3>a. pc'[r] = "answered" /\ rtErr'[r] = rtErr[r]
      BY <2>1
    <3>1. CASE /\ ~decision[r].allow /\ ~PolicyAllows(req[r])
               /\ rtErr[r] = "none"
               /\ upstream[r] = Reject(IF RoleOK(req[r].roleHdr) THEN 503 ELSE 407)
      <4>1. PICK st \in {407, 503} : upstream[r] = Reject(st)
        BY <3>1
      <4>2. /\ Reject(st) \in Responses /\ ~Reject(st).errHdr
            /\ Reject(st).body = "reject" /\ Reject(st).status = st
        BY <4>1, RejectFacts
      <4>3. first = [resp |-> Reject(st), log |-> 0]
        <5>1. upstream[r] /= NoResp
          BY <4>1 DEF Reject, NoResp
        <5>. QED
          BY <4>1, <5>1
      <4>4. /\ delivered'[r] = Reject(st) /\ logs'[r] = 1
            /\ logAllow'[r] = FALSE
        BY <2>2, <3>1, <4>2, <4>3
      <4>5. ~Verdict(r)'
        <5>1. ~Verdict(r)
          BY <3>1 DEF Verdict
        <5>. QED
          BY <3>0, <5>1
      <4>6. /\ FALSE = Verdict(r)'
            /\ (Reject(st).body = "upstream") = (FALSE /\ rtErr'[r] = "none")
            /\ Reject(st).body /= "upstream" => Reject(st).status \in {407, 503}
            /\ rtErr'[r] \in {"resolve", "dial"} => Reject(st).status = 503
        BY <3>1, <3>a, <4>1, <4>2, <4>5
      <4>7. Reject(st).body /= "error"
        BY <4>2
      <4>. QED
        BY <3>a, <4>2, <4>4, <4>6, <4>7, AnsweredOK
    <3>2. CASE /\ ~decision[r].allow /\ ~Dialable(req[r].target)
               /\ rtErr[r] = "denied" /\ upstream[r] = NoResp
      <4>1. first = [resp |-> Reject(503), log |-> 0]
        BY <3>2, FilterOnNone DEF RoundTripErrors
      <4>2. /\ Reject(503) \in Responses /\ ~Reject(503).errHdr
            /\ Reject(503).body = "reject" /\ Reject(503).status = 503
        BY RejectFacts
      <4>3. /\ delivered'[r] = Reject(503) /\ logs'[r] = 1
            /\ logAllow'[r] = FALSE
        BY <2>2, <3>2, <4>1, <4>2
      <4>4. ~Verdict(r)'
        <5>1. ~Verdict(r)
          BY <3>2 DEF Verdict
        <5>. QED
          BY <3>0, <5>1
      <4>5. RequestStateOK(r)' /\ OneRecord(r)' /\ NoForged(r)'
        BY <3>a, <4>2, <4>3 DEF RequestStateOK, OneRecord, NoForged
      <4>6. OutcomeOK(r)'
        <5>1. /\ delivered'[r].body /= "error"
              /\ delivered'[r].body /= "upstream"
              /\ delivered'[r].status \in {407, 503}
          BY <4>2, <4>3
        <5>2. rtErr'[r] = "denied"
          BY <3>a, <3>2
        <5>. QED
          BY <4>3, <4>4, <5>1, <5>2 DEF OutcomeOK, Verdict
      <4>. QED
        BY <4>5, <4>6 DEF ReqOK
    <3>3. CASE /\ decision[r].allow /\ PolicyAllows(req[r])
               /\ Dialable(req[r].target)
               /\ rtErr[r] \in {"resolve", "dial"} /\ upstream[r] = NoResp
      <4>1. first = [resp |-> Reject(503), log |-> 0]
        BY <3>3, FilterOnNone DEF RoundTripErrors
      <4>2. /\ Reject(503) \in Responses /\ ~Reject(503).errHdr
            /\ Reject(503).body = "reject" /\ Reject(503).status = 503
        BY RejectFacts
      <4>3. /\ delivered'[r] = Reject(503) /\ logs'[r] = 1
            /\ logAllow'[r] = TRUE
        <5>1. /\ delivered'[r] = Reject(503) /\ logs'[r] = 1
              /\ logAllow'[r] = decision[r].allow
          BY <2>2, <4>1, <4>2
        <5>. QED
          BY <3>3, <5>1
      <4>4. Verdict(r)'
        <5>1. Verdict(r)
          BY <3>3 DEF Verdict
        <5>. QED
          BY <3>0, <5>1
      <4>5. /\ rtErr'[r] /= "none"
            /\ rtErr'[r] \in {"resolve", "dial"}
        BY <3>a, <3>3
      <4>6. /\ TRUE = Verdict(r)'
            /\ (Reject(503).body = "upstream") = (TRUE /\ rtErr'[r] = "none")
            /\ Reject(503).body /= "upstream" => Reject(503).status \in {407, 503}
            /\ rtErr'[r] \in {"resolve", "dial"} => Reject(503).status = 503
        BY <4>2, <4>4, <4>5
      <4>7. RequestStateOK(r)' /\ OneRecord(r)' /\ NoForged(r)'
        BY <3>a, <4>2, <4>3 DEF RequestStateOK, OneRecord, NoForged
      <4>8. OutcomeOK(r)'
        <5>1. /\ delivered'[r].body = "reject" /\ delivered'[r].status = 503
              /\ logAllow'[r] /\ Verdict(r)'
              /\ rtErr'[r] \in {"resolve", "dial"}
          BY <4>2, <4>3, <4>4, <4>5
        <5>. QED
          BY <5>1 DEF OutcomeOK
      <4>. QED
        BY <4>7, <4>8 DEF ReqOK
    <3>4. CASE /\ decision[r].allow /\ PolicyAllows(req[r])
               /\ Dialable(req[r].target) /\ rtErr[r] = "none"
               /\ upstream[r] \in Responses /\ upstream[r].body = "upstream"
      <4> DEFINE X == StripErrorHeader(upstream[r])
      <4>0. upstream[r] /= NoResp
        BY <3>4 DEF Responses, NoResp
      <4>1. first = [resp |-> upstream[r], log |-> 0]
        BY <4>0
      <4>2. second = [resp |-> X, log |-> 1]
        BY <3>4, <4>1, FilterOnResponse
      <4>3. /\ ~X.errHdr /\ X.body = "upstream"
        BY <3>4 DEF StripErrorHeader
      <4>4. /\ delivered'[r] = X /\ logs'[r] = 1 /\ logAllow'[r] = TRUE
        <5>1. first.resp /= NoResp
          BY <4>0, <4>1
        <5>2. delivered'[r] = second.resp /\ logAllow'[r] = decision[r].allow
          BY <2>1, <5>1, Zenon
        <5>3. logs'[r] = logs[r] + first.log + second.log
          BY <2>1, <5>1, Zenon
        <5>4. logs'[r] = 1
          BY <2>0, <4>1, <4>2, <5>3
        <5>. QED
          BY <3>4, <4>2, <5>2, <5>4
      <4>5. Verdict(r)'
        <5>1. Verdict(r)
          BY <3>4 DEF Verdict
        <5>. QED
          BY <3>0, <5>1
      <4>6. rtErr'[r] = "none"
        BY <3>a, <3>4
      <4>. QED
        BY <3>a, <4>3, <4>4, <4>5, <4>6, AnsweredOK
    <3>. QED
      BY <2>0, <3>1, <3>2, <3>3, <3>4 DEF RespondingShape
  <2>4. ASSUME NEW s \in Requests, s /= r PROVE ReqOK(s)'
    BY <1>5, <1>a, <2>4, Frame DEF Respond, TypeOK
  <2>. QED
    BY <2>3, <2>4
<1>6. CASE UNCHANGED vars
  <2>1. ASSUME NEW s \in Requests PROVE ReqOK(s)'
    BY <1>6, <1>a, Frame DEF vars
  <2>. QED
    BY <2>1
<1>. QED
  BY <1>1, <1>2, <1>3, <1>4, <1>5, <1>6 DEF Next

(* Initially every request is idle, with no record and no response.      *)
LEMMA ResponseInit == Init => ResponseInv
<1> SUFFICES ASSUME Init PROVE ResponseInv
  OBVIOUS
<1>1. EgressInv
  BY TypeInit DEF Init, EgressInv, RoundTripAllowed, NoEgressWithoutAllow
<1>2. ASSUME NEW s \in Requests PROVE ReqOK(s)
  BY DEF Init, ReqOK, RequestStateOK, OneRecord, OutcomeOK, NoForged
<1>. QED
  BY <1>1, <1>2, ResponseInvByRequest

(* ResponseInv holds in every state, for every set of requests, roles,     *)
(* hosts, ACL, address classification and either AllowMissingRole.       *)
LEMMA ResponseInvariant == Spec => []ResponseInv
BY ResponseInit, ResponseStep, PTL DEF Spec

(* One canonical decision record per request: ServeHTTP calls the response *)
(* handler twice after a failed round trip, yet no request is logged      *)
(* twice, and every request answered with more than an internal error is  *)
(* logged once.                                                            *)
THEOREM OneRecordPerRequest == Spec => []ExactlyOneDecision
BY ResponseInvariant, PTL DEF ResponseInv

(* The record's allow field is the ACL and address policy's verdict, and   *)
(* the client gets the upstream's response exactly when it is allowed, a  *)
(* 407 or 503 rejection otherwise, on every interleaving of the requests. *)
THEOREM OutcomeAsPolicy == Spec => []OutcomeMatchesPolicy
BY ResponseInvariant, PTL DEF ResponseInv

(* No client ever receives an X-Smokescreen-Error header that an upstream  *)
(* forged: the response handler strips it on every path that delivers.    *)
THEOREM NoForgedHeader == Spec => []NoForgedErrorHeader
BY ResponseInvariant, PTL DEF ResponseInv


-----------------------------------------------------------------------------
(* Only the round trip opens a connection, and a goroutine in the round   *)
(* trip holds an allowing decision (RequestStateOK), which the dial        *)
(* branch leaves as it is.                                                 *)
LEMMA DialStep ==
    ResponseInv /\ [Next]_vars =>
        \A r \in Requests :
            ~dialed[r] /\ dialed'[r] =>
                decision[r].allow /\ decision'[r].allow /\ Dialable(req[r].target)
<1> SUFFICES ASSUME ResponseInv, [Next]_vars, NEW r \in Requests,
                    ~dialed[r], dialed'[r]
             PROVE  decision[r].allow /\ decision'[r].allow /\ Dialable(req[r].target)
  OBVIOUS
<1>0. TypeOK
  BY DEF ResponseInv, EgressInv
<1>1. ASSUME NEW s \in Requests, RoundTrip(s) PROVE FALSE \/ s = r
  BY <1>0, <1>1 DEF RoundTrip, TypeOK
<1>2. CASE RoundTrip(r)
  <2>1. pc[r] = "roundtrip" => decision[r].allow
    BY ResponseInvByRequest, OwnFacts DEF ResponseInv, EgressInv
  <2>2. /\ pc[r] = "roundtrip"
        /\ AddrClass[req[r].target] \in {"public", "allowed_exempt"}
        /\ decision' = decision
    BY <1>0, <1>2 DEF RoundTrip, TypeOK
  <2>. QED
    BY <2>1, <2>2 DEF Dialable
<1>3. ~\E s \in Requests : \/ Receive(s) \/ ServeHTTP(s) \/ FilterRequest(s)
                            \/ Respond(s)
  BY <1>0 DEF Receive, ServeHTTP, FilterRequest, Respond, TypeOK
<1>4. ~UNCHANGED vars
  BY DEF vars
<1>. QED
  BY <1>1, <1>2, <1>3, <1>4 DEF Next

(* Every step that opens an upstream connection is taken under an         *)
(* allowing smokescreenContext.decision, for an address the dialer         *)
(* accepts, for every ACL and number of concurrent requests: the dialer    *)
(* never reads the decision, ServeHTTP's control flow alone ensures it.   *)
THEOREM DialOnlyWhenAllowed == Spec => DialStepAllowed
BY ResponseInvariant, DialStep, PTL DEF Spec, DialStepAllowed

=============================================================================
