-------------------------- MODULE ProxyHTTP_refines --------------------------
(***************************************************************************)
(* ServeHTTP, the handler chains and the round trip of ProxyHTTP implement *)
(* the per-request promise ProxyPolicy under the mapping Contract: Phase   *)
(* folds the goroutine's program counter into idle/open/done and every     *)
(* other abstract variable is the concrete one.  Every step of a request   *)
(* is a step of the promise or leaves the mapped state alone:              *)
(*   Receive      -> Receive                                               *)
(*   ServeHTTP    -> stutter (URL normalised) or Fail (no or bad Host)     *)
(*   FilterRequest-> stutter (the decision is not observable)              *)
(*   RoundTrip    -> Egress (the dial) or stutter (refused, failed)        *)
(*   Respond      -> Reply, in the branch the responding shape selects.    *)
(* The last two need ResponseInv: a dial happens only for a request that  *)
(* was allowed, is normalised and was not dialed before, and a response   *)
(* is written from one of the four shapes RespondingShape lists.          *)
(***************************************************************************)
EXTENDS ProxyHTTP_proofs, TLAPS

(* The promise's verdicts are the model's: Allowed is PolicyAllows,       *)
(* Reachable is Dialable, RoleGiven is RoleOK, Malformed is a target that *)
(* URL normalisation cannot produce, and None is NoResp.                  *)
LEMMA PolicyVerdicts ==
    ASSUME NEW q
    PROVE  /\ Contract!Allowed(q) = PolicyAllows(q)
           /\ Contract!Reachable(q) = Dialable(q.target)
           /\ Contract!RoleGiven(q) = RoleOK(q.roleHdr)
           /\ Contract!Malformed(q) = (~q.abs /\ q.target \notin Hosts)
           /\ Contract!None = NoResp
           /\ \A st : Contract!Rejection(st) = Reject(st)
BY DEF Contract!Allowed, PolicyAllows, Contract!RoleGiven, RoleOK, Contract!RuleOf, Rule,
       Contract!Reachable, Dialable, Contract!Malformed, Contract!None,
       NoResp, Contract!Rejection, Reject

(* The initial state maps to an initial state of the promise.              *)
LEMMA InitMaps == Init => Contract!Init
<1> SUFFICES ASSUME Init PROVE Contract!Init
  OBVIOUS
<1>1. Phase = [r \in Requests |-> "idle"]
  BY DEF Init, Phase
<1>2. req \in [Requests -> RequestShapes]
  <2>1. (CHOOSE h \in Hosts : TRUE) \in Hosts
    BY ConstAssumption
  <2>. QED
    BY <2>1 DEF Init, RequestShapes, RoleHeaders
<1>3. delivered = [r \in Requests |-> Contract!None]
  BY PolicyVerdicts DEF Init
<1>. QED
  BY <1>1, <1>2, <1>3 DEF Init, Contract!Init


(* A step that changes no mapped variable and keeps every request in the   *)
(* same phase is a stutter of the promise.                                 *)
LEMMA Stutter ==
    ASSUME Phase' = Phase,
           UNCHANGED <<req, delivered, logs, logAllow, dialed, AllowMissingRole>>
    PROVE  UNCHANGED Contract!avars
BY DEF Contract!avars

(* The server reading a request is the promise receiving one: a closed    *)
(* phase reopens with no reply, no record and no dial.                     *)
LEMMA ReceiveMaps ==
    ASSUME TypeOK, NEW r \in Requests, Receive(r)
    PROVE  Contract!Receive(r)
<1>1. Phase[r] /= "open"
  BY DEF Receive, Phase
<1>2. Phase' = [Phase EXCEPT ![r] = "open"]
  BY DEF Receive, Phase, TypeOK
<1>3. delivered' = [delivered EXCEPT ![r] = Contract!None]
  BY PolicyVerdicts DEF Receive
<1>. QED
  BY <1>1, <1>2, <1>3 DEF Receive, Contract!Receive

(* ServeHTTP: a normalised URL keeps the request open; a missing Host     *)
(* drops the connection and an unparsable one is answered 500, both       *)
(* without a record, which is the promise's Fail.                          *)
LEMMA ServeMaps ==
    ASSUME TypeOK, NEW r \in Requests, ServeHTTP(r)
    PROVE  Contract!Fail(r) \/ UNCHANGED Contract!avars
<1>0. Phase[r] = "open"
  BY DEF ServeHTTP, Phase
<1>1. CASE req[r].abs \/ req[r].target \in Hosts
  <2>1. pc' = [pc EXCEPT ![r] = "filtering"] /\ UNCHANGED delivered
    BY <1>1, ConstAssumption DEF ServeHTTP
  <2>2. Phase' = Phase
    BY <2>1 DEF ServeHTTP, Phase, TypeOK
  <2>. QED
    BY <2>1, <2>2, Stutter DEF ServeHTTP
<1>2. CASE ~req[r].abs /\ req[r].target \notin Hosts
  <2>1. Contract!Malformed(req[r])
    BY <1>2, PolicyVerdicts
  <2>2. Phase' = [Phase EXCEPT ![r] = "done"]
    <3>1. PICK v \in {"aborted", "answered"} : pc' = [pc EXCEPT ![r] = v]
      BY <1>2 DEF ServeHTTP
    <3>. QED
      BY <3>1 DEF Phase, TypeOK
  <2>3. \/ req[r].target = BadHost
           /\ delivered' = [delivered EXCEPT ![r] =
                 [status |-> 500, errHdr |-> FALSE, body |-> "error"]]
        \/ req[r].target = NoHost /\ UNCHANGED delivered
    BY <1>2 DEF ServeHTTP
  <2>. QED
    BY <1>0, <2>1, <2>2, <2>3 DEF ServeHTTP, Contract!Fail
<1>. QED
  BY <1>1, <1>2

(* The request handler's decision is not observable by itself: the        *)
(* request stays open and nothing mapped changes.                          *)
LEMMA FilterMaps ==
    ASSUME TypeOK, NEW r \in Requests, FilterRequest(r)
    PROVE  UNCHANGED Contract!avars
<1>1. Phase' = Phase
  BY DEF FilterRequest, Phase, TypeOK
<1>. QED
  BY <1>1, Stutter DEF FilterRequest

(* The round trip: the dial is the promise's Egress, allowed because the  *)
(* goroutine reached the round trip only through an allowing request       *)
(* handler (RoundTripAllowed) with a normalised URL and no earlier dial;   *)
(* a refused address or a failed resolution or dial changes nothing       *)
(* mapped.                                                                 *)
LEMMA RoundTripMaps ==
    ASSUME ResponseInv, NEW r \in Requests, RoundTrip(r)
    PROVE  Contract!Egress(r) \/ UNCHANGED Contract!avars
<1>0. /\ TypeOK /\ pc[r] = "roundtrip" /\ ~dialed[r]
      /\ PolicyAllows(req[r]) /\ (req[r].abs \/ req[r].target \in Hosts)
  BY ResponseInvByRequest, OwnFacts
     DEF ResponseInv, EgressInv, RoundTripAllowed, RoundTrip
<1>1. Phase' = Phase
  BY <1>0 DEF RoundTrip, Phase, TypeOK
<1>2. CASE /\ AddrClass[req[r].target] \in {"public", "allowed_exempt"}
           /\ dialed' = [dialed EXCEPT ![r] = TRUE]
  <2>1. Dialable(req[r].target)
    BY <1>2 DEF Dialable
  <2>2. /\ Phase[r] = "open" /\ ~Contract!Malformed(req[r])
        /\ Contract!Allowed(req[r]) /\ Contract!Reachable(req[r])
    BY <1>0, <2>1, PolicyVerdicts DEF Phase
  <2>. QED
    BY <1>1, <1>2, <1>0, <2>2 DEF RoundTrip, Contract!Egress
<1>3. CASE UNCHANGED dialed
  BY <1>1, <1>3, Stutter DEF RoundTrip
<1>. QED
  BY <1>2, <1>3 DEF RoundTrip


(* Writing the response is the promise's Reply, in the branch the         *)
(* responding shape selects: a canned 407/503 for an ACL denial, a 503    *)
(* recorded as denied after a refused address, a 503 recorded as allowed  *)
(* after a failed resolution or dial, and the upstream's response,        *)
(* stripped of X-Smokescreen-Error, after a dial.  In each the record     *)
(* count goes from 0 to 1 in the same step, even where filterResponse     *)
(* runs twice.                                                             *)
LEMMA RespondMaps ==
    ASSUME ResponseInv, NEW r \in Requests, Respond(r)
    PROVE  Contract!Reply(r)
<1> DEFINE q == req[r]
<1>0. /\ TypeOK /\ pc[r] = "responding" /\ logs[r] = 0 /\ RespondingShape(r)
      /\ (q.abs \/ q.target \in Hosts)
  BY ResponseInvByRequest, OwnFacts DEF ResponseInv, EgressInv, Respond
<1>1. Phase[r] = "open" /\ ~Contract!Malformed(q)
  BY <1>0, PolicyVerdicts DEF Phase
<1>2. Phase' = [Phase EXCEPT ![r] = "done"]
  BY <1>0 DEF Respond, Phase, TypeOK
<1>3. logs'[r] = 1 => Contract!Answer(r, delivered'[r], logAllow'[r])
  <2>1. /\ delivered' = [delivered EXCEPT ![r] = delivered'[r]]
        /\ logAllow' = [logAllow EXCEPT ![r] = logAllow'[r]]
        /\ UNCHANGED <<req, dialed, AllowMissingRole>>
    BY <1>0 DEF Respond, TypeOK
  <2>2. logs'[r] = 1 => logs' = [logs EXCEPT ![r] = 1]
    BY <1>0 DEF Respond, TypeOK
  <2>. QED
    BY <1>2, <2>1, <2>2 DEF Contract!Answer
<1>a. /\ Reject(503) /= NoResp
      /\ FilterResponse(Reject(503), rtErr[r]) = [resp |-> Reject(503), log |-> 1]
  <2>1. Reject(503) /= NoResp
    BY DEF Reject, NoResp
  <2>2. FilterResponse(Reject(503), rtErr[r]) = [resp |-> Reject(503), log |-> 1]
    BY RejectFacts, FilterOnResponse
  <2>. QED
    BY <2>1, <2>2
<1>4. CASE /\ ~decision[r].allow /\ ~PolicyAllows(q) /\ rtErr[r] = "none"
           /\ upstream[r] = Reject(IF RoleOK(q.roleHdr) THEN 503 ELSE 407)
  <2>1. PICK st \in {407, 503} :
            /\ upstream[r] = Reject(st)
            /\ st = IF RoleOK(q.roleHdr) THEN 503 ELSE 407
    BY <1>4
  <2>2. upstream[r] /= NoResp
    BY <2>1 DEF Reject, NoResp
  <2>3. FilterResponse(Reject(st), rtErr[r]) = [resp |-> Reject(st), log |-> 1]
    BY RejectFacts, FilterOnResponse
  <2>4. delivered'[r] = Reject(st) /\ logs'[r] = 1 /\ logAllow'[r] = FALSE
    BY <1>0, <1>4, <2>1, <2>2, <2>3 DEF Respond, TypeOK
  <2>5. /\ ~Contract!Allowed(q)
        /\ Contract!Rejection(IF Contract!RoleGiven(q) THEN 503 ELSE 407)
           = Reject(st)
    BY <1>4, <2>1, PolicyVerdicts
  <2>. QED
    BY <1>1, <1>3, <2>4, <2>5 DEF Contract!Reply
<1>5. CASE /\ ~decision[r].allow /\ PolicyAllows(q) /\ ~Dialable(q.target)
           /\ rtErr[r] = "denied" /\ upstream[r] = NoResp
  <2>1. FilterResponse(NoResp, rtErr[r]) = [resp |-> Reject(503), log |-> 0]
    BY <1>5, FilterOnNone DEF RoundTripErrors
  <2>2. delivered'[r] = Reject(503) /\ logs'[r] = 1 /\ logAllow'[r] = FALSE
    BY <1>0, <1>5, <1>a, <2>1 DEF Respond, TypeOK
  <2>3. /\ Contract!Allowed(q) /\ ~Contract!Reachable(q)
        /\ Contract!Rejection(503) = Reject(503)
    BY <1>5, PolicyVerdicts
  <2>4. Contract!Answer(r, Contract!Rejection(503), FALSE)
    BY <1>3, <2>2, <2>3
  <2>. QED
    BY <1>1, <2>3, <2>4 DEF Contract!Reply
<1>6. CASE /\ decision[r].allow /\ PolicyAllows(q) /\ Dialable(q.target)
           /\ rtErr[r] \in {"resolve", "dial"} /\ upstream[r] = NoResp
  <2>1. FilterResponse(NoResp, rtErr[r]) = [resp |-> Reject(503), log |-> 0]
    BY <1>6, FilterOnNone DEF RoundTripErrors
  <2>2. delivered'[r] = Reject(503) /\ logs'[r] = 1 /\ logAllow'[r] = TRUE
    BY <1>0, <1>6, <1>a, <2>1 DEF Respond, TypeOK
  <2>3. /\ Contract!Allowed(q) /\ Contract!Reachable(q)
        /\ Contract!Rejection(503) = Reject(503)
    BY <1>6, PolicyVerdicts
  <2>4. Contract!Answer(r, Contract!Rejection(503), TRUE)
    BY <1>3, <2>2, <2>3
  <2>. QED
    BY <1>1, <2>3, <2>4 DEF Contract!Reply
<1>7. CASE /\ decision[r].allow /\ PolicyAllows(q) /\ Dialable(q.target)
           /\ rtErr[r] = "none" /\ dialed[r]
           /\ upstream[r] \in Responses /\ upstream[r].body = "upstream"
           /\ upstream[r].status \in {200, 404}
  <2> DEFINE up == [status |-> upstream[r].status, errHdr |-> FALSE,
                    body |-> "upstream"]
  <2>1. /\ upstream[r] /= NoResp
        /\ FilterResponse(upstream[r], rtErr[r]) = [resp |-> up, log |-> 1]
    <3>1. upstream[r] /= NoResp
      BY <1>7 DEF Responses, NoResp
    <3>2. StripErrorHeader(upstream[r]) = up
      BY <1>7 DEF StripErrorHeader
    <3>3. FilterResponse(upstream[r], rtErr[r])
          = [resp |-> StripErrorHeader(upstream[r]), log |-> 1]
      BY <1>7, FilterOnResponse
    <3>. QED
      BY <3>1, <3>2, <3>3
  <2>2. delivered'[r] = up /\ logs'[r] = 1 /\ logAllow'[r] = TRUE
    BY <1>0, <1>7, <2>1 DEF Respond, TypeOK
  <2>3. Contract!Allowed(q) /\ Contract!Reachable(q)
    BY <1>7, PolicyVerdicts
  <2>4. Contract!Answer(r, up, TRUE)
    BY <1>3, <2>2
  <2>. QED
    BY <1>1, <1>7, <2>3, <2>4 DEF Contract!Reply
<1>. QED
  BY <1>0, <1>4, <1>5, <1>6, <1>7 DEF RespondingShape


(* Every step of the model, from a state where ResponseInv holds, is a     *)
(* step of the promise or leaves its variables unchanged.                  *)
LEMMA StepMaps == ResponseInv /\ [Next]_vars => [Contract!Next]_Contract!avars
<1> SUFFICES ASSUME ResponseInv, [Next]_vars
             PROVE  [Contract!Next]_Contract!avars
  OBVIOUS
<1>0. TypeOK
  BY DEF ResponseInv, EgressInv
<1>1. ASSUME NEW r \in Requests, Receive(r) PROVE Contract!Next
  BY <1>0, <1>1, ReceiveMaps DEF Contract!Next
<1>2. ASSUME NEW r \in Requests, ServeHTTP(r)
      PROVE  [Contract!Next]_Contract!avars
  BY <1>0, <1>2, ServeMaps DEF Contract!Next
<1>3. ASSUME NEW r \in Requests, FilterRequest(r)
      PROVE  UNCHANGED Contract!avars
  BY <1>0, <1>3, FilterMaps
<1>4. ASSUME NEW r \in Requests, RoundTrip(r)
      PROVE  [Contract!Next]_Contract!avars
  BY <1>4, RoundTripMaps DEF Contract!Next
<1>5. ASSUME NEW r \in Requests, Respond(r) PROVE Contract!Next
  BY <1>5, RespondMaps DEF Contract!Next
<1>6. CASE UNCHANGED vars
  <2>1. Phase' = Phase
    BY <1>6 DEF vars, Phase
  <2>. QED
    BY <1>6, <2>1, Stutter DEF vars
<1>. QED
  BY <1>1, <1>2, <1>3, <1>4, <1>5, <1>6 DEF Next

(* The plain-HTTP path implements its per-request promise, for every ACL, *)
(* address classification, AllowMissingRole and number of concurrent      *)
(* requests: no dial unless the ACL and the address rules allow it, and    *)
(* every normalised request ends in exactly one reply written with its     *)
(* one record, in the branch of the policy's verdict and the dial outcome *)
(* (ServeHTTP, filterRequest, the round trip and filterResponse together). *)
THEOREM RefinesPolicy == Spec => ImplementsPolicy
<1>1. Spec => Contract!Spec
  BY ResponseInvariant, InitMaps, StepMaps, PTL DEF Spec, Contract!Spec
<1>. QED
  BY <1>1 DEF ImplementsPolicy

=============================================================================
