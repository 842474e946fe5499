----------------------------- MODULE ProxyPolicy -----------------------------
(***************************************************************************)
(* What the plain-HTTP path promises for each request, with no goroutine,  *)
(* handler or round trip in sight: a request is received, an upstream     *)
(* connection may be opened only when the egress policy and the address   *)
(* rules allow it, and the request then ends in exactly one reply, written *)
(* together with its one canonical decision record.  The reply is the     *)
(* upstream's response, without X-Smokescreen-Error, only after a dial;   *)
(* 407 for a missing role and 503 for any other denial, recorded with     *)
(* allow = false; 503 recorded with allow = true when the allowed dial     *)
(* fails.  A request whose URL cannot be normalised ends without a record: *)
(* with a 500 (an internal error) or with no reply at all.                 *)
(***************************************************************************)
EXTENDS Integers, Sequences

CONSTANTS
    Requests, Roles, Hosts, Policy, DefaultRule, NoRule, AddrClass, NoHost, BadHost,
    Shapes,           \* the requests a client may send
    UpstreamStatus    \* the statuses an upstream may answer with

VARIABLES
    phase,            \* "idle", "open" (received, not answered), "done"
    areq,             \* the request
    reply,            \* the response the client got, or None
    records,          \* canonical decision records emitted for the request
    recAllow,         \* the allow field of the record
    egress,           \* an upstream connection was opened
    allowMissing      \* Config.AllowMissingRole

avars == <<phase, areq, reply, records, recAllow, egress, allowMissing>>

None == [status |-> 0, errHdr |-> FALSE, body |-> "none"]
Rejection(st) == [status |-> st, errHdr |-> FALSE, body |-> "reject"]

(* The ACL (spec 4.3) and address rules (4.1): one role header, a role     *)
(* whose rule (its own or the ACL's default) lets the host through, or a   *)
(* role with no rule when missing roles are allowed; an address that is   *)
(* public or explicitly allowed.                                           *)
RoleGiven(q) == Len(q.roleHdr) = 1
RuleOf(role) == IF role \in DOMAIN Policy THEN Policy[role] ELSE DefaultRule
Allowed(q) ==
    /\ RoleGiven(q)
    /\ IF RuleOf(q.roleHdr[1]) = NoRule
       THEN allowMissing
       ELSE RuleOf(q.roleHdr[1]).mode /= "enforce"
            \/ q.target \in RuleOf(q.roleHdr[1]).hosts
Reachable(q) == AddrClass[q.target] \in {"public", "allowed_exempt"}
Malformed(q) == ~q.abs /\ q.target \notin Hosts

Init ==
    /\ phase = [r \in Requests |-> "idle"]
    /\ areq \in [Requests -> Shapes]
    /\ reply = [r \in Requests |-> None]
    /\ records = [r \in Requests |-> 0]
    /\ recAllow = [r \in Requests |-> FALSE]
    /\ egress = [r \in Requests |-> FALSE]
    /\ allowMissing \in BOOLEAN

Receive(r) ==
    /\ phase[r] /= "open"
    /\ \E q \in Shapes : areq' = [areq EXCEPT ![r] = q]
    /\ phase' = [phase EXCEPT ![r] = "open"]
    /\ reply' = [reply EXCEPT ![r] = None]
    /\ records' = [records EXCEPT ![r] = 0]
    /\ recAllow' = [recAllow EXCEPT ![r] = FALSE]
    /\ egress' = [egress EXCEPT ![r] = FALSE]
    /\ UNCHANGED allowMissing

Egress(r) ==
    /\ phase[r] = "open" /\ ~egress[r]
    /\ ~Malformed(areq[r]) /\ Allowed(areq[r]) /\ Reachable(areq[r])
    /\ egress' = [egress EXCEPT ![r] = TRUE]
    /\ UNCHANGED <<phase, areq, reply, records, recAllow, allowMissing>>

(* The request ends with response resp and its one record.                *)
Answer(r, resp, allow) ==
    /\ phase' = [phase EXCEPT ![r] = "done"]
    /\ reply' = [reply EXCEPT ![r] = resp]
    /\ records' = [records EXCEPT ![r] = 1]
    /\ recAllow' = [recAllow EXCEPT ![r] = allow]
    /\ UNCHANGED <<areq, egress, allowMissing>>

Reply(r) ==
    LET q == areq[r] IN
    /\ phase[r] = "open" /\ ~Malformed(q)
    /\ \/ ~Allowed(q) /\ Answer(r, Rejection(IF RoleGiven(q) THEN 503 ELSE 407), FALSE)
       \/ Allowed(q) /\ ~Reachable(q) /\ Answer(r, Rejection(503), FALSE)
       \/ Allowed(q) /\ Reachable(q) /\ Answer(r, Rejection(503), TRUE)
       \/ /\ Allowed(q) /\ Reachable(q) /\ egress[r]
          /\ \E st \in UpstreamStatus :
                Answer(r, [status |-> st, errHdr |-> FALSE, body |-> "upstream"], TRUE)

(* A request that cannot be normalised: a 500 and no record, or no reply. *)
Fail(r) ==
    /\ phase[r] = "open" /\ Malformed(areq[r])
    /\ phase' = [phase EXCEPT ![r] = "done"]
    /\ \/ areq[r].target = BadHost
          /\ reply' = [reply EXCEPT ![r] =
                         [status |-> 500, errHdr |-> FALSE, body |-> "error"]]
       \/ areq[r].target = NoHost /\ UNCHANGED reply
    /\ UNCHANGED <<areq, records, recAllow, egress, allowMissing>>

Next == \E r \in Requests : Receive(r) \/ Egress(r) \/ Reply(r) \/ Fail(r)

Spec == Init /\ [][Next]_avars
=============================================================================
