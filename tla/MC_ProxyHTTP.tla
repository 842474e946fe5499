---------------------------- MODULE MC_ProxyHTTP ----------------------------
(* Model-checking instance of ProxyHTTP after the integration test's       *)
(* configuration: roles egressneedingservice-{open,report,enforce} each    *)
(* authorised for 127.0.0.1 only, an unknown role, 127.0.0.1 in the        *)
(* allow-range (so localhost, which resolves to it, is allowed too),       *)
(* 1.1.1.1 in the deny-range and 10.0.0.1 private; the ACL's default rule *)
(* enforces localhost only, so that an unknown role reaches localhost and  *)
(* not 127.0.0.1, as the test's noRole and unknownRole cases expect.       *)
EXTENDS ProxyHTTP, TLC

CONSTANTS r1, r2, NoHostValue, BadHostValue, NoRuleValue

MCRequests1 == {r1}
MCRequests2 == {r1, r2}
MCRoles == {"open", "report", "enforce", "unknown"}
MCHosts == {"127.0.0.1", "localhost", "1.1.1.1", "10.0.0.1"}
MCPolicy == [role \in {"open", "report", "enforce"} |->
                [mode |-> role, hosts |-> {"127.0.0.1"}]]
MCDefaultRule == [mode |-> "enforce", hosts |-> {"localhost"}]
MCAddrClass == ("127.0.0.1" :> "allowed_exempt") @@ ("localhost" :> "allowed_exempt")
               @@ ("1.1.1.1" :> "denied") @@ ("10.0.0.1" :> "private")

=============================================================================
