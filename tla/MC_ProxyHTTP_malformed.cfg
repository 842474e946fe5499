CONSTANTS
    r1 = r1
    r2 = r2
    NoHostValue = NoHostValue
    BadHostValue = BadHostValue
    NoRuleValue = NoRuleValue
    Requests <- MCRequests1
    Roles <- MCRoles
    Hosts <- MCHosts
    Policy <- MCPolicy
    DefaultRule <- MCDefaultRule
    NoRule <- NoRuleValue
    AddrClass <- MCAddrClass
    NoHost <- NoHostValue
    BadHost <- BadHostValue
SPECIFICATION Spec
INVARIANT MalformedAnswered400
