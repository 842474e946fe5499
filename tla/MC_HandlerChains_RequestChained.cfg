\* filterRequest over two request handlers: the second handler is handed
\* the original request, not the first one's rewrite.
CONSTANTS
    q1 = q1
    q2 = q2
    p1 = p1
    nil = nil
    Reqs <- MCReqs
    Resps <- MCResps
    Nil <- nil
    MaxHandlers = 2
SPECIFICATION Spec
INVARIANT RequestChained
