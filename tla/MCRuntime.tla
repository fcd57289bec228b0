------------------------------ MODULE MCRuntime ------------------------------
(* Small instances of the parts of the runtime, each moving alone.           *)
EXTENDS Runtime

CONSTANTS base, l1, l2, k1, k2, w1, w2

Net(io_, clients, workers, requests, offered) ==
    [io |-> io_, clients |-> clients, workers |-> workers, requests |-> requests, offered |-> offered]

(* One I/O thread or none: the main loop serves the connections itself, and  *)
(* two: connections go round.  What clients and sockets do differs.          *)
NetInstances ==
    {Net(<<>>, {k1}, {w1}, 2, {"bad lines", "close"}),
     Net(<<l1>>, {k1, k2}, {}, 0, {"close"}),
     Net(<<l1>>, {k1}, {w1, w2}, 2, {"close"}),
     Net(<<l1>>, {k1}, {w1}, 1, {"reset", "huge lines", "uncaught"}),
     Net(<<l1>>, {k1}, {w1}, 1, {"signal", "close"}),
     Net(<<l1, l2>>, {k1, k2}, {}, 0, {"no descriptors"})}

ClientInstances ==
    {[retry |-> TRUE, calls |-> {"connect", "stop"}],
     [retry |-> TRUE, calls |-> {"connect", "disconnect"}],
     [retry |-> FALSE, calls |-> {"connect", "disconnect", "stop"}]}

LogInstances ==
    {[policy |-> "Block", calls |-> {"stop"}],
     [policy |-> "Block", calls |-> {"flush", "stop"}],
     [policy |-> "DropNewest", calls |-> {"flush"}],
     [policy |-> "DropOldest", calls |-> {"stop"}]}
=============================================================================
