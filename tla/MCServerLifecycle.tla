--------------------------- MODULE MCServerLifecycle ---------------------------
(* Model values and requests for ServerLifecycle. *)
EXTENDS ServerLifecycle

CONSTANTS e1, e2, o1, o2, o3

Request(op, kind, target) == [op |-> op, kind |-> kind, target |-> target]

\* A server is created, reset and closed under operation identifiers; of a second
\* close, without one, the first may have left nothing to do.
MCLinkedCalls == {Request(o1, "create", e1), Request(o2, "reset", e2),
                  Request(o3, "close", None)}
MCAllCalls == MCLinkedCalls \cup {Request(NoOp, "close", None), Request(NoOp, "reset", e1),
                                  Request(NoOp, "deploy", e2), Request(NoOp, "patch", e2)}
MCResetCalls == {Request(o2, "reset", e2)}
=============================================================================
