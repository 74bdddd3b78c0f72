--------------------------- MODULE MCClientStack ---------------------------
(* The instance of ClientStack that TLC checks: two request handlers and,   *)
(* in two of the six operators, a source; two names, one default, one       *)
(* other and one invalid label.                                             *)
EXTENDS ClientStack, TLC

CONSTANTS c1, c2, src

MCCallers == {c1, c2, src}
MCValues == SUBSET {"foo", "ok", "bad"}

Operator(raw, all, source, ops, requests, breaks, expiries, failures) ==
    [rawListing |-> raw, allNamespaces |-> all, source |-> source, ops |-> ops,
     budget |-> ("request" :> requests) @@ ("break" :> breaks)
                @@ ("expire" :> expiries) @@ ("fail" :> failures)]

MCSetups == {
    \* admission with a raw listing, alone and beside a controller
    Operator(TRUE, TRUE, FALSE, {"create", "update", "delete"}, 3, 0, 0, 1),
    Operator(TRUE, FALSE, TRUE, {"create", "update", "delete"}, 2, 1, 0, 0),
    \* cached listings and reads, in a cache of all namespaces and of one
    Operator(FALSE, TRUE, FALSE, {"create", "get"}, 2, 0, 1, 1),
    Operator(FALSE, FALSE, FALSE, {"create", "delete", "get"}, 2, 0, 0, 0),
    \* one of them beside a controller
    Operator(FALSE, FALSE, TRUE, {"create", "get"}, 1, 1, 1, 1),
    \* the recorder and its Result
    Operator(TRUE, FALSE, FALSE, {"status", "patch", "result"}, 3, 0, 0, 1)}
=============================================================================
