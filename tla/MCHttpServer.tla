---------------------------- MODULE MCHttpServer ----------------------------
(* HttpServer on a small instance: one or two requests at a time, one heavy *)
(* action and, as in the code, one refresh of the overview.  The server of  *)
(* one request at a time starts before the first window that can be         *)
(* represented has passed, and then sees part of a window expire.           *)
EXTENDS HttpServer, TLC

FewPermits == {[g \in Gates |-> IF g = "request" THEN n ELSE 1] : n \in {1, 2}}

MCInit == Init /\ (limit["request"] = 1 <=> now < RateWindow)
MCSpec == MCInit /\ [][Next]_vars /\ Fairness
=============================================================================
