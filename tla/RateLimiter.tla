----------------------------- MODULE RateLimiter -----------------------------
(***************************************************************************)
(* The sliding-window limiter of src/src/dashboard/rate_limit.rs, as       *)
(* operators on its table: a function from the tracked clients to the      *)
(* times of their requests in the window and the time they were last seen. *)
(* Every call of check runs under the limiter's mutex and reads the clock  *)
(* under it.  Totals and the list of recent rejections only feed reports.  *)
(*                                                                         *)
(* Times are Instants, counted from the earliest that can be represented.  *)
(***************************************************************************)
EXTENDS Integers, Sequences, FiniteSets, Functions

CONSTANTS RateWindow,   \* length of the window
          RateMax,      \* requests a client may make in a window
          MaxClients    \* clients tracked at most

ASSUME RateAssumption ==
  RateWindow \in Nat \ {0} /\ RateMax \in Nat \ {0} /\ MaxClients \in Nat \ {0}

NoClients == [c \in {} |-> 0]

(* now.checked_sub(length).unwrap_or(now): the time itself when nothing as *)
(* early can be represented.                                               *)
Earlier(now, length) == IF now >= length THEN now - length ELSE now

(* prune_window: requests leave at the front until one is later than the   *)
(* start of the window.                                                    *)
PruneWindow(requests, now) ==
  LET start == Earlier(now, RateWindow)
      popped == CHOOSE n \in 0 .. Len(requests) :
                  /\ \A i \in 1 .. n : requests[i] <= start
                  /\ n < Len(requests) => requests[n + 1] > start
  IN  SubSeq(requests, popped + 1, Len(requests))

(* prune_idle: windows are pruned, and a client that has none left and was *)
(* not seen for two windows is forgotten.                                  *)
PruneIdle(table, now) ==
  LET pruned == [c \in DOMAIN table |->
                   [table[c] EXCEPT !.requests = PruneWindow(@, now)]]
  IN  Restrict(pruned, {c \in DOMAIN table :
                          \/ table[c].seen > Earlier(now, 2 * RateWindow)
                          \/ pruned[c].requests # <<>>})

(* evict_oldest_client: the clients that may go to make room for another;  *)
(* min_by_key takes one of those seen the longest ago.                     *)
Oldest(table) == {c \in DOMAIN table : \A d \in DOMAIN table : table[c].seen <= table[d].seen}

Evicted(table, client) ==
  IF client \notin DOMAIN table /\ Cardinality(DOMAIN table) >= MaxClients
  THEN {{c} : c \in Oldest(table)}
  ELSE {{}}

(* check, once the table has been pruned and has room: the requests of the *)
(* client, and whether this one is allowed.                                *)
Requests(table, client, now) ==
  IF client \in DOMAIN table THEN PruneWindow(table[client].requests, now) ELSE <<>>

(* Mutant of Allowed: one request too many.                                *)
AllowedOneMore(table, client, now) == Len(Requests(table, client, now)) <= RateMax

Allowed(table, client, now) == Len(Requests(table, client, now)) < RateMax

Counted(table, client, now) ==
  LET before == Requests(table, client, now)
  IN  [c \in DOMAIN table \cup {client} |->
         IF c = client
         THEN [requests |-> IF Len(before) < RateMax THEN Append(before, now) ELSE before,
               seen |-> now]
         ELSE table[c]]
=============================================================================
