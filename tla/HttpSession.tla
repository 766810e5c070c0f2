---------------------------- MODULE HttpSession ----------------------------
(***************************************************************************)
(* The sessions of the MCP HTTP endpoint: McpHttpSessionStore              *)
(* (src/dashboard/http_session.rs) as the handlers of                      *)
(* src/dashboard/mcp_http.rs use it.  A handler holds the store's mutex    *)
(* for everything it does with a session, so each is one step.             *)
(*                                                                         *)
(* A handler that refuses a message without touching the store (a          *)
(* malformed message, an unknown session, another protocol version, an id  *)
(* that is too long) is a stuttering step.                                 *)
(***************************************************************************)
EXTENDS Integers, FiniteSets

CONSTANTS SessionIds,                    \* ids the random generator may give
          RequestIds, Size,              \* request id keys and their bytes
          max_sessions, ttl_ms,
          MAX_REQUEST_IDS_PER_SESSION, MAX_REQUEST_ID_STORAGE_BYTES,
          MAX_REQUEST_ID_REPLAY_BYTES, MAX_GLOBAL_REQUEST_ID_REPLAY_BYTES,
          MaxTime,                       \* bound on the clock
          NoSession

ASSUME SessionAssumption ==
    /\ Size \in [RequestIds -> Nat]
    /\ max_sessions \in Nat \ {0} /\ ttl_ms \in Nat \ {0} /\ MaxTime \in Nat
    /\ MAX_REQUEST_IDS_PER_SESSION \in Nat \ {0}
    /\ MAX_REQUEST_ID_STORAGE_BYTES \in Nat
    /\ MAX_REQUEST_ID_REPLAY_BYTES \in Nat
    /\ MAX_GLOBAL_REQUEST_ID_REPLAY_BYTES \in Nat
    /\ MAX_REQUEST_ID_STORAGE_BYTES <= MAX_REQUEST_ID_REPLAY_BYTES

McpHttpSession == [last_seen : 0 .. MaxTime, expires : 0 .. MaxTime + ttl_ms,
                   initialized : BOOLEAN, seen : SUBSET RequestIds, seen_bytes : Nat]

ASSUME NoSessionAssumption == NoSession \notin McpHttpSession

VARIABLES sessions,        \* session id -> its session, or NoSession
          now,             \* the wall clock
          issued,          \* session ids given to clients so far
          notified,        \* sessions whose client sent notifications/initialized
          closed,          \* sessions whose client sent DELETE
          worked,          \* sessions that a normal operation was let through in
          handled          \* <<session, request id>> -> requests answered, capped

vars == <<sessions, now, issued, notified, closed, worked, handled>>

Requests == SessionIds \X RequestIds

Init == /\ sessions = [s \in SessionIds |-> NoSession]
        /\ now = 0
        /\ issued = {} /\ notified = {} /\ closed = {} /\ worked = {}
        /\ handled = [q \in Requests |-> 0]

\* One answer tells a replay from a first use; more need not be counted.
Handle(s, r) == handled' = [handled EXCEPT ![<<s, r>>] = IF @ < 2 THEN @ + 1 ELSE @]

-----------------------------------------------------------------------------
(* McpHttpSessionStore.                                                     *)

Open(ss) == {s \in SessionIds : ss[s] # NoSession}
Only(ss, kept) == [s \in SessionIds |-> IF s \in kept THEN ss[s] ELSE NoSession]
Live(s) == sessions[s] # NoSession /\ sessions[s].expires > now
TooLong(r) == Size[r] > MAX_REQUEST_ID_STORAGE_BYTES

prune_expired == Only(sessions, {s \in SessionIds : Live(s)})

\* The sum of n[x] for the members x of S, as the number of bytes they have together.
BytesOf(n, S) == UNION {{x} \X (1 .. n[x]) : x \in S}
Total(n, S) == Cardinality(BytesOf(n, S))

global_request_id_bytes(ss) == Total([s \in Open(ss) |-> ss[s].seen_bytes], Open(ss))

\* Any session may go to make room.
evict_any(ss) ==
    IF Cardinality(Open(ss)) < max_sessions THEN {ss}
    ELSE {Only(ss, kept) : kept \in {k \in SUBSET Open(ss) : Cardinality(k) = max_sessions - 1}}

\* The least recently seen sessions go, until there is room for one more.
evict_until_capacity_for_insert(ss) ==
    IF Cardinality(Open(ss)) < max_sessions THEN {ss}
    ELSE {Only(ss, kept) : kept \in
            {k \in SUBSET Open(ss) : /\ Cardinality(k) = max_sessions - 1
                                     /\ \A s \in k, t \in Open(ss) \ k :
                                           ss[t].last_seen <= ss[s].last_seen}}

NewSession(r) == [last_seen |-> now, expires |-> now + ttl_ms, initialized |-> FALSE,
                  seen |-> {r}, seen_bytes |-> Size[r]]

Touched(session) == [session EXCEPT !.last_seen = now, !.expires = now + ttl_ms]

\* The byte budget compared before the id is added.
FitsLate(session, r) == /\ Cardinality(session.seen) < MAX_REQUEST_IDS_PER_SESSION
                        /\ session.seen_bytes <= MAX_REQUEST_ID_REPLAY_BYTES
                        /\ global_request_id_bytes(sessions) <= MAX_GLOBAL_REQUEST_ID_REPLAY_BYTES
Fits(session, r) ==
    /\ global_request_id_bytes(sessions) + Size[r] <= MAX_GLOBAL_REQUEST_ID_REPLAY_BYTES
    /\ Cardinality(session.seen) < MAX_REQUEST_IDS_PER_SESSION
    /\ session.seen_bytes + Size[r] <= MAX_REQUEST_ID_REPLAY_BYTES

Tracked(session, r) == [session EXCEPT !.seen = @ \cup {r}, !.seen_bytes = @ + Size[r]]

-----------------------------------------------------------------------------
(* The handlers.                                                            *)

\* initialize with an id: a fresh session, unless the ids of the others leave no
\* room for this one.  Then the sessions that were pruned and evicted are gone too.
Initialize(s, r) ==
    /\ s \notin issued /\ ~TooLong(r)
    /\ issued' = issued \cup {s}
    /\ \E ss \in evict_until_capacity_for_insert(prune_expired) :
          IF global_request_id_bytes(ss) + Size[r] <= MAX_GLOBAL_REQUEST_ID_REPLAY_BYTES
          THEN /\ sessions' = [ss EXCEPT ![s] = NewSession(r)]
               /\ Handle(s, r)
          ELSE /\ sessions' = ss
               /\ UNCHANGED handled
    /\ UNCHANGED <<now, notified, closed, worked>>

\* A message of any kind for a session that has expired removes it.
FindExpired(s) ==
    /\ sessions[s] # NoSession /\ sessions[s].expires <= now
    /\ sessions' = [sessions EXCEPT ![s] = NoSession]
    /\ UNCHANGED <<now, issued, notified, closed, worked, handled>>

\* notifications/initialized.
MarkInitialized(s) ==
    /\ Live(s)
    /\ sessions' = [sessions EXCEPT ![s] = [Touched(@) EXCEPT !.initialized = TRUE]]
    /\ notified' = notified \cup {s}
    /\ UNCHANGED <<now, issued, closed, worked, handled>>

\* A response, or a notification that is accepted or refused: the session is touched.
TouchSession(s) ==
    /\ Live(s)
    /\ sessions' = [sessions EXCEPT ![s] = Touched(@)]
    /\ UNCHANGED <<now, issued, notified, closed, worked, handled>>

\* A request whose id is looked up after the readiness check.
RequestReadyFirst(s, r, ping) ==
    /\ Live(s) /\ ~TooLong(r)
    /\ IF (ping \/ sessions[s].initialized) /\ r \notin sessions[s].seen /\ Fits(sessions[s], r)
       THEN sessions' = [sessions EXCEPT ![s] = Tracked(Touched(@), r)]
       ELSE sessions' = [sessions EXCEPT ![s] = Touched(@)]
    /\ IF (ping \/ sessions[s].initialized) => (r \notin sessions[s].seen /\ Fits(sessions[s], r))
       THEN Handle(s, r) ELSE UNCHANGED handled
    /\ worked' = IF ~ping /\ sessions[s].initialized THEN worked \cup {s} ELSE worked
    /\ UNCHANGED <<now, issued, notified, closed>>

\* A request with an id.  A replayed id, or one that does not fit, is refused after
\* the session was touched; a session that is not ready refuses all but a ping, and
\* the id is used up.
Request(s, r, ping) ==
    /\ Live(s) /\ ~TooLong(r)
    /\ LET tracked == r \notin sessions[s].seen /\ Fits(sessions[s], r)
       IN  /\ sessions' = [sessions EXCEPT ![s] = IF tracked THEN Tracked(Touched(@), r) ELSE Touched(@)]
           /\ IF tracked THEN Handle(s, r) ELSE UNCHANGED handled
           /\ worked' = IF tracked /\ ~ping /\ sessions[s].initialized THEN worked \cup {s} ELSE worked
    /\ UNCHANGED <<now, issued, notified, closed>>

\* DELETE of a live session.
Close(s) ==
    /\ Live(s)
    /\ sessions' = [sessions EXCEPT ![s] = NoSession]
    /\ closed' = closed \cup {s}
    /\ UNCHANGED <<now, issued, notified, worked, handled>>

\* The status page.
Snapshot == /\ sessions' = prune_expired
            /\ UNCHANGED <<now, issued, notified, closed, worked, handled>>

\* The wall clock advances or is set.
ClockMoves == /\ now' \in 0 .. MaxTime
              /\ UNCHANGED <<sessions, issued, notified, closed, worked, handled>>

Next == \/ \E s \in SessionIds :
              \/ \E r \in RequestIds : Initialize(s, r) \/ \E ping \in BOOLEAN : Request(s, r, ping)
              \/ FindExpired(s) \/ MarkInitialized(s) \/ TouchSession(s) \/ Close(s)
        \/ Snapshot
        \/ ClockMoves

Spec == Init /\ [][Next]_vars

-----------------------------------------------------------------------------
(* Properties.                                                              *)

\* Every variable has its type; no session expires later than its time to live after
\* the latest the clock can show.
TypeOK == /\ sessions \in [SessionIds -> McpHttpSession \cup {NoSession}]
          /\ now \in 0 .. MaxTime
          /\ issued \subseteq SessionIds /\ notified \subseteq SessionIds
          /\ closed \subseteq SessionIds /\ worked \subseteq SessionIds
          /\ handled \in [Requests -> 0 .. 2]

\* A request id is answered at most once in a session, whatever is pruned, evicted
\* or refused for being early in between: the id of initialize counts, and so does
\* that of a request that came before the session was ready.
HandledOnce == \A q \in Requests : handled[q] <= 1

\* The ids that are remembered stay within every budget, and the byte counters the
\* budgets are checked with are the bytes of the ids.
BudgetsHold ==
    /\ Cardinality(Open(sessions)) <= max_sessions
    /\ \A s \in Open(sessions) :
          /\ sessions[s].seen_bytes = Total(Size, sessions[s].seen)
          /\ sessions[s].seen_bytes <= MAX_REQUEST_ID_REPLAY_BYTES
          /\ Cardinality(sessions[s].seen) <= MAX_REQUEST_IDS_PER_SESSION
    /\ global_request_id_bytes(sessions) <= MAX_GLOBAL_REQUEST_ID_REPLAY_BYTES

\* Normal operations are let through only in sessions whose client has finished the
\* handshake.
WorkAfterHandshake == worked \subseteq notified

\* A live session leaves the store only because its client closes it or because the
\* store is full of live sessions and none was seen less recently.
LiveSessionKept ==
    [][\A s \in SessionIds :
          Live(s) /\ sessions'[s] = NoSession =>
             \/ s \in closed'
             \/ /\ Cardinality({t \in SessionIds : Live(t)}) >= max_sessions
                /\ \A t \in SessionIds :
                      Live(t) => sessions[s].last_seen <= sessions[t].last_seen]_vars

\* A session that is gone never comes back, and one that stays keeps its ids and its
\* handshake.
SessionsOnlyGrow ==
    [][\A s \in SessionIds : s \in issued =>
          /\ sessions[s] = NoSession => sessions'[s] = NoSession
          /\ sessions[s] # NoSession /\ sessions'[s] # NoSession =>
                /\ sessions[s].seen \subseteq sessions'[s].seen
                /\ sessions[s].initialized => sessions'[s].initialized]_vars
=============================================================================
