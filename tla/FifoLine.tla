------------------------------ MODULE FifoLine ------------------------------
(***************************************************************************)
(* What the lease queue promises its callers, without lanes, tickets,      *)
(* locks or wake-ups: each key has a bounded line, nobody is admitted      *)
(* while somebody who joined the same line earlier is still in it, and     *)
(* whoever gives up or is done leaves without disturbing the order.        *)
(***************************************************************************)
EXTENDS Naturals, FiniteSets

CONSTANTS Threads, Keys, NoKey, Depth

VARIABLES
    line,    \* the line each caller stands in
    ahead,   \* the callers that joined its line earlier and are still there
    status   \* "out", "waiting", "admitted" or "leaving"

lineVars == <<line, ahead, status>>

InLine(k) == {u \in Threads : line[u] = k}

Init ==
    /\ line = [t \in Threads |-> NoKey]
    /\ ahead = [t \in Threads |-> {}]
    /\ status = [t \in Threads |-> "out"]

Join(t, k) ==
    /\ status[t] = "out"
    /\ Cardinality(InLine(k)) < Depth
    /\ line' = [line EXCEPT ![t] = k]
    /\ ahead' = [ahead EXCEPT ![t] = InLine(k)]
    /\ status' = [status EXCEPT ![t] = "waiting"]

Admit(t) ==
    /\ status[t] = "waiting"
    /\ ahead[t] = {}
    /\ status' = [status EXCEPT ![t] = "admitted"]
    /\ UNCHANGED <<line, ahead>>

GiveUp(t) ==
    /\ status[t] \in {"waiting", "admitted"}
    /\ status' = [status EXCEPT ![t] = "leaving"]
    /\ UNCHANGED <<line, ahead>>

Leave(t) ==
    /\ status[t] \in {"admitted", "leaving"}
    /\ line' = [line EXCEPT ![t] = NoKey]
    /\ ahead' = [u \in Threads |-> IF u = t THEN {} ELSE ahead[u] \ {t}]
    /\ status' = [status EXCEPT ![t] = "out"]

Next ==
    \E t \in Threads :
        \/ \E k \in Keys : Join(t, k)
        \/ Admit(t)
        \/ GiveUp(t)
        \/ Leave(t)

Spec == Init /\ [][Next]_lineVars
=============================================================================
