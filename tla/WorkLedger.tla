----------------------------- MODULE WorkLedger -----------------------------
(***************************************************************************)
(* What the persistent queue promises to the code that requests work, with *)
(* rows, attempts and schedules left out: a key is requested or not, and   *)
(* every loop is executing at most one key.  A request is executed by one  *)
(* loop; an execution comes from a request of its own; a second request    *)
(* made while the first is being executed is a request again.              *)
(***************************************************************************)
CONSTANTS Worker, Key, NoKey

VARIABLES
  requested,  \* keys somebody wants executed
  executing   \* what each loop executes, NoKey for nothing

vars == <<requested, executing>>

Init ==
  /\ requested = {}
  /\ executing = [w \in Worker |-> NoKey]

Request(k) ==
  /\ k \notin requested
  /\ requested' = requested \cup {k}
  /\ UNCHANGED executing

Take(w, k) ==
  /\ executing[w] = NoKey
  /\ k \in requested
  /\ requested' = requested \ {k}
  /\ executing' = [executing EXCEPT ![w] = k]

(* The execution is over: done, given up, or lost with its process.         *)
End(w) ==
  /\ executing[w] # NoKey
  /\ executing' = [executing EXCEPT ![w] = NoKey]
  /\ UNCHANGED requested

(* The execution failed and is requested once more.                         *)
Retry(w) ==
  /\ executing[w] # NoKey
  /\ executing[w] \notin requested
  /\ requested' = requested \cup {executing[w]}
  /\ executing' = [executing EXCEPT ![w] = NoKey]

(* What k is about is deleted: nobody wants it any more.                    *)
Withdraw(k) ==
  /\ requested' = requested \ {k}
  /\ executing' = [w \in Worker |-> IF executing[w] = k THEN NoKey ELSE executing[w]]

Next ==
  \/ \E k \in Key : Request(k) \/ Withdraw(k)
  \/ \E w \in Worker : End(w) \/ Retry(w) \/ \E k \in Key : Take(w, k)

Spec == Init /\ [][Next]_vars

==============================================================================
