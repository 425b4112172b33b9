------------------------------ MODULE TaskLife ------------------------------
(***************************************************************************)
(* What a task manager of mars promises about the tasks it is given,       *)
(* without threads, sockets or messages: a task waits, is sent, and is     *)
(* finished; a network error sends it back to waiting at most RetryCount   *)
(* times, and a task that was finished is never sent again.                *)
(***************************************************************************)
EXTENDS Naturals

CONSTANTS Task, RetryCount

VARIABLES
    life,       \* task -> not listed ("idle"), listed ("waiting"), or on the wire ("sent")
    left        \* task -> how often it may still go back to waiting

lifeVars == <<life, left>>

Init ==
    /\ life = [t \in Task |-> "idle"]
    /\ left = [t \in Task |-> 0]

Start(t) ==
    /\ life[t] = "idle"
    /\ life' = [life EXCEPT ![t] = "waiting"]
    /\ left' = [left EXCEPT ![t] = RetryCount]

Sent(t) ==
    /\ life[t] = "waiting"
    /\ life' = [life EXCEPT ![t] = "sent"]
    /\ UNCHANGED left

(* The tasks of S were sent in vain and wait again; those of T are done:   *)
(* answered, timed out, out of retries, or never sent at all.              *)
Settle(S, T) ==
    /\ \A t \in S : life[t] = "sent" /\ left[t] > 0
    /\ \A t \in T : life[t] # "idle"
    /\ life' = [t \in Task |-> IF t \in T THEN "idle" ELSE IF t \in S THEN "waiting" ELSE life[t]]
    /\ left' = [t \in Task |-> IF t \in T THEN 0 ELSE IF t \in S THEN left[t] - 1 ELSE left[t]]

Next ==
    \/ \E t \in Task : Start(t) \/ Sent(t)
    \/ \E S, T \in SUBSET Task : Settle(S, T)

Spec == Init /\ [][Next]_lifeVars
=============================================================================
