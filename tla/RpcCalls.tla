------------------------------ MODULE RpcCalls -------------------------------
(***************************************************************************)
(* What a JSON-RPC connection promises the threads that call it, without   *)
(* queues, tables, channels or loops: a call gets an id of its own; it     *)
(* returns an answer only if the peer answered that very id; it returns    *)
(* an error of the connection only after the connection closed; no call    *)
(* begins on a closed connection.                                          *)
(***************************************************************************)
EXTENDS Integers

CONSTANTS
    Callers,   \* application threads
    MaxCalls,  \* bound: requests issued on the connection
    Timeouts   \* TRUE when calls have a deadline

VARIABLES
    open,      \* FALSE once the connection is closed
    issued,    \* number of ids handed out
    call,      \* id of each caller's call in progress, 0 when there is none
    result,    \* what each caller's last call returned
    served     \* ids the peer has answered

promises == <<open, issued, call, result, served>>

Init ==
    /\ open = TRUE
    /\ issued = 0
    /\ call = [c \in Callers |-> 0]
    /\ result = [c \in Callers |-> "none"]
    /\ served = {}

Begin(c) ==
    /\ open
    /\ call[c] = 0
    /\ issued < MaxCalls
    /\ issued' = issued + 1
    /\ call' = [call EXCEPT ![c] = issued + 1]
    /\ result' = [result EXCEPT ![c] = "none"]
    /\ UNCHANGED <<open, served>>

Refuse(c) ==
    /\ ~open
    /\ call[c] = 0
    /\ result' = [result EXCEPT ![c] = "closed"]
    /\ UNCHANGED <<open, issued, call, served>>

Serve(i) ==
    /\ i \in 1..issued
    /\ served' = served \cup {i}
    /\ UNCHANGED <<open, issued, call, result>>

Justified(c, reply) ==
    \/ reply = "answer" /\ call[c] \in served
    \/ reply \in {"closed", "transport"} /\ ~open
    \/ reply = "timeout" /\ Timeouts
    \/ reply = "full"

Return(c, reply) ==
    /\ call[c] # 0
    /\ Justified(c, reply)
    /\ call' = [call EXCEPT ![c] = 0]
    /\ result' = [result EXCEPT ![c] = reply]
    /\ UNCHANGED <<open, issued, served>>

Close ==
    /\ open
    /\ open' = FALSE
    /\ UNCHANGED <<issued, call, result, served>>

Errors == {"closed", "transport", "timeout", "full"}

Next ==
    \/ \E c \in Callers : Begin(c) \/ Refuse(c)
    \/ \E c \in Callers :
         \E reply \in {"answer"} \cup Errors : Return(c, reply)
    \/ \E i \in 1..MaxCalls : Serve(i)
    \/ Close

Spec == Init /\ [][Next]_promises

=============================================================================
