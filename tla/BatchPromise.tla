---------------------------- MODULE BatchPromise ----------------------------
(***************************************************************************)
(* What execute_all of the orchestrator promises: the task runs once for   *)
(* every input, in any order and side by side; only then the call returns, *)
(* with the outputs in the order of the inputs when all of them are well,  *)
(* and with an error otherwise.  Refused calls run nothing.                *)
(***************************************************************************)
VARIABLES
    ran,      \* what the task made of each input: "no" before it ran
    answer    \* nothing yet, an error, or the outputs

promiseVars == <<ran, answer>>

Nothing     == [is |-> "none", outputs |-> <<>>]
Error       == [is |-> "error", outputs |-> <<>>]
Outputs(s)  == [is |-> "ok", outputs |-> s]

PromiseInit == answer = Nothing /\ ran \in [DOMAIN ran -> {"no"}]

RunTask(i) ==
    /\ ran[i] = "no" /\ answer = Nothing
    /\ \E outcome \in {"ok", "error"} : ran' = [ran EXCEPT ![i] = outcome]
    /\ UNCHANGED answer

Refuse ==
    /\ answer = Nothing /\ \A i \in DOMAIN ran : ran[i] = "no"
    /\ answer' = Error /\ UNCHANGED ran

Answer ==
    /\ answer = Nothing /\ \A i \in DOMAIN ran : ran[i] # "no"
    /\ answer' = IF \E i \in DOMAIN ran : ran[i] = "error"
                   THEN Error ELSE Outputs([i \in DOMAIN ran |-> i])
    /\ UNCHANGED ran

PromiseNext == (\E i \in DOMAIN ran : RunTask(i)) \/ Refuse \/ Answer

BatchPromiseSpec == PromiseInit /\ [][PromiseNext]_promiseVars
=============================================================================
