---------------------------- MODULE RetryContract ----------------------------
(***************************************************************************)
(* What Executable.execute promises the application, whatever nodes, books *)
(* and timers do: a request has at most one call outstanding, makes at     *)
(* most MaxAttempts of them, ends once, and reports an answer only if the  *)
(* call outstanding at that moment gave it.                                *)
(***************************************************************************)
EXTENDS Naturals

CONSTANTS Request, MaxAttempts, Pending, Answers, Failures

VARIABLES
    outcome,   \* Pending, or how the request ended
    calling,   \* requests with a call outstanding
    calls      \* calls made so far

contractVars == <<outcome, calling, calls>>

Init ==
    /\ outcome = [r \in Request |-> Pending]
    /\ calling = {}
    /\ calls = [r \in Request |-> 0]

Call(r) ==
    /\ outcome[r] = Pending /\ r \notin calling
    /\ calls[r] < MaxAttempts
    /\ calling' = calling \cup {r}
    /\ calls' = [calls EXCEPT ![r] = @ + 1]
    /\ UNCHANGED outcome

\* The call failed, or its answer asks for another attempt.
GiveUpCall(r) ==
    /\ r \in calling
    /\ calling' = calling \ {r}
    /\ UNCHANGED <<outcome, calls>>

End(r, how) ==
    /\ outcome[r] = Pending
    /\ how \in Answers => r \in calling
    /\ outcome' = [outcome EXCEPT ![r] = how]
    /\ calling' = calling \ {r}
    /\ UNCHANGED calls

Next == \E r \in Request :
    Call(r) \/ GiveUpCall(r) \/ \E how \in Answers \cup Failures : End(r, how)

Spec == Init /\ [][Next]_contractVars
=============================================================================
