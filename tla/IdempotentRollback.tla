------------------------ MODULE IdempotentRollback ------------------------
(***************************************************************************)
(* What POST /actions/rollback of ops-gateway promises for one incident:   *)
(* a target is rolled back at most once, by the first call that gets       *)
(* there, and every call that is answered with a receipt is answered with  *)
(* that one.  Nothing is promised about a call that fails: its rollback    *)
(* may have been executed.                                                 *)
(***************************************************************************)
CONSTANTS Calls, Targets, Executors, None

VARIABLES
    kept,    \* kept[t]: the receipt of target t, or None
    asked,   \* asked[c]: the target call c is about, None before it arrives
    answer,  \* answer[c]: the receipt it was answered with, or None
    failed   \* the calls answered with an error
vars == <<kept, asked, answer, failed>>

Init ==
    /\ kept = [t \in Targets |-> None]
    /\ asked = [c \in Calls |-> None]
    /\ answer = [c \in Calls |-> None]
    /\ failed = {}

Open(c) == asked[c] # None /\ answer[c] = None /\ c \notin failed

Ask(c, t) ==
    /\ asked[c] = None
    /\ asked' = [asked EXCEPT ![c] = t]
    /\ UNCHANGED <<kept, answer, failed>>

Execute(c, by) ==
    /\ Open(c)
    /\ kept[asked[c]] = None
    /\ kept' = [kept EXCEPT ![asked[c]] = [id |-> c, executor |-> by]]
    /\ UNCHANGED <<asked, answer, failed>>

Answer(c) ==
    /\ Open(c)
    /\ kept[asked[c]] # None
    /\ answer' = [answer EXCEPT ![c] = kept[asked[c]]]
    /\ UNCHANGED <<kept, asked, failed>>

Fail(c) ==
    /\ Open(c)
    /\ failed' = failed \cup {c}
    /\ UNCHANGED <<kept, asked, answer>>

Next == \E c \in Calls :
    \/ \E t \in Targets : Ask(c, t)
    \/ \E by \in Executors : Execute(c, by)
    \/ Answer(c)
    \/ Fail(c)

Spec == Init /\ [][Next]_vars
=============================================================================
