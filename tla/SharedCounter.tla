---------------------------- MODULE SharedCounter ----------------------------
(***************************************************************************)
(* What the kernel-thread drivers promise of dummy_global_variable: threads *)
(* become active and stop being active; each update adds exactly one to the *)
(* value (an unsigned integer that wraps); once the module is unloaded no   *)
(* thread is active any more and the value never changes again.             *)
(***************************************************************************)
EXTENDS Naturals

CONSTANTS Threads,  \* the threads of the module
          Modulus   \* number of values of the variable, 2^64 in the code

VARIABLES value, active, loaded

vars == <<value, active, loaded>>

Succ(v) == IF v = Modulus - 1 THEN 0 ELSE v + 1

Init == value = 0 /\ active = {} /\ loaded = TRUE

Begin(t) == /\ loaded /\ t \notin active
            /\ active' = active \cup {t}
            /\ UNCHANGED <<value, loaded>>

Update == /\ loaded /\ active # {}
          /\ value' = Succ(value)
          /\ UNCHANGED <<active, loaded>>

Finish(t) == /\ loaded /\ t \in active
             /\ active' = active \ {t}
             /\ UNCHANGED <<value, loaded>>

Unload == /\ loaded /\ active = {}
          /\ loaded' = FALSE
          /\ UNCHANGED <<value, active>>

Next == Update \/ Unload \/ \E t \in Threads : Begin(t) \/ Finish(t)

Spec == Init /\ [][Next]_vars
=============================================================================
