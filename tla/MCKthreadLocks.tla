---------------------------- MODULE MCKthreadLocks ----------------------------
(* Two threads, a variable of two bits, all the drivers.                    *)
EXTENDS KthreadLocks

MCDrivers  == {"kthread", "mutex", "spinlock", "rwlock", "atomic"}
=============================================================================
