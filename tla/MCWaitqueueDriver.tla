-------------------------- MODULE MCWaitqueueDriver --------------------------
(* Two readers and a few reads, both methods of initialising the queue.     *)
EXTENDS WaitqueueDriver

MCMethods == {"dynamic", "static"}
MCStatic  == {"static"}
=============================================================================
