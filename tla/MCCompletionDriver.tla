-------------------------- MODULE MCCompletionDriver --------------------------
(* Two readers and a few reads, both methods of initialising the completion. *)
EXTENDS CompletionDriver

MCMethods == {"dynamic", "static"}
=============================================================================
