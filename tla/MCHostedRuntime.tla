--------------------------- MODULE MCHostedRuntime ---------------------------
(* One supervisor, three connections, up to three answers left in the pipe. *)
EXTENDS HostedRuntime
==============================================================================
