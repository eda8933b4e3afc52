---------------------------- MODULE MCLifecycle ----------------------------
(* A process of a few descriptors and one client.                          *)
EXTENDS Lifecycle

\* Standard input, output and error are taken.
MCFds == 3..5
=============================================================================
