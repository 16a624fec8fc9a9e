--------------------------- MODULE MCControlScripts ---------------------------
(***************************************************************************)
(* Containers for TLC: three pids, so that a start finds a free one beside *)
(* a server and another process; two polls, two upsets.                    *)
(***************************************************************************)
EXTENDS ControlScripts

=============================================================================
