---------------------------- MODULE MCRsmObserver ----------------------------
(***************************************************************************)
(* The observed runtime with the images of MCRsmRuntime.                   *)
(***************************************************************************)
EXTENDS RsmObserver, MCRsmRuntime
==============================================================================
