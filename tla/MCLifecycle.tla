---------------------------- MODULE MCLifecycle ----------------------------
(***************************************************************************)
(* A small instance of module Lifecycle.                                   *)
(***************************************************************************)
EXTENDS Lifecycle

CONSTANTS r1, r2, r3
============================================================================
