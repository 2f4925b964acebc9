----------------------------- MODULE MCCodegen -----------------------------
(***************************************************************************)
(* A small instance of module Codegen: a plugin with input and output that *)
(* are longer than a pipe, or a runner whose handle two goroutines share.  *)
(***************************************************************************)
EXTENDS Codegen

CONSTANTS c1, c2
=============================================================================
