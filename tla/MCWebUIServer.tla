---------------------------- MODULE MCWebUIServer ----------------------------
(***************************************************************************)
(* Files that fit together, or not, and one that outgrows the cache.       *)
(***************************************************************************)
EXTENDS WebUIServer

CONSTANTS index, app, logo

MCSize ==
  [f \in {index, app, logo} \X (1..3) |->
     CASE f = <<app, 1>> -> 2
       [] f = <<app, 3>> -> 4
       [] OTHER          -> 1]
=============================================================================
