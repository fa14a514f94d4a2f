----------------------------- MODULE MCFrontier -----------------------------
(***************************************************************************)
(* A small site for the frontier protocol.  Four pages form a diamond with *)
(* a cycle back to the seed; "a#x" is a second spelling of "a", "ext" is   *)
(* outside the scope and "bad" does not parse.                             *)
(***************************************************************************)
EXTENDS FrontierClient

MCUrl == {"s", "a", "a#x", "b", "c", "ext", "bad"}
MCPage == {"s", "a", "b", "c", "ext"}
MCNoPage == "none"
MCInScope == MCUrl \ {"ext"}

MCNormalize ==
  [u \in MCUrl |-> CASE u = "a#x" -> "a" [] u = "bad" -> MCNoPage [] OTHER -> u]

MCLinks ==
  [u \in MCUrl |->
     CASE u = "s"           -> <<"a#x", "a", "bad", "b">>
       [] u \in {"a", "a#x"} -> <<"ext", "c", "s">>
       [] u = "b"           -> <<"a", "c">>
       [] OTHER             -> <<>>]
=============================================================================
