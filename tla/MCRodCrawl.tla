----------------------------- MODULE MCRodCrawl -----------------------------
(***************************************************************************)
(* A site of five pages for the headless engine: the seed links to two     *)
(* pages, one of them under two spellings, both link to a third and one of *)
(* them to a fourth; "ext" is out of scope and "bad" does not parse.       *)
(***************************************************************************)
EXTENDS RodCrawl

MCUrl == {"s", "a", "a#x", "b", "c", "d", "ext", "bad"}
MCPage == {"s", "a", "b", "c", "d", "ext"}
MCNoPage == "none"
MCInScope == MCUrl \ {"ext"}
MCNormalize ==
  [u \in MCUrl |-> CASE u = "a#x" -> "a" [] u = "bad" -> MCNoPage [] OTHER -> u]
MCLinks ==
  [u \in MCUrl |->
     CASE u = "s"            -> <<"a#x", "a", "b">>
       [] u \in {"a", "a#x"} -> <<"ext", "bad", "c">>
       [] u = "b"            -> <<"c", "s", "d">>
       [] OTHER              -> <<>>]
=============================================================================
