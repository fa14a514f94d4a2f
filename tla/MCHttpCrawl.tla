---------------------------- MODULE MCHttpCrawl ----------------------------
(***************************************************************************)
(* Sites for the net/http backend.  MC: six pages, the seed links to two   *)
(* of them, one under two spellings, both link to a third and each to one  *)
(* more; "ext" is out of scope and "bad" does not parse.  Shadow: "d" is   *)
(* two hops from the seed by way of "a" and three by way of "b" and "c",   *)
(* and "e" is three hops away.                                             *)
(***************************************************************************)
EXTENDS HttpCrawl

MCUrl == {"s", "a", "a#x", "b", "c", "d", "e", "ext", "bad"}
MCPage == {"s", "a", "b", "c", "d", "e", "ext"}
MCNoPage == "none"
MCInScope == MCUrl \ {"ext"}
MCNormalize ==
  [u \in MCUrl |-> CASE u = "a#x" -> "a" [] u = "bad" -> MCNoPage [] OTHER -> u]
MCLinks ==
  [u \in MCUrl |->
     CASE u = "s"            -> <<"a#x", "a", "b">>
       [] u \in {"a", "a#x"} -> <<"ext", "bad", "c", "e">>
       [] u = "b"            -> <<"c", "s", "d">>
       [] OTHER              -> <<>>]

ShadowUrl == {"s", "a", "b", "c", "d", "e"}
ShadowPage == ShadowUrl
ShadowInScope == ShadowUrl
ShadowNormalize == [u \in ShadowUrl |-> u]
ShadowLinks ==
  [u \in ShadowUrl |->
     CASE u = "s" -> <<"a", "b">>
       [] u = "a" -> <<"d">>
       [] u = "b" -> <<"c">>
       [] u = "c" -> <<"d">>
       [] u = "d" -> <<"e">>
       [] OTHER   -> <<>>]
=============================================================================
