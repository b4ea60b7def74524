------------------------------- MODULE MCI18n -------------------------------
(***************************************************************************)
(* Two bundles over two packages.  The package p has strings for a country *)
(* (with plurals, some missing), its language and the default locale; the  *)
(* package q for the language alone.                                       *)
(***************************************************************************)
EXTENDS I18n

CONSTANTS p, q, it_CH, it, en, cats, hello, bye

Countries == [l \in Locales |-> IF l = it_CH THEN it ELSE l]

Files ==
  [t \in Tables |->
     CASE t = <<p, it_CH>> -> [k \in {cats, hello} |-> IF k = cats THEN {"one"} ELSE {Plain}]
       [] t = <<p, it>>    -> [k \in {cats, hello} |-> IF k = cats THEN {"other"} ELSE {Plain}]
       [] t = <<p, en>>    -> [k \in {cats} |-> {"one", "other"}]
       [] t = <<q, it>>    -> [k \in {cats} |-> {}]
       [] OTHER            -> None]

(* The classifier of the country knows no form for 1, that of the language *)
(* calls every number other.                                               *)
Classes ==
  [l \in Classified |-> [n \in Quantities |->
     CASE l = it_CH /\ n = 1 -> None
       [] l = it_CH          -> "one"
       [] OTHER              -> "other"]]
=============================================================================
