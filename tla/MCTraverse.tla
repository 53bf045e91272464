------------------------------ MODULE MCTraverse ------------------------------
EXTENDS Traverse

(* Stored relations of the two members: a chain whose later nodes sort     *)
(* before the earlier ones, a star, a cycle with a relation of three       *)
(* endpoints one of which is outside the scope.                            *)
MCGraphSeq ==
  << <<<< <<1, 2>>, <<1, 4>>, <<4, 3>> >>, << <<1, 3>>, <<2, 5>>, <<3, 5>> >> >>,
    <<<< <<1, 4>>, <<1, 5>>, <<4, 2>>, <<5, 3>> >>, << <<2, 5>> >> >>,
    <<<< <<1, 3, 6>>, <<3, 3>> >>, << <<5, 4>>, <<3, 2, 5>>, <<4, 1>> >> >> >>
MCGraphs == ToSet(MCGraphSeq)
MCHidden == {<<2, 1>>}
=============================================================================
