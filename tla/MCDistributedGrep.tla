-------------------------- MODULE MCDistributedGrep --------------------------
(* Values of the constants of DistributedGrep for TLC.                      *)
EXTENDS DistributedGrep

\* All texts up to two characters, and longer ones: a line that matches on
\* both sides of one that does not, line ends with a carriage return, an empty
\* last chunk, a last chunk of one empty line.
MatchEmptyMatch == <<"x", "LF", "LF", "x">>
SomeTexts ==
    {t \in Texts : Len(t) <= 2}
        \cup {MatchEmptyMatch, <<"x", "CR", "LF", "x", "CR", "LF">>,
              <<"x", "LF", "x", "LF", "LF">>, <<"x", "LF", "LF">>}
SomeTroubled == {MatchEmptyMatch}

OnlyNothing == {NothingFound}
SomeQuorums == {1, 3}
WithRetry   == {TRUE}
=============================================================================
