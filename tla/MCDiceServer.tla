---------------------------- MODULE MCDiceServer ----------------------------
(* DiceServer for TLC: texts on both sides of every bound of the handlers, *)
(* absent, without a number, with one followed by a letter, too long for   *)
(* an int, and long but for zeros in front.                                *)
EXTENDS DiceServer

P(text, number) == [text |-> text, number |-> number]

Nothing == P(<<>>, NoNumber)
Junk    == P(<<LETTER, 3>>, NoNumber)
Long    == P(<<9, 9, 9, 9, 9, 9, 9, 9, 9, 9, 9>>, NoNumber)
Zeros   == P(<<0, 0, 0, 0, 0, 0, 0, 0, 0, 2, 0>>, 20)

MCSides == {Nothing, Junk, Long, Zeros, P(<<0>>, 0), P(<<1>>, 1),
            P(<<MINUS, 5>>, -5), P(<<5, 0, 1, LETTER>>, 501),
            P(<<1, 0, 0, 1>>, 1001)}

MCDelays == {Nothing, P(<<0>>, 0), P(<<2, LETTER>>, 2), P(<<6, 1>>, 61)}

R(targets, sidess, delays) ==
  [target : targets, sides : sidess, delay : delays]

MCRequests ==
  R({"GET /", "GET /rolldice/error", "POST /rolldice", "other"},
    {Nothing}, {Nothing})
  \cup R({"GET /rolldice", "GET /rolldice/big"}, MCSides, {Nothing})
  \cup R({"GET /rolldice/slow"}, {Nothing, P(<<0>>, 0), P(<<1>>, 1)}, MCDelays)

MCRand == {0, 999, 2147483647}
=============================================================================
