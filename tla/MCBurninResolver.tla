---------------------------- MODULE MCBurninResolver ----------------------------
EXTENDS BurninResolver, TLC

\* quiet, dip to the tighter stop, stopped out, target, both in one candle
MCCandles == {<<-1, 1>>, <<-2, 0>>, <<0, 2>>, <<-2, 2>>}
MCEvidence == {<<TRUE, TRUE>>, <<FALSE, TRUE>>, <<TRUE, FALSE>>}
MCStops == {-1}
MCPrices == {1}
EventSymmetry == Permutations(Events)
MCStop0 == -2
=============================================================================
