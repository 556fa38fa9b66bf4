---------------------------- MODULE MCHistoryCheck ----------------------------
EXTENDS HistoryCheck

\* A history replays on the code that made it; code of revision 2 keeps the
\* commands of revision 1 behind a version check, not the other way round.
ReplayableForward == {<<1, 1>>, <<1, 2>>, <<2, 2>>}

\* Two executions of two types, in either order, or of one type, alike or not.
MCFeatures ==
  {[type |-> <<2, 1>>, input |-> <<1, 1>>],
   [type |-> <<1, 2>>, input |-> <<1, 2>>],
   [type |-> <<1, 1>>, input |-> <<1, 1>>],
   [type |-> <<1, 1>>, input |-> <<1, 2>>]}
===============================================================================
