--------------------------- MODULE MCHedgeSizing ---------------------------
(* From November 2026 (the 1st is a Sunday) to the following May; the job  *)
(* runs on the days around the first two expiries.                         *)
EXTENDS HedgeSizing

MCFirstOfMonth == <<0, 30, 61, 92, 120, 151, 181>>

Put(strike, dte, delta, bid, ask) ==
  [strike |-> strike, dte |-> dte, delta |-> delta, standard |-> TRUE, bid |-> bid, ask |-> ask]
Usable ==
  {{Put(700, 30, 31, None, 6), Put(690, 30, 25, 4, 5), Put(710, 45, 40, 9, 9)},
   {Put(700, 30, 35, 5, 5), Put(690, 45, 25, 4, 5), Put(600, 40, None, 1, 1)},
   {[Put(700, 31, 30, 5, 6) EXCEPT !.standard = FALSE], Put(800, 31, 90, 90, 110)}}
Useless ==
  {{}, {Put(700, 29, 30, 5, 6), Put(700, 46, 30, 5, 6)}, {Put(700, 31, 30, 0, 6)}}
Market(chain, spy, settles, returns) ==
  [chain |-> chain, spy |-> spy, settles |-> settles, returns |-> returns, converges |-> TRUE]
MCMarkets ==
  {Market(c, 750, s, 60) : c \in Usable, s \in {<<15, 20>>, <<20, 15>>, <<15>>}}
  \cup {Market(c, 750, <<18, 18>>, 120) : c \in Useless}
  \cup {Market(c, None, <<18, 18>>, 120) : c \in Usable}
=============================================================================
