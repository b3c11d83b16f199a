--------------------------- MODULE MCEdgarFilings ---------------------------
(* Small instances of EdgarFilings. A unit is a month: report dates are 3  *)
(* and 6, the tolerance of 45 days is 1. Every filing is the ordinary one, *)
(* all concepts at both dates, with the facts of up to two concepts        *)
(* replaced: missing, one date, a zero, just after the date, just before,  *)
(* both with a zero among them, or tagged otherwise; and there are         *)
(* companies that file next to nothing.                                    *)
EXTENDS EdgarFilings

Fact(S, v) == [d \in S |-> v]
Ordinary == <<Fact({3, 6}, 2)>>
Replacements ==
  {<<>>, <<Fact({6}, 2)>>, <<Fact({3, 6}, 0)>>, <<Fact({4, 7}, 3)>>, <<Fact({2}, -2)>>,
   <<Fact({8}, 1)>>, <<[Fact({2, 4}, 3) EXCEPT ![2] = 0]>>,
   <<Fact({}, 0), Fact({1, 5, 7}, 4)>>}
Ordinarily == [c \in Concepts |-> IF c \in {"shares_dei", "liabilities_current"} THEN <<>> ELSE Ordinary]
MCFilings ==
  {[c \in Concepts |-> IF c = a THEN x ELSE IF c = b THEN y ELSE Ordinarily[c]] :
     a \in Concepts, b \in Concepts, x \in Replacements, y \in Replacements}
  \cup {[c \in Concepts |-> IF c \in S THEN Ordinary ELSE <<>>] : S \in {{}, {"eps"}, {"shares_dei"}}}
MCPriceIndexes == {None, Fact({}, 1), Fact({1, 2}, 5), Fact({4}, 5)}
=============================================================================
