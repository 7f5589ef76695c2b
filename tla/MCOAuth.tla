------------------------------ MODULE MCOAuth ------------------------------
(* Two tabs of one browser and one tab of another, for TLC.                *)
EXTENDS OAuth, TLC

CONSTANTS b1, b2, t1, t2, t3, g1, g2

TwoBrowsers == {b1, b2}
ThreeTabs == {t1, t2, t3}
TwoAgents == {g1, g2}
Symmetry == Permutations({t1, t2}) \cup Permutations({g1, g2})
BrowserOfTab == [t \in Tabs |-> IF t = t3 THEN b2 ELSE b1]
=============================================================================
