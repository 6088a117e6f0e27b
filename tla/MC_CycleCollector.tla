------------------------- MODULE MC_CycleCollector -------------------------
(* Two objects with destructors and a weak map.  Each object may own       *)
(* itself, one may own the other, and the map may hold that one by the     *)
(* other as its key.                                                       *)
EXTENDS CycleCollector

CONSTANTS a, b, m

AllObjects == {a, b, m}
Properties == {<<a, a>>, <<b, b>>, <<a, b>>}
Ephemerons == {<<m, b, a>>}
============================================================================
