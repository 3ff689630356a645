------------------------------ MODULE MCGtcServe ------------------------------
(* A client, a proxy that is a client too, another proxy and the host, in a row. *)
EXTENDS GtcServe

CONSTANTS a, b, p, h, c1, r1, r2

\* Everything for h goes from a over b and p, later from a over p and b; the rest straight.
MCTable(n1, n2) ==
  [n \in {a, b, p, h} |-> [x \in {a, b, p, h} |->
     CASE x = h /\ n = a -> n1 [] x = h /\ n = n1 -> n2 [] OTHER -> x]]
MCRoutes   == <<MCTable(b, p), MCTable(p, b)>>
MCChunkLen == [c \in {c1} |-> 4]
MCWants    == [r \in {r1, r2} |-> [at |-> IF r = r1 THEN a ELSE b, chunk |-> c1, host |-> h]]
MCLists    == {[k \in 1 .. n |-> k] : n \in {0, 2, 4, 5}}
MCBitmaps  == UNION {[1 .. n -> BOOLEAN] : n \in 0 .. 6}
MCScenarios == {{r1, r2}, {"descriptors"}, {"bitmap"}}
=============================================================================
