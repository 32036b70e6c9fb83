---------------------------- MODULE MCSessionSync ---------------------------
(* Small instances of SessionSync.                                         *)
EXTENDS SessionSync

CONSTANTS u1, u2, c1, c1b, c1r, c2, bad, e1, e1r, e2, f1, f1r, f2, ticker, manual

(* c1 and c1b are two revisions of u1 on one interface, c1r names another, *)
(* bad is refused by the validators and names c1's.                        *)
MCIfaceOf ==
  [c \in Cfgs |-> CASE c \in {c1, c1b, bad} -> e1 [] c = c1r -> e1r [] c = c2 -> e2]

MCFileOf ==
  [i \in Ifaces |-> CASE i = e1 -> f1 [] i = e1r -> f1r [] i = e2 -> f2]

MCCfgOf == [u \in Sessions |-> IF u = u1 THEN Cfgs \ {c2} ELSE {c2}]

MCProbed == {c1, c2} \cap Cfgs

MCValid == Cfgs \ {bad}

(* The instances give every session names of its own.                      *)
ASSUME NamesAssumption == UniqueNames
=============================================================================
