----------------------------- MODULE MCZeitplan -----------------------------
(***************************************************************************)
(* Instance of the project schedule for TLC: three steps that can be       *)
(* connected in a circle.                                                  *)
(***************************************************************************)
EXTENDS Zeitplan

CONSTANTS a, b, c

Schritte == {a, b, c}
Keine == {}
Dreieck ==
    {[von |-> k[1], nach |-> k[2], art |-> "ende_anfang", versatz |-> 0] :
        k \in {<<a, b>>, <<b, c>>, <<c, a>>}}
=============================================================================
