---------------------------- MODULE MCTransfers ----------------------------
(***************************************************************************)
(* A small instance of Transfers: two peers, two files of three chunks, a  *)
(* pipeline of one.  Each scenario is a plan, the peers' first moods and   *)
(* the faults that may happen in it.                                       *)
(***************************************************************************)
EXTENDS Transfers

Faults(S) == [b \in Fault |-> IF b \in S THEN 1 ELSE 0]
Honest == [p \in Peers |-> "honest"]

Plan(order, playing, present) ==
    [order |-> order, playing |-> playing, present |-> present, play |-> 0, idle |-> {}]
Solo == Plan(<<1>>, None, {1})
Pair == Plan(<<1>>, 1, {1, 2})
Both == Plan(<<2, 1>>, None, {1})

MCPlans ==
    {Plan(<<>>, None, {1}), [Solo EXCEPT !.idle = {1}], Solo,
     [Pair EXCEPT !.play = 2], Plan(<<1>>, 1, {2})}

Scene(m, o, b) ==
    [mood |-> m, offer |-> o, disk |-> [f \in Files |-> {None}], left |-> b]
Partial(s) == [s EXCEPT !.disk = [f \in Files |-> {Size - 1}]]

MCScenarios ==
    {Scene(Honest, Solo, [Faults({}) EXCEPT !["drop"] = 2]),
     Scene(Honest, Solo, [Faults({"drop"}) EXCEPT !["late"] = 2]),
     Scene(Honest, Solo, Faults({"link", "close"})),
     Scene(Honest, Solo, Faults({"restart", "drop"})),
     Scene(Honest, Solo, [Faults({}) EXCEPT !["plan"] = 2]),
     Scene(Honest, Pair, Faults({"drop"})),
     Scene(Honest, Pair, Faults({"open", "close"})),
     Scene(Honest, [Pair EXCEPT !.playing = None], Faults({"sulk", "late"})),
     Scene(Honest, Solo, Faults({"lose", "close"})),
     Scene([Honest EXCEPT ![1] = "wrong"], Pair, Faults({"found"})),
     Scene([Honest EXCEPT ![2] = "never"], Pair, Faults({"plan"})),
     Scene(Honest, Both, Faults({"late", "found"})),
     Scene(Honest, Both, Faults({"sulk"})),
     Partial(Scene(Honest, Both, Faults({"drop"}))),
     Scene(Honest, [Both EXCEPT !.present = {1, 2}], Faults({}))}
=============================================================================
