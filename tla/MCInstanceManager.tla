------------------------- MODULE MCInstanceManager -------------------------
(* Instance of InstanceManager for TLC: two exchanges with a module factory *)
(* and one without.                                                         *)
EXTENDS InstanceManager, TLC

CONSTANTS i1, i2, bybit, binance, kraken, main

MCDefaultId == [e \in Exchanges |-> IF e = bybit THEN i1 ELSE i2]

\* What an object was configured with that nothing refers to any more is never
\* read again.
MCView ==
    <<instances, [m \in Modules |-> IF Fresh(m) THEN NoModule ELSE modules[m]],
      mutex, pc, call, new, toStart>>

=============================================================================
