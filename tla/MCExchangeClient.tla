-------------------------- MODULE MCExchangeClient --------------------------
(***************************************************************************)
(* ExchangeClient for TLC.  No definition tells one pair from another, so  *)
(* the pairs are interchangeable in runs that check no liveness property.  *)
(***************************************************************************)
EXTENDS ExchangeClient, TLC

CONSTANTS btc, eth

MCSymbols  == {btc, eth}
MCSymmetry == Permutations(MCSymbols)

=============================================================================
