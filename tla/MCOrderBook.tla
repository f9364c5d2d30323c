---------------------------- MODULE MCOrderBook ----------------------------
(* A small instance: orders, a deleted one, levels that cannot be read.      *)
EXTENDS OrderBook, TLC

a == <<1, 1>>
b == <<2, 1>>
deleted == <<1, 0>>
short == <<3>>
long == <<3, 1, 0>>
garbled == <<Garbage, 1>>

MCUpdates == {
    [bids |-> <<a, b, deleted>>, asks |-> <<garbled, a>>],
    [bids |-> <<short>>, asks |-> <<long>>]}

MCSymmetry == Permutations(Loops)

=============================================================================
