----------------------------- MODULE MCMemacPost -----------------------------
(* The wiring of the queues, with the Gray code of memac_util_pkg, for TLC. *)
EXTENDS MemacPost, TLC, FiniteSetsExt

CONSTANT DEPTH_LOG2

Util == INSTANCE MemacUtil

MCDepth == 2^DEPTH_LOG2
MCCode  == Util!Words(DEPTH_LOG2)

\* The function [k \in S |-> f(k)] as a table that TLC evaluates once.
Tabulate(f(_), S) == FoldSet(LAMBDA k, table : table @@ (k :> f(k)), <<>>, S)

GrayOf(k) == CHOOSE c \in MCCode :
               c = Util!bin2gray(Util!to_unsigned(k, DEPTH_LOG2), DEPTH_LOG2)
BinOf(c) == CHOOSE k \in 0 .. MCDepth-1 :
              Util!to_unsigned(k, DEPTH_LOG2) = Util!gray2bin(c, DEPTH_LOG2)

MCGray  == Tabulate(GrayOf, 0 .. MCDepth-1)
MCBin   == Tabulate(BinOf, MCCode)
MCMix(p, q) == Util!InFlight(p, q, DEPTH_LOG2)

Slow == {0, 1}
=============================================================================
