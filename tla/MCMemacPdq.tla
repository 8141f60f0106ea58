----------------------------- MODULE MCMemacPdq ------------------------------
(* memac_pdq with the Gray code of memac_util_pkg, for TLC. *)
EXTENDS MemacPdq, TLC, FiniteSetsExt

CONSTANT DEPTH_LOG2

Util == INSTANCE MemacUtil

MCDepth == 2^DEPTH_LOG2
MCCode  == Util!Words(DEPTH_LOG2)

\* The function [k \in S |-> f(k)] as a table that TLC evaluates once.
Tabulate(f(_), S) == FoldSet(LAMBDA k, table : table @@ (k :> f(k)), <<>>, S)

GrayOf(k) == CHOOSE c \in MCCode :
               c = Util!bin2gray(Util!to_unsigned(k, DEPTH_LOG2), DEPTH_LOG2)
BinOf(c) == CHOOSE k \in 0 .. MCDepth-1 :
              Util!to_unsigned(k, DEPTH_LOG2) = Util!gray2bin(c, DEPTH_LOG2)

MCGray  == Tabulate(GrayOf, 0 .. MCDepth-1)
MCBin   == Tabulate(BinOf, MCCode)
MCMix(p, q) == Util!InFlight(p, q, DEPTH_LOG2)
=============================================================================
