-------------------------- MODULE MCSupermarketRT --------------------------
(* Instances of SupermarketRT for TLC. *)
EXTENDS SupermarketRT

CONSTANTS c1, c2, c3, s1, s2

Stop(s, w) == [at |-> s, limit |-> w]

\* The customers meet at s1 and have a second station before or after it, as
\* types A and B of Supermarkt.py do.  A limit of 0 makes a queue of one the
\* longest that is joined, so both outcomes of the length check happen.
MCRoute == [c \in Customers |->
  CASE c = c1 -> <<Stop(s1, 0), Stop(s2, 1)>>
    [] c = c2 -> <<Stop(s2, 0), Stop(s1, 0)>>
    [] c = c3 -> <<Stop(s1, 1)>>]
=============================================================================
