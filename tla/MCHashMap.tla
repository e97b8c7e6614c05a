----------------------------- MODULE MCHashMap -----------------------------
(***************************************************************************)
(* Three strings in a table that starts with two slots: it is full at      *)
(* once, and second hashes that share factors with the capacity make it    *)
(* grow before that, and grow while it grows.                              *)
(***************************************************************************)
EXTENDS HashMap

CONSTANTS Firsts, Seconds

\* The strings are numbers, taken in the order of their hashes: they differ in
\* nothing else.  A second hash of 0 would leave a string only one slot, in which
\* another string may be at every capacity.
MCHashes ==
  {h \in [Keys -> [first : Firsts, second : Seconds \ {0}]] :
     \A k, l \in Keys : k < l =>
       /\ h[k].first <= h[l].first
       /\ h[k].first = h[l].first => h[k].second <= h[l].second}
=============================================================================
