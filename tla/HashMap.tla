------------------------------ MODULE HashMap ------------------------------
(***************************************************************************)
(* util/container/hashMap.c: get, put and set, with the growth that calls  *)
(* set for every old entry and may need to grow again while it does.       *)
(*                                                                         *)
(* tables is the table (last) behind those that calls of put or set, one   *)
(* inside the other, are emptying into it: oldKeys, oldValues and idx of   *)
(* each.  Strings are not owned and never taken out.  A string is what its *)
(* two hashes are: "first" is djb2xor and "second" is djb2add + 1, both    *)
(* 64-bit.  A capacity is a power of two, so wrapping around at 64 bits    *)
(* leaves the remainders as they are.                                      *)
(***************************************************************************)
EXTENDS Naturals, Sequences, FiniteSets

CONSTANTS
  Keys, Values, NULL,
  Unset,             \* what malloc leaves in values
  InitCapacity,      \* PTR_VECTOR_INIT_CAPACITY
  Hashes             \* ways the strings may hash

HashPair == [first : Nat, second : Nat]

ASSUME HashMapConstants ==
  /\ NULL \notin Keys \cup Values
  /\ Unset \notin Values \cup {NULL}
  /\ NULL \notin {"inserted", "exists", "void"}
  /\ InitCapacity \in Nat \ {0}
  /\ Hashes \subseteq [Keys -> HashPair]

VARIABLES hashes, tables, call, result
mapVars == <<hashes, tables, call, result>>

-----------------------------------------------------------------------------
\* Double hashing

\* idx after n turns of the probing loop.
Slot(hash, capacity, n) == (hash.first + n * hash.second) % capacity

\* The loop gets to its n-th turn: no slot before is free or has the string,
\* and idx has not come back to where it began.
Walk(elements, capacity, s, hash, n) ==
  /\ \A m \in 0..(n - 1) : elements[Slot(hash, capacity, m)] \notin {NULL, s}
  /\ \A m \in 1..n : Slot(hash, capacity, m) # Slot(hash, capacity, 0)

\* The loop stops at idx = i with a free slot, or with the string.
StopsAt(elements, capacity, s, hash, i) ==
  \E n \in 0..(capacity - 1) :
    /\ Walk(elements, capacity, s, hash, n)
    /\ i = Slot(hash, capacity, n)
    /\ elements[i] \in {NULL, s}

\* The loop ends because idx came back to its start: an unavoidable collision.
ComesBack(elements, capacity, s, hash) ==
  \E n \in 0..(capacity - 1) :
    /\ Walk(elements, capacity, s, hash, n)
    /\ elements[Slot(hash, capacity, n)] \notin {NULL, s}
    /\ Slot(hash, capacity, n + 1) = Slot(hash, capacity, 0)

-----------------------------------------------------------------------------

Calls ==
  [name : {"put", "set"}, key : Keys, data : Values] \cup [name : {"get"}, key : Keys, data : {NULL}]

NewTable(capacity) ==
  [capacity |-> capacity, size |-> 0, at |-> 0,
   keys   |-> [i \in 0..(capacity - 1) |-> NULL],
   values |-> [i \in 0..(capacity - 1) |-> Unset]]

MapInit ==
  /\ hashes \in Hashes
  /\ tables = <<NewTable(InitCapacity)>>
  /\ call = NULL
  /\ result = "void"

Last == Len(tables)
Map == tables[Last]
Old == tables[Last - 1]
Growing == Last > 1

\* The call being worked on: while an old table is emptied, a set of its entry.
Working == call # NULL /\ (Growing => Old.at < Old.capacity /\ Old.keys[Old.at] # NULL)
Current == IF Growing
           THEN [name |-> "set", key |-> Old.keys[Old.at], data |-> Old.values[Old.at]]
           ELSE call

\* The search of Current's key.
FindsAt(i) == StopsAt(Map.keys, Map.capacity, Current.key, hashes[Current.key], i)
Collides == ComesBack(Map.keys, Map.capacity, Current.key, hashes[Current.key])

Ask == call = NULL /\ call' \in Calls /\ result' = "void" /\ UNCHANGED <<hashes, tables>>

\* What is left in the table when Current is done, and who hears of it.
Return(table, value) ==
  IF Growing
  THEN /\ tables' = [tables EXCEPT ![Last] = table, ![Last - 1].at = @ + 1]
       /\ UNCHANGED <<call, result>>
  ELSE /\ tables' = [tables EXCEPT ![Last] = table]
       /\ call' = NULL
       /\ result' = value

GetFound ==
  /\ Working /\ Current.name = "get"
  /\ \E i \in 0..(Map.capacity - 1) :
       FindsAt(i) /\ Map.keys[i] # NULL /\ Return(Map, Map.values[i])
  /\ UNCHANGED hashes

GetMissing ==
  /\ Working /\ Current.name = "get"
  /\ Collides \/ \E i \in 0..(Map.capacity - 1) : FindsAt(i) /\ Map.keys[i] = NULL
  /\ Return(Map, NULL)
  /\ UNCHANGED hashes

\* The table with Current's entry in the free slot i.
InsertAt(i) ==
  [capacity |-> Map.capacity, size |-> Map.size + 1, at |-> Map.at,
   keys |-> [Map.keys EXCEPT ![i] = Current.key],
   values |-> [Map.values EXCEPT ![i] = Current.data]]

Insert ==
  /\ Working /\ Current.name # "get"
  /\ \E i \in 0..(Map.capacity - 1) :
       /\ FindsAt(i) /\ Map.keys[i] = NULL
       /\ Return(InsertAt(i), IF Current.name = "put" THEN "inserted" ELSE "void")
  /\ UNCHANGED hashes

PutPresent ==
  /\ Working /\ Current.name = "put"
  /\ \E i \in 0..(Map.capacity - 1) : FindsAt(i) /\ Map.keys[i] # NULL
  /\ Return(Map, "exists")
  /\ UNCHANGED hashes

SetPresent ==
  /\ Working /\ Current.name = "set"
  /\ \E i \in 0..(Map.capacity - 1) :
       /\ FindsAt(i) /\ Map.keys[i] # NULL
       /\ Return([Map EXCEPT !.values[i] = Current.data], "void")
  /\ UNCHANGED hashes

\* A slip Answered catches: capacity is not doubled.
GrowNot ==
  /\ Working /\ Current.name # "get" /\ Collides
  /\ tables' = Append(tables, NewTable(Map.capacity))
  /\ UNCHANGED <<hashes, call, result>>

Grow ==
  /\ Working /\ Current.name # "get" /\ Collides
  /\ tables' = Append(tables, NewTable(Map.capacity * 2))
  /\ UNCHANGED <<hashes, call, result>>

SkipFree ==
  /\ call # NULL /\ Growing /\ Old.at < Old.capacity /\ Old.keys[Old.at] = NULL
  /\ tables' = [tables EXCEPT ![Last - 1].at = @ + 1]
  /\ UNCHANGED <<hashes, call, result>>

\* A slip Implements catches: the old table is freed before its last entry moved.
RetryEarly ==
  /\ call # NULL /\ Growing /\ Old.at = Old.capacity - 1
  /\ tables' = Append(SubSeq(tables, 1, Last - 2), Map)
  /\ UNCHANGED <<hashes, call, result>>

\* The old table is empty: free it and try again what found no slot in it.
Retry ==
  /\ call # NULL /\ Growing /\ Old.at = Old.capacity
  /\ tables' = Append(SubSeq(tables, 1, Last - 2), Map)
  /\ UNCHANGED <<hashes, call, result>>

Work == GetFound \/ GetMissing \/ Insert \/ PutPresent \/ SetPresent \/ Grow \/ SkipFree \/ Retry

MapNext == Ask \/ Work

MapSpec == MapInit /\ [][MapNext]_mapVars
MapFairSpec == MapSpec /\ WF_mapVars(Work)

-----------------------------------------------------------------------------
\* Properties

\* The types: a table has as many slots as its capacity, a slot in use has a
\* value (the declaration of HashMap and the locals of hashMapPut).
IsTable(t) ==
  /\ t = [capacity |-> t.capacity, size |-> t.size, at |-> t.at, keys |-> t.keys, values |-> t.values]
  /\ t.capacity \in Nat \ {0} /\ t.size \in Nat /\ t.at \in 0..t.capacity
  /\ t.keys \in [0..(t.capacity - 1) -> Keys \cup {NULL}]
  /\ t.values \in [0..(t.capacity - 1) -> Values \cup {Unset}]
  /\ \A i \in 0..(t.capacity - 1) : t.keys[i] # NULL => t.values[i] \in Values

MapTypeOK ==
  /\ hashes \in [Keys -> HashPair]
  /\ tables \in Seq({tables[t] : t \in DOMAIN tables}) /\ Last >= 1
  /\ \A t \in 1..Last : IsTable(tables[t])
  /\ Map.at = 0
  /\ call \in Calls \cup {NULL}
  /\ call = NULL => ~Growing
  /\ result \in Values \cup {NULL, "inserted", "exists", "void"}

\* The slots in use that are not moved yet, of all tables.
Places ==
  {p \in (1..Last) \X UNION {0..(tables[t].capacity - 1) : t \in 1..Last} :
     /\ p[2] \in tables[p[1]].at..(tables[p[1]].capacity - 1)
     /\ tables[p[1]].keys[p[2]] # NULL}
KeyAt(p) == tables[p[1]].keys[p[2]]
ValueAt(p) == tables[p[1]].values[p[2]]

\* While entries move from old tables to new ones, through growth inside growth,
\* a string is in one slot of one table, and one that made a table grow is in
\* none: "we know the element doesn't exist" (hashMap.c:95).
HeldOnce ==
  /\ \A p, q \in Places : KeyAt(p) = KeyAt(q) => p = q
  /\ Growing => \A p \in Places : KeyAt(p) # call.key

\* Whatever order strings came in, the search that hashMapGet makes for a string
\* that is in the table stops at it: no free slot, and not the start again, comes
\* first on its own sequence of slots (hashMap.c:43-63).
FoundWhereItIs ==
  \A i \in 0..(Map.capacity - 1) :
    Map.keys[i] # NULL => StopsAt(Map.keys, Map.capacity, Map.keys[i], hashes[Map.keys[i]], i)

\* size is the number of entries, although it starts again at nothing in each
\* growth, also one that comes in the middle of another (hashMap.c:92, 135).
SizeCounts == Map.size = Cardinality({i \in 0..(Map.capacity - 1) : Map.keys[i] # NULL})

\* hashMap.c does what hashMap.h says: growing, and growing while growing, changes
\* no entry, get gives what was put or set last, put tells new from old.
Contents ==
  [k \in Keys |-> IF \E p \in Places : KeyAt(p) = k
                  THEN ValueAt(CHOOSE p \in Places : KeyAt(p) = k)
                  ELSE NULL]
Promised == INSTANCE StringMap WITH contents <- Contents
Implements == Promised!Safety

\* Every call returns: the capacities that the second hashes need come to an end,
\* for strings that hash differently or with a second hash that is not 0.
Answered == call # NULL ~> call = NULL
=============================================================================
