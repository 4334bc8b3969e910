----------------------------- MODULE RateStore -----------------------------
(***************************************************************************)
(* What a store promises to the service: a table with one entry per key,   *)
(* in which an upsert replaces the entry of its key and touches no other.  *)
(* An average rate without a reference month has no key; each of them is   *)
(* kept, under a ticket of its own.                                        *)
(***************************************************************************)
EXTENDS InterestModel

CONSTANTS Sets,      \* the interest sets that may be upserted
          Tickets    \* names for entries without a key

VARIABLES asked,     \* the sets handed to the store, in order
          table,     \* key -> the set stored under it
          loose      \* <<ticket, set>> for the sets without a key

Init == asked = <<>> /\ table = [k \in {} |-> 0] /\ loose = {}

\* The entry of the key becomes s; it is created when the key is new.
Put(s) ==
  /\ HasKey(s)
  /\ table' = [k \in DOMAIN table \cup {Key(s)} |-> IF k = Key(s) THEN s ELSE table[k]]
  /\ UNCHANGED loose

\* One more entry without a key.
Add(s) ==
  /\ ~HasKey(s)
  /\ \E t \in Tickets : /\ \A p \in loose : p[1] # t
                        /\ loose' = loose \cup {<<t, s>>}
  /\ UNCHANGED table

Next ==
  \E s \in Sets :
    /\ asked' = Append(asked, s)
    /\ Put(s) \/ Add(s)

Spec == Init /\ [][Next]_<<asked, table, loose>>
=============================================================================
