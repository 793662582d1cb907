------------------------------ MODULE Listing ------------------------------
(***************************************************************************)
(* Listings and totals of a bucket as the index answers them               *)
(* (engine/internal/server: Storage.ListObjects, Store.ListObjects,        *)
(* Store.Stats).  A key is a sequence of bytes, a bucket the set of keys   *)
(* that have a row.                                                        *)
(***************************************************************************)
EXTENDS Integers, Sequences, FiniteSets

CONSTANTS
  Keys,
  MaxListLimit,
  Slash,       \* the byte /
  None         \* no cursor

ASSUME ListingConstants ==
  /\ Keys \subseteq Seq(Nat) /\ IsFiniteSet(Keys)
  /\ MaxListLimit \in Nat \ {0} /\ Slash \in Nat /\ None \notin Seq(Nat)

\* SQLite's BINARY collation: the first byte that differs decides, or the length.
Less(a, b) ==
  \E n \in 0..Len(a) : /\ n < Len(b) /\ SubSeq(a, 1, n) = SubSeq(b, 1, n)
                       /\ n = Len(a) \/ a[n + 1] < b[n + 1]
Order == {o \in Keys \X Keys : Less(o[1], o[2])}
Before(a, b) == <<a, b>> \in Order

StartsWith(k, prefix) == Len(prefix) <= Len(k) /\ SubSeq(k, 1, Len(prefix)) = prefix

Under(rows, prefix) == {k \in rows : StartsWith(k, prefix)}

\* The keys of a finite set in order.
InOrder(keys) ==
  [i \in 1..Cardinality(keys) |->
     CHOOSE k \in keys : Cardinality({j \in keys : Before(j, k)}) = i - 1]

First(s, n) == SubSeq(s, 1, IF n < Len(s) THEN n ELSE Len(s))

\* Store.ListObjects: at most limit rows after the cursor.
RowsAfter_OrAt(rows, prefix, cursor, limit) ==
  First(InOrder({k \in Under(rows, prefix) : cursor # None => ~Before(k, cursor)}), limit)
RowsAfter(rows, prefix, cursor, limit) ==
  First(InOrder({k \in Under(rows, prefix) : cursor # None => Before(cursor, k)}), limit)

Limit(n) == IF n < 1 THEN 1 ELSE IF n > MaxListLimit THEN MaxListLimit ELSE n

\* Storage.ListObjects: one row more than the page holds tells whether there are more;
\* the cursor is the last key of the page.
Page_CursorBeyond(rows, prefix, cursor, n) ==
  LET limit == Limit(n)
      got == RowsAfter(rows, prefix, cursor, limit + 1)
      more == Len(got) > limit
  IN  [keys |-> First(got, limit), more |-> more, next |-> IF more THEN got[limit + 1] ELSE None]
Page_PrefixAsCursor(rows, prefix, cursor, n) ==
  LET limit == Limit(n)
      got == RowsAfter(rows, prefix, cursor, limit + 1)
      more == Len(got) > limit
  IN  [keys |-> First(got, limit), more |-> more, next |-> IF more THEN prefix ELSE None]
Page(rows, prefix, cursor, n) ==
  LET limit == Limit(n)
      got == RowsAfter(rows, prefix, cursor, limit + 1)
      more == Len(got) > limit
  IN  [keys |-> First(got, limit), more |-> more, next |-> IF more THEN got[limit] ELSE None]

\* Store.Stats: folders are told apart by what comes before the first slash.
Folder(k) == SubSeq(k, 1, (CHOOSE i \in 1..Len(k) : k[i] = Slash /\ \A j \in 1..(i - 1) : k[j] # Slash) - 1)
HasSlash(k) == \E i \in 1..Len(k) : k[i] = Slash

Stats_AnyPrefix(rows, prefix) ==
  [objects |-> Cardinality(rows),
   folders |-> Cardinality({Folder(k) : k \in {m \in rows : HasSlash(m)}}),
   files   |-> Cardinality({k \in rows : ~HasSlash(k)})]
Stats(rows, prefix) ==
  LET keys == Under(rows, prefix) IN
  [objects |-> Cardinality(keys),
   folders |-> Cardinality({Folder(k) : k \in {m \in keys : HasSlash(m)}}),
   files   |-> Cardinality({k \in keys : ~HasSlash(k)})]
=============================================================================
