------------------------------ MODULE RangeSet ------------------------------
(***************************************************************************)
(* HierarchicalRangeSet: the pending byte ranges of one file handle, where *)
(* a range that overlaps or touches others is merged with them.            *)
(*                                                                         *)
(* A range has offsets st_ and en_ and the set of its children, the        *)
(* requested ranges it stands for: one for a ChildRange, several for a     *)
(* ParentRange.  A range set keeps its ranges and finds them by their      *)
(* first and their last offset.                                            *)
(***************************************************************************)
EXTENDS Naturals, FiniteSets, FiniteSetsExt, Functions

EmptyRangeSet == [ranges |-> {}, st_map |-> << >>, en_map |-> << >>]

\* A std::map without some keys, and with one more value.
Erase(map, K) == Restrict(map, DOMAIN map \ K)
Store(map, k, v) == [j \in DOMAIN map \cup {k} |-> IF j = k THEN v ELSE map[j]]

\* The ranges that begin or end in r.
intersect(S, r) ==
    {rr \in Range(S.st_map) : r.st_ <= rr.st_ /\ rr.st_ <= r.en_}
      \cup {rr \in Range(S.en_map) : r.st_ <= rr.en_ /\ rr.en_ <= r.en_}

\* Mutant: finds no range that contains r.
included_none(S, r) == {}

\* The ranges that contain r: the search begins at the first one that ends
\* where r does or later, and stops at one that does not contain r.
included(S, r) ==
    LET later == {rr \in Range(S.en_map) : r.en_ <= rr.en_}
    IN  {rr \in later :
           \A q \in later : q.en_ <= rr.en_ => q.st_ <= r.st_}

\* r merged with the ranges of s.
merge(r, s) ==
    [r EXCEPT !.st_ = Min({r.st_} \cup {rr.st_ : rr \in s}),
              !.en_ = Max({r.en_} \cup {rr.en_ : rr \in s}),
              !.children = r.children \cup UNION {rr.children : rr \in s}]

add(S, r) ==
    LET s == intersect(S, r) \cup included(S, r)
        new_r == merge(r, s)
    IN  [ranges |-> (S.ranges \ s) \cup {new_r},
         st_map |-> Store(Erase(S.st_map, {rr.st_ : rr \in s}),
                          new_r.st_, new_r),
         en_map |-> Store(Erase(S.en_map, {rr.en_ : rr \in s}),
                          new_r.en_, new_r)]

\* The set after r has been taken out.
get(S, r) ==
    [ranges |-> S.ranges \ {r},
     st_map |-> Erase(S.st_map, {r.st_}),
     en_map |-> Erase(S.en_map, {r.en_})]

-----------------------------------------------------------------------------

\* Ranges that overlap or touch.
Touch(r, q) == r.st_ <= q.en_ /\ q.st_ <= r.en_

\* No two ranges of a set touch, and both maps find each of them.
Canonical(S) ==
    /\ \A r, q \in S.ranges : Touch(r, q) => r = q
    /\ S.st_map = [k \in {r.st_ : r \in S.ranges} |->
                     CHOOSE r \in S.ranges : r.st_ = k]
    /\ S.en_map = [k \in {r.en_ : r \in S.ranges} |->
                     CHOOSE r \in S.ranges : r.en_ = k]
=============================================================================
