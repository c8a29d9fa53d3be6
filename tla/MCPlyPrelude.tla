---------------------------- MODULE MCPlyPrelude ----------------------------
(* Every header with up to three f_rest_* properties numbered 0 .. 3 or    *)
(* badly named; runs of 0 .. 75 well-numbered ones, in and out of order,   *)
(* with one index duplicated or skipped; and every way one or two required *)
(* properties can be missing or lists.  And every three arguments, on one  *)
(* header: an int of 4 bits, a long of 5, and the numbers a little past    *)
(* both ends of long.                                                      *)
EXTENDS PlyPrelude

All == {RequiredProperties[n] : n \in DOMAIN RequiredProperties}

Header(n, scalar, list, rest) ==
  [count |-> n, scalar |-> scalar, list |-> list, unknown |-> 0, rest |-> rest]

Properties == {RestProperty(index, s) : index \in BadName .. 3, s \in BOOLEAN}

ShortRests == UNION {[1 .. n -> Properties] : n \in 0 .. 3}

Ascending(n)  == [m \in 1 .. n |-> RestProperty(m - 1, TRUE)]
Descending(n) == [m \in 1 .. n |-> RestProperty(n - m, TRUE)]

LongRests ==
  {Ascending(n) : n \in 0 .. 75} \cup {Descending(n) : n \in 0 .. 75}
  \cup {[Ascending(n) EXCEPT ![1].index = m] : n \in {3, 9, 24, 45}, m \in 0 .. 46}
  \cup {[Ascending(n) EXCEPT ![n].index = m] : n \in {4, 10, 25, 46}, m \in 0 .. 8}

Headers ==
  {Header(1, All, {}, rest) : rest \in ShortRests \cup LongRests}
  \cup {Header(n, scalar \ list, list, Ascending(9)) :
          n \in 0 .. kMaxGaussianCount + 1, scalar \in SUBSET All,
          list \in {{}} \cup {{name} : name \in All}}

MCNumbers == LongMin - 2 .. LongMax + 2

NoArguments == [key \in Keys |-> Absent]
MCCalls ==
  [arguments : {NoArguments}, header : Headers]
  \cup [arguments : [Keys -> Texts \cup {Absent}],
        header : {Header(1, All, {}, <<>>)}]
=============================================================================
