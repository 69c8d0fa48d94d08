----------------------------- MODULE MCAdapter ------------------------------
(***************************************************************************)
(* Adapter for TLC: requests that differ in one thing from one that is     *)
(* accepted, among them pairs of bodies that say the same.                 *)
(***************************************************************************)
EXTENDS AdapterDocuments, MCContainment

MCLengths == {NoLength, -1, 2, 3}

One == Number(1)

Ab(first, second) == Object(<<<<<<first>>, One>>, <<<<second>>, Number(2)>>>>)

Pair(k1, k2) == {Ab(k1, k2), Object(<<<<<<k2>>, Number(2)>>, <<<<k1>>, One>>>>)}

\* Objects in both orders, alone, in a list and in an object; then one body for
\* each thing the parser refuses, and for each limit and the step beyond it.
Trees ==
    LET ab == Pair(97, 98)
    IN  ab \cup Pair(65533, 65536)
        \cup {List(<<o>>) : o \in ab}
        \cup {Object(<<<<<<97>>, o>>>>) : o \in ab}
        \cup {Ab(97, 97), Ab(97, 833), Real, Str(<<101, 833>>),
              Number(MaxSafe), Number(MaxSafe + 1)}
        \cup {List(<<List(<<List(<<>>)>>)>>), List(<<List(<<List(<<One>>)>>)>>)}
        \cup {List(<<List(<<One, One>>), One>>), List(<<List(<<One, One>>), One, One>>)}

Document(text) ==
    [request |-> Ab(97, 98), fields |-> TRUE, body |-> text,
     body_bytes |-> Length(text), body_sha256 |-> text]

MCDocuments ==
    LET good == [tree |-> One, plain |-> TRUE]
    IN  {Document([tree |-> t, plain |-> TRUE]) : t \in Trees}
        \cup {Document([good EXCEPT !.plain = FALSE]),
              [Document(good) EXCEPT !.request = Ab(97, 97)],
              [Document(good) EXCEPT !.fields = FALSE],
              [Document(good) EXCEPT !.body_bytes = 2],
              [Document(good) EXCEPT !.body_sha256 = [good EXCEPT !.tree = Number(2)]]}
=============================================================================
