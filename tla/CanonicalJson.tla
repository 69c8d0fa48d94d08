--------------------------- MODULE CanonicalJson ----------------------------
(***************************************************************************)
(* The JSON of app/models.py: what parse_canonical_json accepts, and the   *)
(* one text that canonical_json gives a value.  With it, what Action       *)
(* (app/action.py) accepts as a request.                                   *)
(*                                                                         *)
(* A text is its syntax tree, and whether it is plain: written without     *)
(* white space and with no other spelling of strings and numbers than      *)
(* json.dumps's.  Members of objects keep their order, in a text and in    *)
(* the dict that json.loads makes of it.  Strings are sequences of code    *)
(* points.                                                                 *)
(***************************************************************************)
EXTENDS Integers, Sequences, FiniteSets

LOCAL INSTANCE SequencesExt
LOCAL INSTANCE FiniteSetsExt

CONSTANTS
    MaxDepth,        \* MAX_JSON_DEPTH
    MaxNodes,        \* MAX_JSON_NODES
    MaxSafe,         \* MAX_SAFE_INTEGER
    Combining        \* code points that no NFC string contains

Number(n)    == [type |-> "int", value |-> n]
Real         == [type |-> "real", value |-> 0]
Str(s)       == [type |-> "str", value |-> s]
List(items)  == [type |-> "list", value |-> items]
Object(ms)   == [type |-> "object", value |-> ms]     \* members <<key, value>>

Scalar(v) == v.type \notin {"list", "object"}

\* The values directly in a list or an object.
Items(v) ==
    IF v.type = "list" THEN v.value
                       ELSE [i \in DOMAIN v.value |-> v.value[i][2]]

require_nfc(s) == \A i \in DOMAIN s : s[i] \notin Combining

\* _unique_object
unique_object(members) ==
    /\ \A i \in DOMAIN members : require_nfc(members[i][1])
    /\ \A i, j \in DOMAIN members : members[i][1] = members[j][1] => i = j

-----------------------------------------------------------------------------
\* json.loads with its hooks: floats, unsafe integers, repeated keys raise.
RECURSIVE Loads(_)
Loads(v) ==
    /\ v.type # "real"
    /\ v.type = "int" => -MaxSafe <= v.value /\ v.value <= MaxSafe
    /\ v.type = "object" => unique_object(v.value)
    /\ ~Scalar(v) => \A i \in DOMAIN v.value : Loads(Items(v)[i])

\* How deep _validate_json_value descends.
RECURSIVE Depth(_)
Depth(v) ==
    IF Scalar(v) \/ v.value = <<>>
    THEN 0
    ELSE 1 + Max({Depth(Items(v)[i]) : i \in DOMAIN v.value})

\* Mutant of Nodes: every branch has a budget of its own.
RECURSIVE NodesOfBranch(_)
NodesOfBranch(v) ==
    IF Scalar(v) \/ v.value = <<>>
    THEN 1
    ELSE 1 + Max({NodesOfBranch(Items(v)[i]) : i \in DOMAIN v.value})

\* What _budget has been charged when all of v has been visited.
RECURSIVE Nodes(_)
Nodes(v) ==
    IF Scalar(v)
    THEN 1
    ELSE FoldLeft(LAMBDA n, item : n + Nodes(item), 1, Items(v))

\* _validate_json_value, of strings.
RECURSIVE StringsNfc(_)
StringsNfc(v) ==
    /\ v.type = "str" => require_nfc(v.value)
    /\ ~Scalar(v) => \A i \in DOMAIN v.value : StringsNfc(Items(v)[i])

\* _validate_json_value
validate_json_value(v) == Depth(v) <= MaxDepth /\ Nodes(v) <= MaxNodes /\ StringsNfc(v)

\* parse_canonical_json does not raise.
Parses(tree) == Loads(tree) /\ validate_json_value(tree)

-----------------------------------------------------------------------------
\* item.encode("utf-16-be"), by units.
Utf16(s) ==
    LET units(c) == IF c < 65536
                    THEN <<c>>
                    ELSE <<55296 + (c - 65536) \div 1024, 56320 + (c % 1024)>>
    IN  FoldLeft(LAMBDA seq, c : seq \o units(c), <<>>, s)

Before(a, b) ==
    \E n \in 0..Len(a) :
        /\ n < Len(b)
        /\ SubSeq(a, 1, n) = SubSeq(b, 1, n)
        /\ n < Len(a) => a[n + 1] < b[n + 1]

KeyBefore(m1, m2) == Before(Utf16(m1[1]), Utf16(m2[1]))

\* Mutant of order_for_jcs: lists are left as they are.
RECURSIVE order_for_jcs_shallow(_)
order_for_jcs_shallow(v) ==
    IF v.type # "object"
    THEN v
    ELSE Object(SortSeq([i \in DOMAIN v.value |->
                   <<v.value[i][1], order_for_jcs_shallow(v.value[i][2])>>], KeyBefore))

\* _order_for_jcs
RECURSIVE order_for_jcs(_)
order_for_jcs(v) ==
    CASE v.type = "object" ->
            Object(SortSeq([i \in DOMAIN v.value |->
                      <<v.value[i][1], order_for_jcs(v.value[i][2])>>], KeyBefore))
      [] v.type = "list" -> List([i \in DOMAIN v.value |-> order_for_jcs(v.value[i])])
      [] OTHER -> v

\* canonical_json of a value that validates.
canonical_json(v) == [tree |-> order_for_jcs(v), plain |-> TRUE]

-----------------------------------------------------------------------------
\* Action: the request around the body, the body as a text in a string, and its
\* length and digest.  A text's digest is the text, its length grows with it.
Length(text) == Nodes(text.tree) + IF text.plain THEN 0 ELSE 1

body_is_canonical(text) == Parses(text.tree) /\ canonical_json(text.tree) = text

body_binding_is_correct(d) ==
    /\ d.body_bytes = Length(d.body)
    /\ d.body_sha256 = d.body

\* Action.from_wire does not raise.  `fields' tells that ids, method, host, path,
\* address and pin have their one spelling and nothing else is there.
from_wire(d) ==
    /\ Parses(d.request)
    /\ d.fields
    /\ body_is_canonical(d.body)
    /\ body_binding_is_correct(d)

-----------------------------------------------------------------------------
\* What a text says: members of objects have no order.
RECURSIVE Meaning(_)
Meaning(v) ==
    CASE v.type = "object" ->
            <<"object", {<<v.value[i][1], Meaning(v.value[i][2])>> : i \in DOMAIN v.value}>>
      [] v.type = "list" -> <<"list", [i \in DOMAIN v.value |-> Meaning(v.value[i])]>>
      [] OTHER -> <<v.type, v.value>>

\* The places of a value in v, each by the indices that lead to it.
RECURSIVE Places(_)
Places(v) ==
    {<<>>} \cup
        IF Scalar(v) THEN {}
        ELSE UNION {{<<i>> \o p : p \in Places(Items(v)[i])} : i \in DOMAIN v.value}
=============================================================================
