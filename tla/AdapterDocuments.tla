-------------------------- MODULE AdapterDocuments --------------------------
(***************************************************************************)
(* The documents that reach the handlers of Adapter, and what parsing and  *)
(* canonical JSON make of them.  A document has the fields request, fields,*)
(* body, body_bytes and body_sha256.                                       *)
(***************************************************************************)
EXTENDS Adapter, CanonicalJson

\* The documents whose action is accepted.
Accepted == {d \in Documents : from_wire(d)}

\* An action that is accepted is the only one, of those that would be, whose
\* body has its meaning: there is one text, and so one digest, of every value.
OneTextPerMeaning ==
    \A w \in Workers, d \in Accepted :
        /\ document[w] \in Accepted
        /\ Meaning(document[w].body.tree) = Meaning(d.body.tree)
        => document[w].body = d.body

\* The limits on nesting and size hold for the whole value, however its parts
\* are nested, and nothing within them is refused for its size.
LimitsAreExact ==
    \A w \in Workers :
        document[w] # NoDocument =>
            LET tree   == document[w].body.tree
                within == /\ Cardinality(Places(tree)) <= MaxNodes
                          /\ \A p \in Places(tree) : Len(p) <= MaxDepth
            IN  Parses(tree) <=> Loads(tree) /\ StringsNfc(tree) /\ within
=============================================================================
