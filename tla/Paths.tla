-------------------------------- MODULE Paths -------------------------------
(***************************************************************************)
(* URL paths as sequences of characters: which ones a manifest and an      *)
(* action may contain (app/models.py, app/action.py), and when a path      *)
(* falls under a prefix of a rule (app/policy.py).                         *)
(***************************************************************************)
EXTENDS Integers, Sequences

\* str.startswith
startswith(path, prefix) ==
    Len(prefix) <= Len(path) /\ SubSeq(path, 1, Len(prefix)) = prefix

\* value.split("/"): what lies between two slashes, or a slash and the end.
Parts(path) ==
    LET cuts == {i \in DOMAIN path : path[i] = "/"} \cup {0, Len(path) + 1}
    IN  {SubSeq(path, c[1] + 1, c[2] - 1) :
            c \in {c \in cuts \X cuts :
                c[1] < c[2] /\ ~\E k \in cuts : c[1] < k /\ k < c[2]}}

\* Action.path_is_unambiguous and _canonical_path_prefix: absolute, without
\* escapes, query or fragment, without empty or dot segments.  What is left is
\* normalised as PurePosixPath normalises it.
path_is_unambiguous(path) ==
    /\ startswith(path, <<"/">>)
    /\ \A i \in DOMAIN path : path[i] \notin {"\\", "%", "?", "#"}
    /\ ~\E i \in DOMAIN path \ {1} : path[i] = "/" /\ path[i - 1] = "/"
    /\ Parts(path) \cap {<<".">>, <<".", ".">>} = {}

\* value.rstrip("/"), of a path without empty segments.
Stripped(path) ==
    IF path # <<>> /\ path[Len(path)] = "/" THEN SubSeq(path, 1, Len(path) - 1) ELSE path

\* Mutant of path_matches: a prefix may end inside a segment.
path_matches_text(path, prefix) == startswith(path, Stripped(prefix))

path_matches(path, prefix) ==
    \/ prefix = <<"/">>
    \/ path = Stripped(prefix)
    \/ startswith(path, Stripped(prefix) \o <<"/">>)

\* Positions b to e of a path are one of its segments: between slashes, or
\* between a slash and the end, and not empty.
IsSegment(path, b, e) ==
    /\ b \in 2..e /\ e \in 2..Len(path)
    /\ path[b - 1] = "/" /\ \A k \in b..e : path[k] # "/"
    /\ e < Len(path) => path[e + 1] = "/"

\* What a prefix is meant to be: its segments are the first ones of the path.  As
\* neither has an empty segment, they stand at the same positions.
UnderPrefix(path, prefix) ==
    \A b, e \in DOMAIN prefix :
        IsSegment(prefix, b, e) =>
            IsSegment(path, b, e) /\ \A k \in b..e : path[k] = prefix[k]
=============================================================================
