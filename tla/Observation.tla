------------------------------ MODULE Observation ------------------------------
(***************************************************************************)
(* What the harness observes, and how two observations compare.             *)
(*                                                                          *)
(* An evaluation context is a JSON document.  It is kept here as a function *)
(* from the paths of its leaves to scalars: an object or an array is the    *)
(* restriction of the context to the leaves below its path, its keys (or    *)
(* indices, which the code also makes path segments) being the next         *)
(* segments of those leaves.  An empty object therefore reads as an absent  *)
(* one, the one thing this representation does not tell apart.              *)
(*                                                                          *)
(* A scalar is a record: its JSON type, its spelling, the decimal it stands *)
(* for (None when it stands for none) and whether a string spells that      *)
(* decimal in plain notation (no exponent, no redundant zero).              *)
(***************************************************************************)
EXTENDS Absence, Integers, Sequences, FiniteSets

----------------------------------------------------------------------------
\* contracts/paths.py

is_ancestor_of(p, q) == Len(p) <= Len(q) /\ SubSeq(q, 1, Len(p)) = p

overlaps(p, q) == is_ancestor_of(p, q) \/ is_ancestor_of(q, p)

\* the leaves a context holds at or below a path
Below(path, ctx) == {leaf \in DOMAIN ctx : is_ancestor_of(path, leaf)}

\* resolve: the subtree at the path; found is its not being empty
found(path, ctx) == Below(path, ctx) # {}

resolve(path, ctx) == [leaf \in Below(path, ctx) |-> ctx[leaf]]

IsLeaf(path, ctx) == path \in DOMAIN ctx

----------------------------------------------------------------------------
\* Comparison.  Assertions compare exactly, the diff compares decimals.

\* engine/assertions.py: deep_equal on scalars, then on subtrees
ScalarEqual(a, b) ==
    /\ a.type = b.type
    /\ IF a.type = "number" THEN a.dec = b.dec ELSE a.text = b.text

deep_equal(u, v) ==
    /\ DOMAIN u = DOMAIN v
    /\ \A leaf \in DOMAIN u : ScalarEqual(u[leaf], v[leaf])

\* engine/assertions.py: _as_exact refuses a bool, a float and a non-decimal text
as_exact(s) == IF s.type = "bool" THEN None ELSE s.dec

\* engine/diff.py: _as_decimal reinterprets a number or a plain decimal string
as_decimal(s) ==
    IF s.type = "number" \/ (s.type = "string" /\ s.plain) THEN s.dec ELSE None

\* engine/diff.py: _equal on two scalars
SameValue(a, b) ==
    /\ a.type = b.type
    /\ IF as_decimal(a) # None /\ as_decimal(b) # None
       THEN as_decimal(a) = as_decimal(b)
       ELSE a.text = b.text

----------------------------------------------------------------------------
\* engine/diff.py: the complete recursive diff of two contexts

PathsOf(ctx) ==
    UNION {{SubSeq(leaf, 1, n) : n \in 1..Len(leaf)} : leaf \in DOMAIN ctx}

\* both sides hold an object at the path, so the walk descends through it
descends(p, before, after) ==
    \/ p = <<>>
    \/ /\ found(p, before) /\ found(p, after)
       /\ ~IsLeaf(p, before) /\ ~IsLeaf(p, after)

\* _walk_mapping and _walk_array: a key on one side only is one change, at its path
OneSided(p, before, after) == found(p, before) # found(p, after)

\* _walk at a scalar pair, or at an object that became a scalar or the reverse
Rewritten(p, before, after) ==
    /\ found(p, before) /\ found(p, after)
    /\ IF IsLeaf(p, before) /\ IsLeaf(p, after)
       THEN ~SameValue(before[p], after[p])
       ELSE IsLeaf(p, before) # IsLeaf(p, after)

diff_states(before, after) ==
    {p \in PathsOf(before) \cup PathsOf(after) :
        /\ \A n \in 0..(Len(p) - 1) : descends(SubSeq(p, 1, n), before, after)
        /\ OneSided(p, before, after) \/ Rewritten(p, before, after)}

----------------------------------------------------------------------------
\* evidence/effects.py: what an invocation stores of the state it left behind

effect_context(paths, ctx) ==
    IF ctx = None THEN None
    ELSE [leaf \in {l \in DOMAIN ctx : \E p \in paths : is_ancestor_of(p, l)} |-> ctx[leaf]]

----------------------------------------------------------------------------
\* evidence/surface.py: a captured tool surface is a function from tool names to
\* definitions [description, hints, schema], each standing for the hash of that
\* part of the descriptor; tools the harness publishes are left out of it, as
\* SurfaceService._surface_of files them in the other partition.

\* ToolIdentity.differing_kinds
differing_kinds(old, new) ==
    (IF old.schema # new.schema THEN {"schema_change"} ELSE {}) \cup
    (IF old.hints # new.hints THEN {"hint_change"} ELSE {}) \cup
    (IF old.description # new.description THEN {"description_change"} ELSE {})

SurfaceDelta(tool, kind) == [tool |-> tool, kind |-> kind]

diff_surfaces(before, after) ==
    {SurfaceDelta(t, "added") : t \in DOMAIN after \ DOMAIN before} \cup
    {SurfaceDelta(t, "removed") : t \in DOMAIN before \ DOMAIN after} \cup
    UNION {{SurfaceDelta(t, k) : k \in differing_kinds(before[t], after[t])} :
              t \in DOMAIN before \cap DOMAIN after}

================================================================================
