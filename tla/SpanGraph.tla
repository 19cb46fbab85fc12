------------------------------- MODULE SpanGraph -------------------------------
(***************************************************************************)
(* The execution graph of a trace and its critical path.                   *)
(*                                                                         *)
(* A trace is a sequence of spans; a span's id is its place in it.  Its    *)
(* parent is such an id, None, or an id the trace does not hold; times are *)
(* in milliseconds, and a span that never ended has no end.                *)
(***************************************************************************)
EXTENDS Quantities

CONSTANT
  OverlapTolerance   \* siblings that overlap by no more are in sequence

Ids(spans) == 1..Len(spans)

\* SpanNode.children, in the order of the trace.
Children(spans, i) == Places(spans, LAMBDA c : spans[c].parent = i)

\* ExecutionGraph.roots: the spans whose parent is not in the trace.
Roots(spans) == Places(spans, LAMBDA i : spans[i].parent \notin Ids(spans))

\* primary_root.  A trace whose spans are all in cycles has none.
PrimaryRoot(spans) == First(Roots(spans))

\* get_descendants(): depth first, and what walk_preorder() lists below a root.
Descendants(spans, i) ==
  LET below[p \in Ids(spans)] ==
        FlattenSeq(Each(Children(spans, p), LAMBDA c : <<c>> \o below[c]))
  IN  below[i]

\* walk_preorder().  The depth of a span is how often the walk has descended.
WalkPreorder(spans) ==
  FlattenSeq(Each(Roots(spans), LAMBDA r : <<r>> \o Descendants(spans, r)))

\* The first of the sequence s with the greatest value: what max() returns.
FirstGreatest(s, Value(_)) ==
  s[CHOOSE k \in DOMAIN s :
      \A j \in DOMAIN s : /\ Value(s[j]) <= Value(s[k])
                          /\ j < k => Value(s[j]) < Value(s[k])]

\* Faulty variant: siblings that overlap are never in sequence.
FollowsStrictly(spans, i, j) == spans[i].start > spans[j].end

\* Sibling j had ended, but for the tolerance, when i started.
Follows(spans, i, j) == spans[i].start >= spans[j].end - OverlapTolerance

\* A set of siblings by start and end; the sort is stable.
ByTime(spans, siblings) ==
  Ranked(siblings,
    LAMBDA i, j :
      \/ spans[i].start < spans[j].start
      \/ spans[i].start = spans[j].start /\ spans[i].end < spans[j].end
      \/ spans[i].start = spans[j].start /\ spans[i].end = spans[j].end /\ i < j)

\* Chain c of siblings goes on with sibling i.
GoneOn(spans, c, i) == [dur |-> c.dur + spans[i].dur, path |-> Append(c.path, i)]

\* The longest of the chains, the first of equally long ones: those that took no
\* time are not gone on with.
LongestChain(chains) ==
  IF \A k \in DOMAIN chains : chains[k].dur = 0 THEN [dur |-> 0, path |-> <<>>]
  ELSE FirstGreatest(chains, LAMBDA c : c.dur)

\* dp: the longest chain of siblings in sequence that ends with each of them, these
\* being in order.
Chains(spans, order) ==
  LET dp[k \in DOMAIN order] ==
        GoneOn(spans,
          LongestChain(Selected([j \in 1..(k - 1) |-> dp[j]],
                                 LAMBDA c : Follows(spans, order[k], Last(c.path)))),
          order[k])
  IN  dp

\* The chains, each at the place of the sibling that it ends with.
InPlace(chains, siblings) ==
  Each(siblings, LAMBDA i : CHOOSE c \in Range(chains) : Last(c.path) = i)

\* _compute_children_critical_path()
SiblingPath(spans, siblings) ==
  IF Len(siblings) < 2 THEN siblings
  ELSE IF \E i \in Range(siblings) : spans[i].end = None
  THEN <<FirstGreatest(siblings, LAMBDA i : spans[i].dur)>>
  ELSE FirstGreatest(InPlace(Chains(spans, ByTime(spans, Range(siblings))), siblings),
                     LAMBDA c : c.dur).path

\* What span i spent outside its children, if they ran one after the other.
Overhead(spans, i) ==
  Greater(0, spans[i].dur - Total(Children(spans, i), LAMBDA c : spans[c].dur))

\* The path of span i whose children's path takes those of below.
Through(spans, i, below) ==
  IF below = <<>> THEN [dur |-> spans[i].dur, path |-> <<i>>]
  ELSE [dur |-> Overhead(spans, i) + Total(below, LAMBDA p : p.dur),
        path |-> <<i>> \o FlattenSeq(Each(below, LAMBDA p : p.path))]

\* _node_critical_path(): the path's duration and the spans along it.
NodePath(spans, i) ==
  LET node[n \in Ids(spans)] ==
        Through(spans, n, Each(SiblingPath(spans, Children(spans, n)), LAMBDA c : node[c]))
  IN  node[i]

\* compute_critical_path()
CriticalPath(spans) ==
  IF Roots(spans) = <<>> THEN [dur |-> 0, path |-> <<>>]
  ELSE FirstGreatest(Each(Roots(spans), LAMBDA r : NodePath(spans, r)), LAMBDA p : p.dur)
=============================================================================
