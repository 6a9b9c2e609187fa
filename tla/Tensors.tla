-------------------------------- MODULE Tensors --------------------------------
(***************************************************************************)
(* What the array operations of mlxgo do to shapes and to dependence.      *)
(*                                                                         *)
(* An element of an array is not a number but the set of what it was       *)
(* computed from, its "atoms", and, once it was rotated, the positions it  *)
(* was rotated to.  An atom is a sequence: the token it started as, and    *)
(* after that a mark for each attention, expert or convolution it passed   *)
(* through, so that two results with the same atoms were computed from the *)
(* same tokens, at the same distances, on the same ways.  An operation     *)
(* whose operands do not fit returns Bad, as the sticky error of fb makes  *)
(* every later operation do.                                               *)
(*                                                                         *)
(* These are definitions for TLC to evaluate; nothing is proved of them.   *)
(***************************************************************************)
EXTENDS Integers, Sequences, FiniteSets, SequencesExt

Bad == [shape |-> <<-1>>, el |-> <<>>]    \* the result of a failed operation
Nil == [shape |-> <<>>, el |-> <<>>]      \* a nil *mlxgo.Array

NaN == <<-1>>       \* the atom of "not a number", which spreads like any other
Odd == 99           \* the distance of a rotated from an unrotated element
Zero == [a |-> {}, p |-> {}]

Failed(x) == x.shape = <<-1>>
Rank(x)   == Len(x.shape)
Dim(x, axis) == x.shape[IF axis < 0 THEN Rank(x) + axis + 1 ELSE axis + 1]
Axis(x, axis) == IF axis < 0 THEN Rank(x) + axis + 1 ELSE axis + 1

RECURSIVE Size(_)
Size(shape) == IF shape = <<>> THEN 1 ELSE Head(shape) * Size(Tail(shape))

\* Row-major order: the place of an index, and the index of a place.
RECURSIVE Place(_, _)
Place(shape, ix) ==
    IF shape = <<>> THEN 0 ELSE Place(Front(shape), Front(ix)) * Last(shape) + Last(ix)

RECURSIVE Index(_, _)
Index(shape, k) ==
    IF shape = <<>> THEN <<>>
    ELSE Append(Index(Front(shape), k \div Last(shape)), k % Last(shape))

At(x, ix) == x.el[Place(x.shape, ix) + 1]

\* The array of the given shape with the element f(index) at each index.
Array(shape, f(_)) ==
    [shape |-> shape,
     el |-> [k \in 1..Size(shape) |-> f(Index(shape, k - 1))] \o <<>>]

Zeros(shape) == [shape |-> shape, el |-> [k \in 1..Size(shape) |-> Zero] \o <<>>]

Atoms(es) == UNION {e.a : e \in es}

-----------------------------------------------------------------------------
(* Operations that move elements.                                          *)

Reshape(x, shape) ==
    IF Failed(x) \/ Size(shape) # Len(x.el) THEN Bad ELSE [shape |-> shape, el |-> x.el]

\* axes[i] is the axis of x that becomes axis i; they count from 0.
Transpose(x, axes) ==
    IF Failed(x) \/ Len(axes) # Rank(x) THEN Bad
    ELSE Array([i \in 1..Len(axes) |-> x.shape[axes[i] + 1]] \o <<>>,
               LAMBDA ix : At(x, [j \in 1..Len(axes) |->
                                  ix[CHOOSE i \in 1..Len(axes) : axes[i] = j - 1]]))

Fits(x, y, axis) == Rank(x) = Rank(y) /\ \A i \in 1..Rank(x) : i = axis \/ x.shape[i] = y.shape[i]

Joint(x, y, ax, n) ==
    Array([x.shape EXCEPT ![ax] = @ + y.shape[ax]],
          LAMBDA ix : IF ix[ax] < n THEN At(x, ix) ELSE At(y, [ix EXCEPT ![ax] = @ - n]))

Concat2(x, y, axis) ==
    IF Failed(x) \/ Failed(y) THEN Bad
    ELSE IF ~Fits(x, y, Axis(x, axis)) THEN Bad ELSE Joint(x, y, Axis(x, axis), Dim(x, axis))

RECURSIVE Concatenate(_, _)
Concatenate(xs, axis) ==
    IF Len(xs) = 1 THEN xs[1] ELSE Concat2(Concatenate(Front(xs), axis), Last(xs), axis)

\* x[..., from:to, ...] on one axis.
Sliced(x, ax, from, to) ==
    IF from < 0 \/ to > x.shape[ax] \/ from > to THEN Bad
    ELSE Array([x.shape EXCEPT ![ax] = to - from], LAMBDA ix : At(x, [ix EXCEPT ![ax] = @ + from]))

Slice(x, axis, from, to) == IF Failed(x) THEN Bad ELSE Sliced(x, Axis(x, axis), from, to)

\* The sections of an axis that end before each of the given boundaries.
SplitSections(x, cuts, axis) ==
    [i \in 1..Len(cuts) + 1 |->
        Slice(x, axis, IF i = 1 THEN 0 ELSE cuts[i - 1],
              IF i > Len(cuts) THEN (IF Failed(x) THEN 0 ELSE Dim(x, axis)) ELSE cuts[i])] \o <<>>

Halves(x, n, axis, d) ==
    [i \in 1..n |-> IF d % n # 0 THEN Bad ELSE Slice(x, axis, (i - 1) * (d \div n), i * (d \div n))] \o <<>>

Split(x, n, axis) == Halves(x, n, axis, IF Failed(x) THEN 0 ELSE Dim(x, axis))

\* Take with a vector of indices (a sequence of integers) along an axis.
Taken(x, ids, ax) == Array([x.shape EXCEPT ![ax] = Len(ids)], LAMBDA ix : At(x, [ix EXCEPT ![ax] = ids[@ + 1]]))

Take(x, ids, axis) == IF Failed(x) THEN Bad ELSE Taken(x, ids, Axis(x, axis))

Repeated(x, n, ax) == Array([x.shape EXCEPT ![ax] = @ * n], LAMBDA ix : At(x, [ix EXCEPT ![ax] = @ \div n]))

Repeat(x, n, axis) == IF Failed(x) THEN Bad ELSE Repeated(x, n, Axis(x, axis))

-----------------------------------------------------------------------------
(* Arithmetic.  Element by element, with broadcasting; contraction; norms. *)

\* The shape of x with ones in front, up to the rank of y.
Widened(x, y) ==
    IF Rank(y) <= Rank(x) THEN x.shape ELSE [i \in 1..Rank(y) - Rank(x) |-> 1] \o x.shape

\* What an axis of one and another axis broadcast to, and whether they do.
Broad(m, n)   == IF m = 1 THEN n ELSE m
Matches(m, n) == m = n \/ m = 1 \/ n = 1

\* An index of the broadcast, in an operand of shape s.
Within(s, ix) == [i \in DOMAIN s |-> IF s[i] = 1 THEN 0 ELSE ix[i]] \o <<>>

Join(e, f) == [a |-> e.a \cup f.a, p |-> e.p \cup f.p]

Joined(x, sx, y, sy) ==
    IF sx = sy THEN [shape |-> sx, el |-> [k \in 1..Len(x.el) |-> Join(x.el[k], y.el[k])] \o <<>>]
    ELSE IF \E i \in DOMAIN sx : ~Matches(sx[i], sy[i]) THEN Bad
    ELSE Array([i \in 1..Len(sx) |-> Broad(sx[i], sy[i])] \o <<>>,
               LAMBDA ix : Join(x.el[Place(sx, Within(sx, ix)) + 1], y.el[Place(sy, Within(sy, ix)) + 1]))

\* Add, Mul and the like: both operands count.
Binary(x, y) == IF Failed(x) \/ Failed(y) THEN Bad ELSE Joined(x, Widened(x, y), y, Widened(y, x))

\* The distances of rotated factors.
Distances(e, f) ==
    IF e.p = {} /\ f.p = {} THEN {}
    ELSE IF e.p = {} \/ f.p = {} THEN {Odd}
    ELSE {i - j : i \in e.p, j \in f.p}

\* Rows of the last axis, as sequences of elements.
RowsOfWidth(x, d) ==
    [r \in 1..(IF d = 0 THEN 0 ELSE Len(x.el) \div d) |-> SubSeq(x.el, (r - 1) * d + 1, r * d)] \o <<>>

Rows(x) == RowsOfWidth(x, Dim(x, -1))

\* One element for a row that was mixed with weights (which are no atoms).
Mixed(row) ==
    [a |-> UNION {row[i].a : i \in DOMAIN row},
     p |-> IF \E i \in DOMAIN row : row[i].p # {} THEN {Odd} ELSE {}]

\* The rows of x, each mixed: as many elements as x has rows.
MixedRows(rows) == [r \in 1..Len(rows) |-> Mixed(rows[r])] \o <<>>

\* x @ w.T for a weight w of shape [out, in].
Contracted(x, out, mixed) ==
    [shape |-> Append(Front(x.shape), out),
     el |-> [k \in 1..Len(mixed) * out |-> mixed[(k - 1) \div out + 1]] \o <<>>]

Linear(x, w) ==
    IF Failed(x) \/ Rank(w) # 2 \/ Rank(x) = 0 THEN Bad
    ELSE IF Dim(x, -1) # w.shape[2] THEN Bad
    ELSE Contracted(x, w.shape[1], MixedRows(Rows(x)))

\* Root mean square over the last axis, times a weight vector (or none, Nil).
Spread(x, d, mixed) == [x EXCEPT !.el = [k \in DOMAIN @ |-> mixed[(k - 1) \div d + 1]] \o <<>>]

RMSNorm(x, w) ==
    IF Failed(x) \/ Failed(w) THEN Bad
    ELSE IF w # Nil /\ w.shape # <<Dim(x, -1)>> THEN Bad
    ELSE Spread(x, Dim(x, -1), MixedRows(Rows(x)))

\* Batched matrix multiplication [.., n, k] x [.., k, m]; the leading axes
\* broadcast.
Dotted(xs, ys) ==
    [a |-> UNION {xs[k].a \cup ys[k].a : k \in DOMAIN xs}, p |-> UNION {Distances(xs[k], ys[k]) : k \in DOMAIN xs}]

\* The elements of x that run along an axis through the index ix.
LineAt(x, s, axis, at) == [k \in 1..s[axis] |-> x.el[Place(s, [at EXCEPT ![axis] = k - 1]) + 1]] \o <<>>

Line(x, s, axis, ix) == LineAt(x, s, axis, Within(s, ix))

Multiplied(x, sx, y, sy, n) ==
    IF sx[n] # sy[n - 1] \/ \E i \in 1..n - 2 : ~Matches(sx[i], sy[i]) THEN Bad
    ELSE Array([i \in 1..n - 2 |-> Broad(sx[i], sy[i])] \o <<sx[n - 1], sy[n]>>,
               LAMBDA ix : Dotted(Line(x, sx, n, ix), Line(y, sy, n - 1, ix)))

MatMul(x, y) ==
    IF Failed(x) \/ Failed(y) \/ Rank(x) < 2 \/ Rank(y) < 2 THEN Bad
    ELSE Multiplied(x, Widened(x, y), y, Widened(y, x), Len(Widened(x, y)))

\* The sum over an axis (counted from 0), which goes.
Summed(x, ax) ==
    Array([x.shape EXCEPT ![ax] = 1],
          LAMBDA ix : [a |-> UNION {At(x, [ix EXCEPT ![ax] = i]).a : i \in 0..x.shape[ax] - 1}, p |-> {}])

Squeezed(x, axis) == [x EXCEPT !.shape = SubSeq(@, 1, axis) \o SubSeq(@, axis + 2, Len(@))]

SumAxis(x, axis) == IF Failed(x) THEN Bad ELSE Squeezed(Summed(x, Axis(x, axis)), axis)

\* The elements for which keep(index) holds, and others instead of the rest:
\* old + mask * (new - old) with a mask of ones and zeros.
Merged(x, old, keep(_)) ==
    IF Failed(x) \/ Failed(old) \/ x.shape # old.shape THEN Bad
    ELSE Array(x.shape, LAMBDA ix : IF keep(ix) THEN At(x, ix) ELSE At(old, ix))

\* Every atom with a mark: the element went through something of its own.
Tagged(x, mark) ==
    IF Failed(x) THEN Bad
    ELSE [x EXCEPT !.el = [k \in DOMAIN x.el |-> [a |-> {Append(b, mark) : b \in x.el[k].a}, p |-> x.el[k].p]] \o <<>>]

\* RoPE on [batch, heads, L, dim]: the first dims features of the vector at
\* step t are rotated to the position offset + t.
RoPE(x, dims, offset) ==
    IF Failed(x) THEN Bad
    ELSE IF Rank(x) # 4 \/ dims > Dim(x, -1) THEN Bad
    ELSE Array(x.shape, LAMBDA ix : IF ix[4] < dims THEN [At(x, ix) EXCEPT !.p = {offset + ix[3]}] ELSE At(x, ix))

-----------------------------------------------------------------------------
(* Attention.  A mask is an array of [a, p, m]: m says whether the key is  *)
(* kept (0), pushed away by a finite number (1) or by minus infinity (2);  *)
(* a and p are those of scores that were added to it.                      *)

Marked(es, mark) == {Append(a, mark) : a \in es}

\* What one query gets of the keys: s is the sequence of [q, m, kv] with the
\* distances, the mask and the atoms of each key.  Everything is kept if
\* every key is pushed away by the same finite number; minus infinity
\* everywhere is not a number; and a NaN gets through a mask.
Attended(qa, s) ==
    LET kept == {j \in DOMAIN s : s[j].m = 0}
        near == {j \in DOMAIN s : s[j].m = 1}
        used == IF kept # {} THEN kept ELSE near
    IN qa \cup UNION {s[j].a \cup Marked(s[j].kv, s[j].p) : j \in used}
          \cup (IF used = {} THEN {NaN} ELSE {})
          \cup {NaN : a \in {b \in UNION {s[j].kv : j \in DOMAIN s \ used} : b[1] = -1}}

Kept == [a |-> {}, p |-> {}, m |-> 0]

\* What the mask says of key j and query t, of the head h of row b.
MaskAt(mode, mask, ix, past) ==
    IF mask # Nil THEN At(mask, Within(mask.shape, ix))
    ELSE IF mode = "causal" /\ ix[4] > ix[3] + past THEN [Kept EXCEPT !.m = 2] ELSE Kept

From(x, at, d) == SubSeq(x.el, at + 1, at + d)
Vector(x, b, h, t) == From(x, Place(x.shape, <<b, h, t, 0>>), x.shape[4])

\* One key for one query: its mask, its distance, and what it carries.
Scored(mk, qs, ks) ==
    [a |-> mk.a, m |-> mk.m, kv |-> UNION {ks[d].a : d \in DOMAIN ks},
     p |-> mk.p \cup UNION {Distances(qs[d], ks[d]) : d \in DOMAIN qs}]

\* Each feature of what a query gets, of the scored keys s and their values.
Gets(qs, s, vs) ==
    [e \in DOMAIN vs[1] |->
       [p |-> {}, a |-> Attended(UNION {qs[d].a : d \in DOMAIN qs},
                                 [j \in DOMAIN s |-> [s[j] EXCEPT !.kv = @ \cup vs[j][e].a]] \o <<>>)]] \o <<>>

AllScored(qs, k, mode, mask, b, h, g, t, past) ==
    [j \in 1..Dim(k, 2) |-> Scored(MaskAt(mode, mask, <<b, h, t, j - 1>>, past), qs, Vector(k, b, g, j - 1))] \o <<>>

Query(qs, k, v, mode, mask, b, h, g, t, past) ==
    Gets(qs, AllScored(qs, k, mode, mask, b, h, g, t, past), [j \in 1..Dim(v, 2) |-> Vector(v, b, g, j - 1)] \o <<>>)

Flat(results, shape, E) ==
    [shape |-> Append(shape, E),
     el |-> [n \in 1..Len(results) * E |-> results[(n - 1) \div E + 1][((n - 1) % E) + 1]] \o <<>>]

Queries(q, k, v, mode, mask, shape) ==
    [r \in 1..Size(shape) |->
        LET ix == Index(shape, r - 1)
        IN Query(Vector(q, ix[1], ix[2], ix[3]), k, v, mode, mask, ix[1], ix[2], ix[2] \div (Dim(q, 1) \div Dim(k, 1)),
                 ix[3], Dim(k, 2) - Dim(q, 2))] \o <<>>

AllRank4(q, k, v) == Rank(q) = 4 /\ Rank(k) = 4 /\ Rank(v) = 4

\* q [B, H, L, D], k and v [B, G, S, D or E] with H a multiple of G.
SDPA(q, k, v, mode, mask) ==
    IF Failed(q) \/ Failed(k) \/ Failed(v) \/ Failed(mask) THEN Bad
    ELSE IF ~AllRank4(q, k, v) THEN Bad
    ELSE IF \/ Dim(q, 3) # Dim(k, 3) \/ Dim(q, 0) # Dim(k, 0) \/ SubSeq(k.shape, 1, 3) # SubSeq(v.shape, 1, 3)
            \/ Dim(k, 1) = 0 THEN Bad
    ELSE IF Dim(q, 1) % Dim(k, 1) # 0 THEN Bad
    ELSE IF mask # Nil /\ (Rank(mask) # 4 \/ \E i \in 1..4 :
              mask.shape[i] \notin {1, <<Dim(q, 0), Dim(q, 1), Dim(q, 2), Dim(k, 2)>>[i]}) THEN Bad
    ELSE Flat(Queries(q, k, v, mode, mask, SubSeq(q.shape, 1, 3)), SubSeq(q.shape, 1, 3), Dim(v, 3))
=============================================================================
