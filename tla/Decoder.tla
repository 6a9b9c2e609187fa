------------------------------- MODULE Decoder --------------------------------
(***************************************************************************)
(* What the model families share: the tensor caches (compute/models/       *)
(* cache.go), the mask of a left-padded cohort (batch_mask.go), what the   *)
(* adapter does before and after a forward on one sequence, on a cohort of *)
(* prompts or on one step of a cohort (adapter.go), the checkpoint's       *)
(* weights, dense or affine-quantized (quant.go), and the operations of fb *)
(* that the forwards are written with (qwen3_forward.go).                  *)
(*                                                                         *)
(* A cache is the record of KVTensorCache; a set of caches is a sequence    *)
(* with one for each layer.  A forward returns the logits and the caches   *)
(* as it left them.  A weight map is a function from names <<layer,        *)
(* module, kind>> to arrays; layer 0 stands for the model itself, and      *)
(* layer i for model.layers.i-1.  Weights carry no atoms: only their       *)
(* shapes matter.                                                          *)
(***************************************************************************)
EXTENDS Tensors

Empty == [offset |-> 0, keys |-> Nil, values |-> Nil, conv |-> Nil, ssm |-> Nil, leftPad |-> <<>>]

NewCache(numLayers) == [l \in 1..numLayers |-> Empty] \o <<>>

Append2(x, y) == IF x = Nil THEN y ELSE Concat2(x, y, 2)

\* Update: the step's keys and values go behind those that are there.
Grown(cache, keys, values) ==
    [cache EXCEPT !.keys = keys, !.values = values, !.offset = IF Failed(keys) THEN @ ELSE Dim(keys, 2)]

Update(cache, k, v) ==
    IF Failed(k) \/ Failed(v) THEN cache
    ELSE Grown(cache, Append2(cache.keys, k), Append2(cache.values, v))

\* (The state moves on, and the offset stays.)
SetState_Still(cache, conv, ssm, advance) == [cache EXCEPT !.conv = conv, !.ssm = ssm]

SetState(cache, conv, ssm, advance) ==
    [cache EXCEPT !.conv = conv, !.ssm = ssm, !.offset = @ + advance]

\* No padding at all is no slice at all.
SetLeftPad(cache, pad) ==
    [cache EXCEPT !.leftPad = IF \E i \in DOMAIN pad : pad[i] # 0 THEN pad ELSE <<>>]

Padded(cache) == cache.leftPad # <<>>

RopeOffsets(cache) == [b \in DOMAIN cache.leftPad |-> cache.offset - cache.leftPad[b]]

Masked(pad, qpos, j) == j > qpos \/ j < pad

batchLeftPadCausalMask(leftPad, L, offset) ==
    Array(<<Len(leftPad), 1, L, offset + L>>,
          LAMBDA ix : [Kept EXCEPT !.m = IF Masked(leftPad[ix[1] + 1], offset + ix[3], ix[4]) THEN 1 ELSE 0])

\* What attention is told: a mode, or a mask.
AttnMask(cache, L) ==
    IF Padded(cache) THEN [mode |-> "", mask |-> batchLeftPadCausalMask(cache.leftPad, L, cache.offset)]
    ELSE [mode |-> IF L > 1 THEN "causal" ELSE "", mask |-> Nil]

-----------------------------------------------------------------------------
(* Merging the caches of a cohort along the batch axis, and splitting them.*)

concatAlongBatch(xs) == IF xs[1] = Nil THEN Nil ELSE Concatenate(xs, 0)

splitAlongBatch(x, n) ==
    IF x = Nil THEN [i \in 1..n |-> Nil] ELSE IF n = 1 THEN <<x>> ELSE Split(x, n, 0)

\* The padding is read off each sequence's first layer.
PadOf(seq) == IF Padded(seq[1]) THEN seq[1].leftPad[1] ELSE 0

Along(seqs, l, field) == concatAlongBatch([i \in DOMAIN seqs |-> seqs[i][l][field]] \o <<>>)

Tensor == {"keys", "values", "conv", "ssm"}    \* the fields that are arrays

mergeCachesAlongBatch(seqs) ==
    [l \in DOMAIN seqs[1] |->
        SetLeftPad([field \in DOMAIN Empty |->
                       IF field \in Tensor THEN Along(seqs, l, field) ELSE seqs[1][l][field]],
                   [i \in DOMAIN seqs |-> PadOf(seqs[i])] \o <<>>)] \o <<>>

RowPad(mc, i) == IF Padded(mc) THEN mc.leftPad[i] ELSE 0

\* Row i of a layer, given the rows of its arrays.
RowOf(mc, rows, i) ==
    SetLeftPad([field \in DOMAIN Empty |-> IF field \in Tensor THEN rows[field][i] ELSE mc[field]], <<RowPad(mc, i)>>)

RowsOf(merged, rows, n) == [i \in 1..n |-> [l \in DOMAIN merged |-> RowOf(merged[l], rows[l], i)] \o <<>>] \o <<>>

splitCachesAlongBatch(merged, n) ==
    RowsOf(merged, [l \in DOMAIN merged |-> [field \in Tensor |-> splitAlongBatch(merged[l][field], n)]] \o <<>>, n)

-----------------------------------------------------------------------------
(* The adapter.                                                            *)

\* The row of a [1, L, vocab] array at the last step: [1, vocab].
lastRow(logits) ==
    IF Failed(logits) \/ Rank(logits) # 3 THEN Bad
    ELSE Reshape(Take(logits, <<Dim(logits, 1) - 1>>, 1), <<Dim(logits, 0), Dim(logits, 2)>>)

\* The rows of a cohort at the last step (of one step, for batchRows).
RowOfBatch(col, i) == Reshape(Take(col, <<i - 1>>, 0), <<1, Dim(col, 2)>>)

batchRows(logits, batch) ==
    IF Failed(logits) \/ Rank(logits) # 3 THEN [i \in 1..batch |-> Bad]
    ELSE [i \in 1..batch |-> RowOfBatch(logits, i)] \o <<>>

lastRows(logits, batch) == batchRows(IF Failed(logits) THEN Bad ELSE Take(logits, <<Dim(logits, 1) - 1>>, 1), batch)

RECURSIVE Longest(_)
Longest(prompts) ==
    IF prompts = <<>> THEN 0
    ELSE LET n == Longest(Tail(prompts)) IN IF Len(Head(prompts)) > n THEN Len(Head(prompts)) ELSE n

\* Token 0 fills the front of the shorter rows.
Padding(prompts, width) == [i \in DOMAIN prompts |-> width - Len(prompts[i])] \o <<>>

PaddedRows(prompts, width, pad) ==
    [k \in 1..Len(prompts) * width |->
        LET i == (k - 1) \div width + 1  t == (k - 1) % width
        IN IF t < pad[i] THEN 0 ELSE prompts[i][t - pad[i] + 1]] \o <<>>

leftPadCohort(prompts, width) ==
    [width |-> width, leftPad |-> Padding(prompts, width), padded |-> PaddedRows(prompts, width, Padding(prompts, width))]

\* What Forward returns of a model's forward of one sequence.
OfOne(r) == [logits |-> lastRow(r.logits), caches |-> r.caches]

\* What BatchDecode and BatchPrefill return of a model's forward of a cohort,
\* given the rows; on an error the sequences' caches stay as they were.
Failing(seqs) == [logits |-> [i \in DOMAIN seqs |-> Bad], caches |-> seqs]

Gathered(r, rows, seqs) ==
    IF Failed(r.logits) THEN Failing(seqs) ELSE [logits |-> rows, caches |-> splitCachesAlongBatch(r.caches, Len(seqs))]

OfStep(r, seqs)   == Gathered(r, batchRows(r.logits, Len(seqs)), seqs)
OfPrompt(r, seqs) == Gathered(r, lastRows(r.logits, Len(seqs)), seqs)

WithPad(merged, leftPad) == [l \in DOMAIN merged |-> SetLeftPad(merged[l], leftPad)] \o <<>>

-----------------------------------------------------------------------------
(* Weights and operations.                                                 *)

Given(opt, default) == IF opt = {} THEN default ELSE CHOOSE x \in opt : TRUE

Min2(x, y) == IF x < y THEN x ELSE y

\* The weights of modules, and of modules of one layer.
Name(l, module) == <<l, module, "weight">>
Weights(l, modules) == {Name(l, module) : module \in modules}
Biases(l, modules)  == {<<l, module, "bias">> : module \in modules}

Named(w, name) == IF name \in DOMAIN w THEN w[name] ELSE Nil

\* A packed weight of n columns is an array with another number of columns.
Packed(n) == 100 + n

\* loadQLinear: quantized if the config is and the module has scales.
Quantized(w, l, module, quant) == quant /\ <<l, module, "scales">> \in DOMAIN w

QLinearOf(w, l, module, quant) ==
    [w |-> Named(w, Name(l, module)), quantized |-> Quantized(w, l, module, quant)]

\* (The biases of a quantized module are not looked for.)
Loads_Partly(w, l, module, quant) == Name(l, module) \in DOMAIN w

\* loadQLinear fails without the weight, or without the biases of a quantized one.
Loads(w, l, module, quant) ==
    /\ Name(l, module) \in DOMAIN w
    /\ Quantized(w, l, module, quant) => <<l, module, "biases">> \in DOMAIN w

\* The shape that a quantized matrix has for the kernels.
Unpacked(shape) == [shape EXCEPT ![Len(shape)] = @ - 100]

Matrix(q) ==
    IF ~q.quantized THEN q.w ELSE IF Last(q.w.shape) < 100 THEN Bad ELSE [shape |-> Unpacked(q.w.shape), el |-> <<>>]

qlinear(x, q) == Linear(x, Matrix(q))

\* A bias that is nil is not added.
PlusBias(y, bias) == IF bias = Nil THEN y ELSE Binary(y, bias)

\* The rows of the embedding table: each token is its own atom.
qembed(q, tokens) ==
    LET hidden == IF q.quantized THEN Last(q.w.shape) - 100 ELSE Last(q.w.shape)
    IN IF hidden <= 0 THEN Bad
       ELSE [shape |-> <<Len(tokens), hidden>>,
             el |-> [k \in 1..Len(tokens) * hidden |->
                       [a |-> {<<tokens[(k - 1) \div hidden + 1]>>}, p |-> {}]] \o <<>>]

\* Rotation, at the cache's offset or at each row's own.
RECURSIVE RotatedRows(_, _, _)
RotatedRows(rows, dims, offsets) ==
    IF rows = <<>> THEN <<>>
    ELSE Append(RotatedRows(Front(rows), dims, Front(offsets)), RoPE(Last(rows), dims, Last(offsets)))

ropePerRow(x, dims, offsets) ==
    IF Len(offsets) = 1 THEN RoPE(x, dims, offsets[1])
    ELSE Concatenate(RotatedRows(Split(x, Len(offsets), 0), dims, offsets), 0)

Rotated(x, dims, cache, perRow) ==
    IF perRow = <<>> THEN RoPE(x, dims, cache.offset) ELSE ropePerRow(x, dims, perRow)

\* [batch, L, heads * dim] to [batch, heads, L, dim], and back.
Heads(x, batch, L, n, dim) == Transpose(Reshape(x, <<batch, L, n, dim>>), <<0, 2, 1, 3>>)
Unheaded(x, batch, L, width) == Reshape(Transpose(x, <<0, 2, 1, 3>>), <<batch, L, width>>)

\* silu(gate) * up, and the fused form that splits its input in two.
SwiGLU(gate, up) == Binary(gate, up)
Fused(parts) == SwiGLU(parts[1], parts[2])
FusedSwiGLU(x) == Fused(Split(x, 2, -1))

\* What the layers of one run have in common: the rows and their length, and
\* the mask, the offsets and the padding that the first cache stands for.
Block(batch, L, caches) ==
    [batch |-> batch, L |-> L, attn |-> AttnMask(caches[1], L), perRow |-> RopeOffsets(caches[1]),
     pad |-> caches[1].leftPad]

\* The cache takes the step's keys and values, and the queries attend to all
\* of it.
Attending(q, grown, b, width) ==
    [cache |-> grown, out |-> Unheaded(SDPA(q, grown.keys, grown.values, b.attn.mode, b.attn.mask), b.batch, b.L, width)]

Attention(q, k, v, cache, b, width) == Attending(q, Update(cache, k, v), b, width)

\* Queries and keys turn, and attend.
SelfAttention(q, k, v, dims, cache, b, width) ==
    Attention(Rotated(q, dims, cache, b.perRow), Rotated(k, dims, cache, b.perRow), v, cache, b, width)

\* A model m is [args, weights].  Its modules:
QOf(m, l, module) == QLinearOf(m.weights, l, module, m.args.quant)
NormOf(m, l, module, x) == RMSNorm(x, m.weights[Name(l, module)])
ProjOf(m, l, module, x) == qlinear(x, QOf(m, l, module))
HeadsOf(m, l, module, x, b, n) == Heads(ProjOf(m, l, module, x), b.batch, b.L, n, m.args.headDim)

\* down(silu(gate(x)) * up(x)).
GatedMLP(m, l, x) ==
    ProjOf(m, l, "mlp.down_proj", SwiGLU(ProjOf(m, l, "mlp.gate_proj", x), ProjOf(m, l, "mlp.up_proj", x)))

\* The first residual block of layer l, whose mixer returned [out, cache].
Residual(st, l, mixed) == [h |-> Binary(st.h, mixed.out), caches |-> [st.caches EXCEPT ![l] = mixed.cache]]

Failure(caches) == [logits |-> Bad, caches |-> caches]

\* What the layers start with, and what the final norm and the head make of
\* what the last one returns.
Start(m, tokens, b, caches) ==
    [h |-> Reshape(qembed(QOf(m, 0, "model.embed_tokens"), tokens), <<b.batch, b.L, m.args.hidden>>), caches |-> caches]

HeadName(a) == IF a.tied THEN "model.embed_tokens" ELSE "lm_head"

Logits(m, end, head) == [logits |-> ProjOf(m, 0, head, NormOf(m, 0, "model.norm", end.h)), caches |-> end.caches]

-----------------------------------------------------------------------------
(* The checkpoint that a config describes, with each array in its shape;   *)
(* if it is quantized, the linear modules are packed, with their scales.   *)

\* dims gives the shape of each module's weight; a bias has one axis.
ShapeIn(dims, name) == IF name[3] = "bias" THEN <<dims[name[2]][1]>> ELSE dims[name[2]]

Checkpoint(names, dims, linear, quant) ==
    LET packed == IF quant THEN {n \in names : n[2] \in linear /\ n[3] = "weight"} ELSE {}
        PackedShape(s) == [s EXCEPT ![Len(s)] = Packed(@)]
        extra == {<<n[1], n[2], kind>> : n \in packed, kind \in {"scales", "biases"}}
    IN [n \in names \cup extra |->
          IF n \in packed THEN [shape |-> PackedShape(ShapeIn(dims, n)), el |-> <<>>]
          ELSE IF n \in extra THEN Zeros(<<1>>) ELSE Zeros(ShapeIn(dims, n))]
-----------------------------------------------------------------------------
(* The expert MLP of the routed families (compute/models/switch_glu.go).   *)
(* From SortFrom slots on (64 in the code) the slots are sorted by expert  *)
(* before the projections and put back after them.  A selection of experts *)
(* is an array of integers [batch, L, k].                                  *)

CONSTANT SortFrom

\* The k experts of n that a row of gate values picks.  Which ones does not
\* matter here; they depend on nothing but what the row was computed from.
First(atoms)      == Cardinality(atoms) + Cardinality({b \in atoms : b[1] = 1})
Pick(el, i, n)    == (First(el.a) + i) % n

Selected(gates, k, n) ==
    [shape |-> Append(Front(gates.shape), k),
     el |-> [s \in 1..k * (Len(gates.el) \div n) |-> Pick(gates.el[((s - 1) \div k) * n + 1], (s - 1) % k, n)] \o <<>>]

Selection(gates, k) ==
    IF Failed(gates) THEN Bad ELSE IF k < 1 \/ k > Dim(gates, -1) THEN Bad ELSE Selected(gates, k, Dim(gates, -1))

\* The gate values of the selected experts, normalized or not.
ScoresOf(gates, inds, n, k) ==
    [shape |-> inds.shape, el |-> [s \in 1..Len(inds.el) |-> gates.el[((s - 1) \div k) * n + 1]] \o <<>>]

Scores(gates, inds) ==
    IF Failed(gates) \/ Failed(inds) THEN Bad ELSE ScoresOf(gates, inds, Dim(gates, -1), Dim(inds, -1))

\* gather_mm: the row of each slot times the matrix of its expert.  The
\* matrices are [experts, out, in]; x is [.., 1, in], and its leading axes
\* broadcast against those of the slots.
RowOfSlot(x, ix) == From(x, Place(x.shape, Within(x.shape, ix)), Dim(x, -1))

OfExpert(row, e) == [a |-> {Append(b, {200 + e}) : b \in Mixed(row).a}, p |-> {}]

Fitting(x, w, idx) ==
    /\ Rank(w) = 3 /\ Rank(x) = Rank(idx) + 2 /\ Dim(x, -1) = w.shape[3]
    /\ \A i \in 1..Rank(idx) : x.shape[i] \in {1, idx.shape[i]}
    /\ \A s \in DOMAIN idx.el : idx.el[s] < w.shape[1]

GatherMM(x, w, idx) ==
    IF Failed(x) \/ Failed(w) \/ Failed(idx) THEN Bad
    ELSE IF ~Fitting(x, w, idx) THEN Bad
    ELSE Array(idx.shape \o <<1, w.shape[2]>>,
               LAMBDA ix : OfExpert(RowOfSlot(x, [ix EXCEPT ![Len(ix)] = 0]), At(idx, SubSeq(ix, 1, Rank(idx)))))

\* The positions of the values in ascending order.
Argsort(x) ==
    LET n == Len(x.el)
        Rank1(i) == Cardinality({j \in 1..n : x.el[j] < x.el[i] \/ (x.el[j] = x.el[i] /\ j < i)})
    IN [x EXCEPT !.el = [r \in 1..n |-> (CHOOSE i \in 1..n : Rank1(i) = r - 1) - 1] \o <<>>]

\* A stacked projection is dense or packed; the kernels read the packed one
\* as it is.
switchLinear(x, q, idx, quantized) ==
    IF Failed(q.w) \/ Rank(q.w) # 3 THEN Bad
    ELSE IF quantized # (Last(q.w.shape) >= 100) THEN Bad
    ELSE GatherMM(x, IF quantized THEN [shape |-> Unpacked(q.w.shape), el |-> <<>>] ELSE q.w, idx)

\* (The rows come back in the order of the experts.)
Unsorted_Left(y, order) == y

\* After the sorted projections each slot gets its row back.
Unsorted(y, order) == Take(y, Argsort(order).el, 0)

Slots(inds) == Len(inds.el)

Experts(x, gate, up, down, idx, quantized) ==
    switchLinear(SwiGLU(switchLinear(x, gate, idx, quantized), switchLinear(x, up, idx, quantized)), down, idx, quantized)

\* The rows and the slots in the order of the slots' experts, and without order.
RowsInOrder(x, order, k) ==
    Take(Reshape(x, <<Dim(x, 0) * Dim(x, 1), 1, Dim(x, 2)>>), [s \in DOMAIN order.el |-> order.el[s] \div k] \o <<>>, 0)

Sorted(x, gate, up, down, flat, order, k, quantized) ==
    Unsorted(Experts(RowsInOrder(x, order, k), gate, up, down, Take(flat, order.el, 0), quantized), order)

Unordered(x) == Reshape(x, <<Dim(x, 0), Dim(x, 1), 1, 1, Dim(x, 2)>>)

Flattened(inds) == Reshape(inds, <<Slots(inds)>>)

switchGLUCore(x, gate, up, down, inds, quantized) ==
    IF Failed(x) \/ Failed(inds) THEN Bad
    ELSE IF Rank(x) # 3 \/ Rank(inds) # 3 THEN Bad
    ELSE Reshape(IF Slots(inds) < SortFrom THEN Experts(Unordered(x), gate, up, down, inds, quantized)
                 ELSE Sorted(x, gate, up, down, Flattened(inds), Argsort(Flattened(inds)), Dim(inds, 2), quantized),
                 inds.shape \o <<Dim(x, 2)>>)

\* The gate's kind decides for all three.
switchGLUFor(x, gate, up, down, inds) == switchGLUCore(x, gate, up, down, inds, gate.quantized)

\* The experts' outputs, weighted and summed over the selection.
Weighted(y, scores, batch, L, k) == SumAxis(Binary(y, Reshape(scores, <<batch, L, k, 1>>)), 2)
===============================================================================
