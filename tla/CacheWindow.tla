----------------------------- MODULE CacheWindow -----------------------------
(***************************************************************************)
(* The bookkeeping of the two cache layouts (compute/kvcache.go): where a   *)
(* step's keys go, when the buffer grows, and how the sliding window turns. *)
(* Only the indices are the code's; the buffer they are about is kept by    *)
(* the backend, and is written here as mlx_lm writes it, a slot holding the *)
(* number of its token.                                                     *)
(***************************************************************************)
EXTENDS Integers, Sequences, FiniteSets, SequencesExt

CONSTANTS
    kvStep,      \* the buffer grows by multiples of this
    Windows,     \* the layouts: <<>> for KVCache, <<MaxSize, Keep>> for the rotating one
    LongestStep, \* the most tokens of a step
    LastToken    \* bound: no token has a greater number

ASSUME WindowAssumption ==
    /\ kvStep \in Nat \ {0} /\ LongestStep \in Nat /\ LastToken \in Nat
    /\ \A w \in Windows : w = <<>> \/ (w[1] \in Nat \ {0} /\ w[2] \in 0..(w[1] - 1))

VARIABLES
    window,   \* the layout
    cache,    \* [offset, idx, capacity]
    plan,     \* the UpdatePlan of the last step: [begin, end, fetch]
    buffer,   \* the backend's buffer
    tokens,   \* history: the tokens that the cache stands for
    latest    \* history: the number of the last token

windowVars == <<window, cache, plan, buffer, tokens, latest>>

Rotates == window # <<>>
MaxSize == window[1]
Keep    == window[2]

Lesser(a, b) == IF a < b THEN a ELSE b
Zeros(n) == [i \in 1..n |-> 0]
FirstN(s, n) == SubSeq(s, 1, n)
PastN(s, n) == SubSeq(s, n + 1, Len(s))

\* s with new in the slots from begin on.
Written(s, begin, new) ==
    [i \in DOMAIN s |-> IF i \in (begin + 1)..(begin + Len(new)) THEN new[i - begin] ELSE s[i]]

\* What lies behind the tokens that are always kept, without its first n.
Dropped(s, n) == IF n <= 0 THEN s ELSE FirstN(s, Keep) \o PastN(s, Keep + n)

\* fetchEnd.
FetchEnd(c) == IF ~Rotates \/ c.offset < MaxSize THEN c.offset ELSE c.capacity

Planned(c, begin, end) == [begin |-> begin, end |-> end, fetch |-> FetchEnd(c)]

-----------------------------------------------------------------------------
(* KVCache.Update.                                                         *)

Grows(c, n) == c.capacity = 0 \/ c.offset + n > c.capacity
Block(n) == kvStep * ((kvStep + n - 1) \div kvStep)

\* The slack behind an offset that is not a multiple of the step is cut off first.
Kept(c) == IF c.offset % kvStep # 0 THEN c.offset ELSE c.capacity

UpdateKV(c, new) ==
    LET n == Len(new)
        kept == IF Grows(c, n) THEN Kept(c) ELSE c.capacity
        next == [c EXCEPT !.offset = @ + n,
                          !.capacity = IF Grows(c, n) THEN kept + Block(n) ELSE @]
    IN /\ cache' = next
       /\ plan' = Planned(next, c.offset, next.offset)
       /\ buffer' = Written(FirstN(buffer, kept) \o Zeros(next.capacity - kept), c.offset, new)

\* A step of no tokens is a plan that does nothing.
UpdateNothing(c) ==
    /\ plan' = Planned(c, c.offset, c.offset)
    /\ UNCHANGED <<cache, buffer>>

-----------------------------------------------------------------------------
(* RotatingKVCache.Update: one token goes in place, more are concatenated. *)

Rotated_ToStart(idx) == IF idx = MaxSize THEN 0 ELSE idx
Rotated(idx) == IF idx = MaxSize THEN Keep ELSE idx

UpdateInPlace(c, new) ==
    LET grows == c.capacity = 0 \/ (c.offset >= c.capacity /\ c.capacity < MaxSize)
        size  == IF grows THEN c.capacity + Lesser(kvStep, MaxSize - c.offset) ELSE c.capacity
        over  == size - MaxSize
        idx   == Rotated(IF over > 0 THEN MaxSize ELSE IF grows THEN c.offset ELSE c.idx)
        next  == [offset |-> c.offset + 1, idx |-> idx + 1, capacity |-> Lesser(size, MaxSize)]
    IN /\ cache' = next
       /\ plan' = Planned(next, idx, idx + 1)
       /\ buffer' = Written(Dropped(buffer \o Zeros(size - c.capacity), over), idx, new)

\* temporalOrderCapacity, and the order itself.
TemporalCapacity(c) ==
    IF c.idx = c.capacity \/ c.idx < c.offset THEN c.capacity ELSE c.idx
TemporalOrder(c) ==
    IF c.idx = c.capacity THEN buffer
    ELSE IF c.idx < c.offset
    THEN FirstN(buffer, Keep) \o PastN(buffer, c.idx) \o SubSeq(buffer, Keep + 1, c.idx)
    ELSE FirstN(buffer, c.idx)

\* How many of the tokens are too old for the first of the new ones.
TooOld_ByOne(size) == size - MaxSize + 2
TooOld(size) == size - MaxSize + 1

UpdateConcat(c, new) ==
    LET n    == Len(new)
        size == TemporalCapacity(c)
        old  == TooOld(size)
        all  == (IF c.capacity = 0 THEN 0 ELSE IF old > 0 THEN size - old ELSE size) + n
        next == [offset |-> c.offset + n, idx |-> all, capacity |-> all]
    IN /\ cache' = next
       /\ plan' = Planned(next, c.offset, next.offset)
       /\ buffer' = (IF c.capacity = 0 THEN <<>> ELSE Dropped(TemporalOrder(c), old)) \o new

-----------------------------------------------------------------------------
WindowInit ==
    /\ window \in Windows
    /\ cache = [offset |-> 0, idx |-> 0, capacity |-> 0]
    /\ plan = [begin |-> 0, end |-> 0, fetch |-> 0]
    /\ buffer = <<>> /\ tokens = <<>> /\ latest = 0

UpdateCache(n) ==
    /\ latest + n <= LastToken
    /\ LET new == [i \in 1..n |-> latest + i] IN
       /\ IF ~Rotates THEN IF n = 0 THEN UpdateNothing(cache) ELSE UpdateKV(cache, new)
          ELSE IF n = 1 THEN UpdateInPlace(cache, new) ELSE UpdateConcat(cache, new)
       /\ tokens' = tokens \o new
    /\ latest' = latest + n
    /\ UNCHANGED window

\* The window can be trimmed until it is full (IsTrimmable).
TrimCache(n) ==
    /\ Rotates => cache.offset < MaxSize
    /\ LET k == Lesser(n, cache.offset) IN
       /\ cache' = [cache EXCEPT !.offset = @ - k, !.idx = IF Rotates THEN @ - k ELSE @]
       /\ tokens' = FirstN(tokens, Len(tokens) - k)
       /\ plan' = Planned(cache', cache'.offset, cache'.offset)
    /\ UNCHANGED <<window, buffer, latest>>

\* (A step of the rotating layout has a token at least.)
WindowNext ==
    \/ \E n \in 0..LongestStep : (Rotates => n > 0) /\ UpdateCache(n)
    \/ \E n \in 1..LongestStep : TrimCache(n)

WindowSpec == WindowInit /\ [][WindowNext]_windowVars

-----------------------------------------------------------------------------
\* How many of the last tokens each query of the last step still sees.
Recent ==
    IF ~Rotates THEN Len(tokens)
    ELSE Lesser(Len(tokens), MaxSize - Keep
                   + (IF plan.end - plan.begin > 1 THEN plan.end - plan.begin - 1 ELSE 0))

\* What attention is given, the slots up to FetchEnd, is made of the tokens that are
\* there, each once: all of them, in order, or, where the window turns, those that
\* are kept and the recent ones; no slot that was never written, that was trimmed or
\* that is too old.  And the buffer is as long as the bookkeeping says.
WindowExact ==
    LET seen == FirstN(buffer, plan.fetch) IN
    /\ Len(buffer) = cache.capacity /\ plan.fetch <= cache.capacity
    /\ ~Rotates => seen = tokens
    /\ Rotates =>
         /\ IsInjective(seen) /\ Range(seen) \subseteq Range(tokens)
         /\ Range(PastN(tokens, Len(tokens) - Recent)) \subseteq Range(seen)
         /\ Range(FirstN(tokens, Lesser(Keep, Len(tokens)))) \subseteq Range(seen)
=============================================================================
