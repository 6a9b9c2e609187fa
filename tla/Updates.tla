-------------------------------- MODULE Updates -------------------------------
(***************************************************************************)
(* The update check of the admin panel: versions as PEP 440 writes and     *)
(* orders them (release/version.go), the latest stable one of the releases *)
(* that GitHub lists (release/select.go), and the offer that is made of it  *)
(* (release/update.go).  What is listed, in which order, and when it is    *)
(* asked for is up to others.                                              *)
(*                                                                          *)
(* A number is a number; a word of a local version is a negative number,   *)
(* such that words are ordered as these are.                               *)
(***************************************************************************)
EXTENDS Integers, Sequences, FiniteSetsExt

CONSTANTS
    Lists,         \* what GitHub may list: sequences of [tag, draft, prerelease]
    Running        \* tags: what may be installed to begin with

\* A part that is written is nothing, a letter, or a letter and a number.
IsPart(tag, key) ==
    key \in DOMAIN tag => \/ tag[key] = <<>>
                          \/ Len(tag[key]) = 1
                          \/ Len(tag[key]) = 2 /\ tag[key][2] \in Nat
IsTag(tag) ==
    "release" \in DOMAIN tag =>
        /\ tag.epoch \in Nat /\ tag.release \in Seq(Nat)
        /\ IsPart(tag, "pre") /\ IsPart(tag, "post") /\ IsPart(tag, "dev")
        /\ "local" \in DOMAIN tag => tag.local \in Seq(Int)
ASSUME ReleaseAssumption ==
    /\ \A tag \in Running : IsTag(tag)
    /\ \A list \in Lists : /\ list \in Seq([tag : {list[i].tag : i \in DOMAIN list},
                                             draft : BOOLEAN, prerelease : BOOLEAN])
                          /\ \A i \in DOMAIN list : IsTag(list[i].tag)

VARIABLES
    scan,      \* SelectLatestStableRelease in its loop: [list, at, best: its index, or 0]
    current,   \* the tag of the running version
    offer      \* the release that is offered, as a sequence of none or one

releaseVars == <<scan, current, offer>>

-----------------------------------------------------------------------------
(* ParseVersion: a tag is written as [epoch, release, pre, post, dev, local], *)
(* of which all but the first two may be missing, or it is no version.       *)

None == [present |-> FALSE, letter |-> "", num |-> 0]
LetterNum(letter, num) == [present |-> TRUE, letter |-> letter, num |-> num]

Letter(written) ==
    CASE written = "alpha" -> "a"
      [] written = "beta" -> "b"
      [] written \in {"c", "pre", "preview"} -> "rc"
      [] written \in {"rev", "r", ""} -> "post"
      [] OTHER -> written

\* What is written is nothing, <<letter>> or <<letter, number>>; "-N" has no letter.
ParseLetterVersion(written) ==
    IF written = <<>> THEN None
    ELSE LetterNum(Letter(written[1]), IF Len(written) > 1 THEN written[2] ELSE 0)

IsVersion(tag) == "release" \in DOMAIN tag
PartOf(tag, key) == IF key \in DOMAIN tag THEN tag[key] ELSE <<>>

ParseVersion(tag) ==
    [epoch |-> tag.epoch, release |-> tag.release,
     pre |-> ParseLetterVersion(PartOf(tag, "pre")),
     post |-> ParseLetterVersion(PartOf(tag, "post")),
     dev |-> ParseLetterVersion(PartOf(tag, "dev")),
     hasLoc |-> "local" \in DOMAIN tag, local |-> PartOf(tag, "local")]

IsPrerelease(v) == v.pre.present \/ v.dev.present

-----------------------------------------------------------------------------
(* Compare: -1, 0 or 1.                                                     *)

CmpInt(a, b) == IF a < b THEN -1 ELSE IF a > b THEN 1 ELSE 0

\* The first that makes a difference.
Otherwise(c, next) == IF c # 0 THEN c ELSE next

\* Where two sequences differ first decides, else their lengths.
Differ(a, b) == {i \in DOMAIN a \cap DOMAIN b : a[i] # b[i]}
CmpInts(a, b) ==
    IF Differ(a, b) = {} THEN CmpInt(Len(a), Len(b))
    ELSE CmpInt(a[Min(Differ(a, b))], b[Min(Differ(a, b))])

StripTrailingZeros_None(r) == r
StripTrailingZeros(r) == SubSeq(r, 1, Max({0} \cup {i \in DOMAIN r : r[i] # 0}))

LetterRank(letter) ==
    CASE letter = "a" -> 1 [] letter = "b" -> 2 [] letter = "post" -> 3 [] letter = "rc" -> 4
      [] OTHER -> 0

\* A release of which there is only a dev version comes before its pre-releases.
PreRank(v) ==
    IF ~v.pre.present /\ ~v.post.present /\ v.dev.present THEN -1
    ELSE IF ~v.pre.present THEN 1 ELSE 0

CmpPre(v, w) ==
    IF PreRank(v) # PreRank(w) THEN CmpInt(PreRank(v), PreRank(w))
    ELSE IF PreRank(v) # 0 THEN 0
    ELSE Otherwise(CmpInt(LetterRank(v.pre.letter), LetterRank(w.pre.letter)),
                   CmpInt(v.pre.num, w.pre.num))

Rank(part, absent) == IF part.present THEN 0 ELSE absent
CmpPart(a, b, absent) ==
    IF Rank(a, absent) # Rank(b, absent) THEN CmpInt(Rank(a, absent), Rank(b, absent))
    ELSE IF ~a.present THEN 0 ELSE CmpInt(a.num, b.num)
CmpPost(a, b) == CmpPart(a, b, -1)
CmpDev(a, b)  == CmpPart(a, b, 1)

CmpLocal(v, w) ==
    IF v.hasLoc # w.hasLoc THEN (IF v.hasLoc THEN 1 ELSE -1)
    ELSE IF ~v.hasLoc THEN 0 ELSE CmpInts(v.local, w.local)

Compare(v, w) ==
    Otherwise(CmpInt(v.epoch, w.epoch),
    Otherwise(CmpInts(StripTrailingZeros(v.release), StripTrailingZeros(w.release)),
    Otherwise(CmpPre(v, w),
    Otherwise(CmpPost(v.post, w.post),
    Otherwise(CmpDev(v.dev, w.dev), CmpLocal(v, w))))))

-----------------------------------------------------------------------------
(* The check.                                                              *)

\* GitHub's own flag is not trusted alone.
IsStable(r) ==
    /\ ~r.draft /\ ~r.prerelease /\ IsVersion(r.tag)
    /\ ~IsPrerelease(ParseVersion(r.tag))

Newer(tag, than) == Compare(ParseVersion(tag), ParseVersion(than)) > 0

\* Is r chosen over the best so far?
Better(r, best) == IsStable(r) /\ (best = 0 \/ Newer(r.tag, scan.list[best].tag))

\* BuildUpdateResult: no offer that is not newer than what runs.
Offered(best) ==
    IF best # 0 /\ IsVersion(scan.list[best].tag) /\ IsVersion(current)
         /\ Newer(scan.list[best].tag, current)
    THEN <<scan.list[best]>> ELSE <<>>

NoScan == [list |-> <<>>, at |-> 0, best |-> 0]

ReleaseInit == scan = NoScan /\ current \in Running /\ offer = <<>>

\* SelectLatestStableRelease is called with what was fetched.
Fetch(list) ==
    /\ scan.at = 0
    /\ scan' = [list |-> list, at |-> 1, best |-> 0]
    /\ UNCHANGED <<current, offer>>

Consider ==
    /\ scan.at \in DOMAIN scan.list
    /\ scan' = [scan EXCEPT !.at = @ + 1,
                            !.best = IF Better(scan.list[scan.at], @) THEN scan.at ELSE @]
    /\ UNCHANGED <<current, offer>>

BuildUpdateResult ==
    /\ scan.at > Len(scan.list)
    /\ offer' = Offered(scan.best) /\ scan' = NoScan
    /\ UNCHANGED current

\* The user takes the offer.
Install ==
    /\ offer # <<>>
    /\ current' = offer[1].tag /\ offer' = <<>>
    /\ UNCHANGED scan

ReleaseNext ==
    \/ \E list \in Lists : Fetch(list)
    \/ Consider \/ BuildUpdateResult \/ Install

ReleaseSpec == ReleaseInit /\ [][ReleaseNext]_releaseVars

-----------------------------------------------------------------------------
\* Whatever is listed and in which order, the loop has the latest of the stable
\* releases so far, of equal ones the first, and none if there is none.
BestIsLatest ==
    LET seen == {i \in DOMAIN scan.list : i < scan.at /\ IsStable(scan.list[i])} IN
    IF seen = {} THEN scan.best = 0
    ELSE /\ scan.best \in seen
         /\ \A i \in seen : ~Newer(scan.list[i].tag, scan.list[scan.best].tag)
         /\ \A i \in seen : i < scan.best => Newer(scan.list[scan.best].tag, scan.list[i].tag)

\* Only a stable release is ever installed, an update is never a step back, and never
\* one to the same version, however its number is written: 1.0 is 1.0.0.
Number(r, i) == IF i \in DOMAIN r THEN r[i] ELSE 0
SameNumber(r, s) == \A i \in DOMAIN r \cup DOMAIN s : Number(r, i) = Number(s, i)
IsFinal(tag) == DOMAIN tag = {"epoch", "release"}
UpdatesGoUp ==
    [][current' # current =>
          /\ IsVersion(current) /\ IsVersion(current')
          /\ ~IsPrerelease(ParseVersion(current')) /\ Newer(current', current)
          /\ IsFinal(current) /\ IsFinal(current') /\ current.epoch = current'.epoch
               => ~SameNumber(current.release, current'.release)]_releaseVars

\* What is offered is the latest, and what is installed is an update.
UpdatesSound == []BestIsLatest /\ UpdatesGoUp
=============================================================================
