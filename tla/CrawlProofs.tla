----------------------------- MODULE CrawlProofs -----------------------------
(***************************************************************************)
(* Proofs about the two crawls that keep a cursor: HistorySync, for any    *)
(* streams, page sizes and numbers of pages a tick, for page tokens of     *)
(* either kind, and however often a sync is cut short, implements          *)
(* HistoryLedger; VaultIndex, for any sizes of chunks and windows and any  *)
(* number of callers, skips no block.                                      *)
(*                                                                         *)
(* The invariant of the history says what a cursor stands for: the rows up *)
(* to its anchor are recorded, and so are those between the page it goes   *)
(* on from and the head of its sweep.  Its parts are operators on the      *)
(* values of a stream, so that their lemmas speak of no state.             *)
(***************************************************************************)
EXTENDS HistorySync, VaultIndex, SequenceTheorems, WellFoundedInduction, TLAPS

CursorType == [page : Nat, anchor : Nat, pendingHead : Nat,
               backfillComplete : BOOLEAN, syncedThrough : Nat, sweepStartedAt : Nat]
JobType == [at : {"idle", "read", "save", "store"}, now : Nat, state : CursorType,
            left : Int, first : Nat, np : Nat]

HistoryTypes ==
    /\ feed \in [Streams -> Seq(Nat)] /\ clock \in Nat
    /\ cursor \in [Streams -> CursorType]
    /\ saved \in [Streams -> SUBSET Nat]
    /\ sync \in [Streams -> JobType]

(* Wanted and PageStart, of the feed f of a stream.                        *)
Ours(f, i) == i \notin Foreign /\ f[i] >= HistoryFrom
Start(f, page) ==
    IF page = 0 THEN Len(f) ELSE IF ByOffset THEN Len(f) - page ELSE page

(* Rows low + 1 .. high of ours are recorded.                              *)
Recorded(f, sv, low, high) ==
    \A i \in 1 .. Len(f) : low < i /\ i <= high /\ Ours(f, i) => i \in sv

FeedTrue(f, sv, clk) ==
    /\ \A i \in 1 .. Len(f) : f[i] <= clk
    /\ \A i \in sv : i \in 1 .. Len(f) /\ Ours(f, i)

(* What the cursor c of a stream stands for, given its feed f and the rows *)
(* sv that are recorded.                                                   *)
CursorTrue(c, f, sv, clk) ==
    /\ c.page <= Len(f) /\ c.anchor <= Len(f) /\ c.pendingHead <= Len(f)
    /\ c.syncedThrough <= clk /\ c.sweepStartedAt <= clk
    /\ Recorded(f, sv, 0, c.anchor)
    /\ \A i \in 1 .. Len(f) : Ours(f, i) /\ f[i] < c.syncedThrough => i \in sv
    /\ c.page = 0 => c.pendingHead = 0
    /\ c.page # 0 =>
          /\ c.pendingHead # 0 /\ c.syncedThrough <= c.sweepStartedAt
          /\ Recorded(f, sv, Start(f, c.page), c.pendingHead)
          /\ \A i \in 1 .. Len(f) : i > c.pendingHead => f[i] >= c.sweepStartedAt

(* What the worker of a stream has in hand.                                *)
JobTrue(got, c, f, sv, clk) ==
    /\ got.at # "idle" => got.state = c /\ got.now <= clk /\ c.syncedThrough <= got.now
    /\ got.at \in {"save", "store"} =>
          /\ got.first <= Len(f) /\ got.np <= Len(f)
          /\ got.np = 0 <=> Rest(got.first) = 0
          /\ got.np # 0 => Start(f, got.np) >= Rest(got.first)
          /\ c.page # 0 => Recorded(f, sv, got.first, c.pendingHead)
          /\ c.page = 0 => \A i \in 1 .. Len(f) : i > got.first => f[i] >= got.now
    /\ got.at = "store" =>
          Recorded(f, sv, IF AnchorFound(got) THEN c.anchor ELSE Rest(got.first), got.first)

StreamTrue(s) ==
    /\ FeedTrue(feed[s], saved[s], clock)
    /\ CursorTrue(cursor[s], feed[s], saved[s], clock)
    /\ JobTrue(sync[s], cursor[s], feed[s], saved[s], clock)

HistoryInv == HistoryTypes /\ \A s \in Streams : StreamTrue(s)

-----------------------------------------------------------------------------
LEMMA MinimalElement ==
    ASSUME NEW R, IsWellFoundedOn(R, Nat), NEW T, T \subseteq Nat, T # {}
    PROVE  \E x \in T : \A y \in T : ~(<<y, x>> \in R)
  BY WFMin, Zenon

LEMMA LeastByOrder ==
    ASSUME NEW R, IsWellFoundedOn(R, Nat), \A x, y \in Nat : x < y => <<x, y>> \in R,
           NEW T, T \subseteq Nat, T # {}
    PROVE  \E x \in T : \A y \in T : x <= y
  <1>1. PICK x \in T : \A y \in T : ~(<<y, x>> \in R)
    BY MinimalElement, Zenon
  <1>2. ASSUME NEW y \in T PROVE x <= y
    <2>1. ~(<<y, x>> \in R)
      BY <1>1
    <2>2. x \in Nat /\ y \in Nat /\ (y < x => <<y, x>> \in R)
      OBVIOUS
    <2>3. ~(y < x)
      BY <2>1, <2>2, Zenon
    <2> QED BY <2>2, <2>3
  <1> QED BY <1>2

LEMMA LeastNatural ==
    ASSUME NEW T, T \subseteq Nat, T # {}
    PROVE  \E x \in T : \A y \in T : x <= y
  <1> DEFINE R == OpToRel(<, Nat)
  <1>1. IsWellFoundedOn(R, Nat)
    BY NatLessThanWellFounded
  <1>2. \A x, y \in Nat : x < y => <<x, y>> \in R
    BY DEF OpToRel
  <1> HIDE DEF R
  <1> QED BY <1>1, <1>2, LeastByOrder

(* The claim of completeness is the least of the streams', or none.        *)
Complete(cur) == \A s \in Streams : cur[s].backfillComplete /\ cur[s].syncedThrough # 0

Least(cur) ==
    IF Complete(cur)
    THEN CHOOSE t \in {cur[s].syncedThrough : s \in Streams} :
             \A s \in Streams : t <= cur[s].syncedThrough
    ELSE 0

LEMMA LeastFacts ==
    ASSUME NEW cur \in [Streams -> CursorType]
    PROVE  /\ Least(cur) \in Nat /\ \A s \in Streams : Least(cur) <= cur[s].syncedThrough
           /\ ~Complete(cur) => Least(cur) = 0
           /\ Complete(cur) => \E s \in Streams : Least(cur) = cur[s].syncedThrough
  <1> DEFINE T == {cur[s].syncedThrough : s \in Streams}
  <1>1. T \subseteq Nat /\ T # {} /\ \A s \in Streams : cur[s].syncedThrough \in Nat
    BY HistoryAssumption DEF HistoryAssumption, CursorType
  <1>2. CASE Complete(cur)
    <2>1. Least(cur) = CHOOSE t \in T : \A s \in Streams : t <= cur[s].syncedThrough
      BY <1>2 DEF Least
    <2>2. \E t \in T : \A u \in T : t <= u
      BY <1>1, LeastNatural
    <2>3. \E t \in T : \A s \in Streams : t <= cur[s].syncedThrough
      BY <2>2
    <2>4. Least(cur) \in T /\ \A s \in Streams : Least(cur) <= cur[s].syncedThrough
      BY <2>1, <2>3
    <2> QED BY <1>1, <1>2, <2>4
  <1>3. CASE ~Complete(cur)
    BY <1>1, <1>3 DEF Least
  <1> QED BY <1>2, <1>3

LEMMA LeastOnlyGrows ==
    ASSUME NEW old \in [Streams -> CursorType], NEW new \in [Streams -> CursorType],
           \A s \in Streams : /\ old[s].syncedThrough <= new[s].syncedThrough
                              /\ old[s].backfillComplete => new[s].backfillComplete
    PROVE  Least(old) <= Least(new)
  <1>1. \A s \in Streams : old[s].syncedThrough \in Nat /\ new[s].syncedThrough \in Nat
    BY DEF CursorType
  <1>2. /\ Least(old) \in Nat /\ \A s \in Streams : Least(old) <= old[s].syncedThrough
        /\ ~Complete(old) => Least(old) = 0
    BY LeastFacts
  <1>3. /\ Least(new) \in Nat
        /\ Complete(new) => \E s \in Streams : Least(new) = new[s].syncedThrough
    BY LeastFacts
  <1>4. CASE Complete(old)
    <2>1. Complete(new)
      BY <1>1, <1>4 DEF Complete
    <2>2. PICK s \in Streams : Least(new) = new[s].syncedThrough
      BY <1>3, <2>1
    <2> QED BY <1>1, <1>2, <1>3, <2>2
  <1>5. CASE ~Complete(old)
    BY <1>2, <1>3, <1>5
  <1> QED BY <1>4, <1>5

LEMMA CoveredIsLeast == Covered = Least(cursor) /\ Covered' = Least(cursor')
  BY DEF Covered, Least, Complete

-----------------------------------------------------------------------------
(* What is true of a stream stays true while rows arrive at the head, rows *)
(* are recorded and time passes.                                           *)
LEMMA AppendFacts ==
    ASSUME NEW f \in Seq(Nat), NEW clk \in Nat
    PROVE  /\ Append(f, clk) \in Seq(Nat) /\ Len(f) \in Nat /\ Len(Append(f, clk)) = Len(f) + 1
           /\ Append(f, clk)[Len(f) + 1] = clk
           /\ \A i \in 1 .. Len(f) : Append(f, clk)[i] = f[i] /\ f[i] \in Nat
  BY LenProperties, ElementOfSeq

LEMMA StreamGrows ==
    ASSUME NEW f \in Seq(Nat), NEW sv \in SUBSET Nat, NEW clk \in Nat, NEW c \in CursorType,
           NEW got \in JobType,
           FeedTrue(f, sv, clk), CursorTrue(c, f, sv, clk), JobTrue(got, c, f, sv, clk),
           NEW g \in Seq(Nat), g = f \/ g = Append(f, clk)
    PROVE  FeedTrue(g, sv, clk) /\ CursorTrue(c, g, sv, clk) /\ JobTrue(got, c, g, sv, clk)
  <1>1. CASE g = f
    BY <1>1
  <1>2. CASE g = Append(f, clk)
    <2>1. /\ Len(f) \in Nat /\ Len(g) = Len(f) + 1 /\ g[Len(f) + 1] = clk
          /\ \A i \in 1 .. Len(f) : g[i] = f[i] /\ f[i] \in Nat
      BY <1>2, AppendFacts
    <2> HIDE <1>2
    <2>2. \A i \in 1 .. Len(f) : Ours(g, i) <=> Ours(f, i)
      BY <2>1 DEF Ours
    <2>3. \A low \in Nat, high \in Nat :
             Recorded(f, sv, low, high) /\ high <= Len(f) => Recorded(g, sv, low, high)
      <3> SUFFICES ASSUME NEW low \in Nat, NEW high \in Nat,
                          Recorded(f, sv, low, high), high <= Len(f),
                          NEW i \in 1 .. Len(g), low < i, i <= high, Ours(g, i)
                   PROVE  i \in sv
        BY DEF Recorded
      <3>1. i \in 1 .. Len(f) /\ Ours(f, i)
        BY <2>1, <2>2
      <3> QED BY <3>1 DEF Recorded
    <2>4. /\ c.page \in Nat /\ c.anchor \in Nat /\ c.pendingHead \in Nat
          /\ c.syncedThrough \in Nat /\ c.sweepStartedAt \in Nat
      BY DEF CursorType
    <2>5. got.first \in Nat /\ got.np \in Nat /\ got.now \in Nat /\ Rest(got.first) \in Nat
      BY HistoryAssumption DEF JobType, Rest, HistoryAssumption
    <2>6. \A page \in 1 .. Len(f) : /\ Start(f, page) \in Nat /\ Start(g, page) \in Nat
                                    /\ Start(f, page) <= Start(g, page)
      BY <2>1 DEF Start
    <2>7. FeedTrue(g, sv, clk)
      BY <2>1, <2>2 DEF FeedTrue
    <2>8. CursorTrue(c, g, sv, clk)
      <3>1. ASSUME NEW i \in 1 .. Len(g), Ours(g, i), g[i] < c.syncedThrough
            PROVE  i \in sv
        <4>1. /\ c.syncedThrough <= clk
              /\ \A k \in 1 .. Len(f) : Ours(f, k) /\ f[k] < c.syncedThrough => k \in sv
          BY DEF CursorTrue
        <4>2. i \in 1 .. Len(f)
          <5>1. CASE i = Len(f) + 1
            BY <2>1, <2>4, <3>1, <4>1, <5>1
          <5>2. CASE i # Len(f) + 1
            BY <2>1, <5>2
          <5> QED BY <5>1, <5>2
        <4>3. Ours(f, i) /\ f[i] < c.syncedThrough
          BY <2>1, <2>2, <3>1, <4>2
        <4> QED BY <4>1, <4>2, <4>3
      <3>2. Recorded(g, sv, 0, c.anchor)
        BY <2>3, <2>4 DEF CursorTrue
      <3>3. CASE c.page # 0
        <4>1. c.page \in 1 .. Len(f)
          BY <2>1, <2>4, <3>3 DEF CursorTrue
        <4>2. Recorded(g, sv, Start(f, c.page), c.pendingHead)
          BY <2>3, <2>4, <2>6, <3>3, <4>1 DEF CursorTrue
        <4>3. Recorded(g, sv, Start(g, c.page), c.pendingHead)
          BY <2>1, <2>6, <4>1, <4>2 DEF Recorded
        <4>4. ASSUME NEW i \in 1 .. Len(g), i > c.pendingHead
              PROVE  g[i] >= c.sweepStartedAt
          <5>1. /\ c.sweepStartedAt <= clk
                /\ \A k \in 1 .. Len(f) : k > c.pendingHead => f[k] >= c.sweepStartedAt
            BY <3>3 DEF CursorTrue
          <5>2. CASE i \in 1 .. Len(f)
            BY <2>1, <4>4, <5>1, <5>2
          <5>3. CASE i = Len(f) + 1
            BY <2>1, <2>4, <5>1, <5>3
          <5> QED BY <2>1, <5>2, <5>3
        <4> QED BY <2>1, <2>4, <3>1, <3>2, <3>3, <4>3, <4>4 DEF CursorTrue
      <3>4. CASE c.page = 0
        BY <2>1, <2>4, <3>1, <3>2, <3>4 DEF CursorTrue
      <3> QED BY <3>3, <3>4
    <2>9. JobTrue(got, c, g, sv, clk)
      <3>1. CASE got.at \in {"save", "store"}
        <4>1. got.np # 0 => Start(g, got.np) >= Rest(got.first)
          <5> SUFFICES ASSUME got.np # 0 PROVE Start(g, got.np) >= Rest(got.first)
            OBVIOUS
          <5>1. got.np <= Len(f) /\ Start(f, got.np) >= Rest(got.first)
            BY <3>1 DEF JobTrue
          <5>2. got.np \in 1 .. Len(f)
            BY <2>1, <2>5, <5>1
          <5>3. Start(f, got.np) <= Start(g, got.np) /\ {Start(f, got.np), Start(g, got.np)} \subseteq Nat
            BY <2>6, <5>2
          <5> QED BY <2>5, <5>1, <5>3
        <4>2. c.page # 0 => Recorded(g, sv, got.first, c.pendingHead)
          BY <2>3, <2>4, <2>5, <3>1 DEF JobTrue, CursorTrue
        <4>3. ASSUME c.page = 0, NEW i \in 1 .. Len(g), i > got.first
              PROVE  g[i] >= got.now
          <5>1. /\ got.now <= clk
                /\ \A k \in 1 .. Len(f) : k > got.first => f[k] >= got.now
            BY <3>1, <4>3 DEF JobTrue
          <5>2. CASE i \in 1 .. Len(f)
            BY <2>1, <4>3, <5>1, <5>2
          <5>3. CASE i = Len(f) + 1
            BY <2>1, <2>5, <5>1, <5>3
          <5> QED BY <2>1, <5>2, <5>3
        <4>4. got.at = "store" =>
                 Recorded(g, sv, IF AnchorFound(got) THEN c.anchor ELSE Rest(got.first), got.first)
          BY <2>3, <2>4, <2>5, <3>1 DEF JobTrue
        <4> QED BY <2>1, <2>5, <3>1, <4>1, <4>2, <4>3, <4>4 DEF JobTrue
      <3>2. CASE got.at \notin {"save", "store"}
        BY <3>2 DEF JobTrue
      <3> QED BY <3>1, <3>2
    <2> QED BY <2>7, <2>8, <2>9
  <1> QED BY <1>1, <1>2

LEMMA MoreRecorded ==
    ASSUME NEW f \in Seq(Nat), NEW sv \in SUBSET Nat, NEW clk \in Nat, NEW c \in CursorType,
           NEW got \in JobType,
           FeedTrue(f, sv, clk), CursorTrue(c, f, sv, clk), JobTrue(got, c, f, sv, clk),
           NEW tv, sv \subseteq tv, \A i \in tv : i \in sv \/ (i \in 1 .. Len(f) /\ Ours(f, i)),
           NEW later \in Nat, clk <= later
    PROVE  FeedTrue(f, tv, later) /\ CursorTrue(c, f, tv, later) /\ JobTrue(got, c, f, tv, later)
  <1>1. \A low, high : Recorded(f, sv, low, high) => Recorded(f, tv, low, high)
    BY DEF Recorded
  <1>2. /\ Len(f) \in Nat /\ \A i \in 1 .. Len(f) : f[i] \in Nat
        /\ c.syncedThrough \in Nat /\ c.sweepStartedAt \in Nat /\ got.now \in Nat
    BY LenProperties, ElementOfSeq DEF CursorType, JobType
  <1>3. FeedTrue(f, tv, later)
    BY <1>2 DEF FeedTrue
  <1>4. CursorTrue(c, f, tv, later)
    BY <1>1, <1>2 DEF CursorTrue
  <1>5. JobTrue(got, c, f, tv, later)
    <2>1. got.at # "idle" => got.state = c /\ got.now <= later /\ c.syncedThrough <= got.now
      BY <1>2 DEF JobTrue
    <2> QED BY <1>1, <2>1 DEF JobTrue
  <1> QED BY <1>3, <1>4, <1>5

-----------------------------------------------------------------------------
(* The page in hand: it goes on from the row the cursor stands at, or from *)
(* a newer one when rows pushed in at the head meanwhile.                  *)
PageInHand(got, f) ==
    LET first == Start(f, got.state.page)
    IN  [got EXCEPT !.at = "save", !.first = first,
                    !.np = IF Rest(first) = 0 THEN 0
                           ELSE IF ByOffset THEN Len(f) - Rest(first) ELSE Rest(first)]

LEMMA PageIsRead ==
    ASSUME NEW f \in Seq(Nat), NEW sv \in SUBSET Nat, NEW clk \in Nat, NEW c \in CursorType,
           NEW got \in JobType, got.at = "read",
           FeedTrue(f, sv, clk), CursorTrue(c, f, sv, clk), JobTrue(got, c, f, sv, clk)
    PROVE  PageInHand(got, f) \in JobType /\ JobTrue(PageInHand(got, f), c, f, sv, clk)
  <1> DEFINE first == Start(f, c.page)
             np == IF Rest(first) = 0 THEN 0 ELSE IF ByOffset THEN Len(f) - Rest(first) ELSE Rest(first)
             new == [got EXCEPT !.at = "save", !.first = first, !.np = np]
  <1>1. /\ Len(f) \in Nat /\ PageSize \in Nat \ {0} /\ c.page \in Nat /\ c.page <= Len(f)
        /\ got.state = c
    BY LenProperties, HistoryAssumption DEF CursorType, CursorTrue, HistoryAssumption, JobTrue
  <1>2. PageInHand(got, f) = new
    BY <1>1 DEF PageInHand
  <1>3. first \in Nat /\ first <= Len(f)
    BY <1>1 DEF Start
  <1> HIDE DEF first
  <1>4. Rest(first) \in Nat /\ (Rest(first) # 0 => Rest(first) < first)
    BY <1>1, <1>3 DEF Rest
  <1>5. np \in Nat /\ np <= Len(f) /\ (np = 0 <=> Rest(first) = 0)
    BY <1>1, <1>3, <1>4
  <1>6. np # 0 => Start(f, np) >= Rest(first)
    BY <1>1, <1>3, <1>4 DEF Start
  <1>7. c.page # 0 => Recorded(f, sv, first, c.pendingHead)
    BY DEF CursorTrue, first
  <1>8. c.page = 0 => \A i \in 1 .. Len(f) : i > first => f[i] >= got.now
    BY <1>1 DEF first, Start
  <1> HIDE DEF np
  <1>9. /\ new \in JobType /\ new.at = "save" /\ new.first = first /\ new.np = np
        /\ new.state = got.state /\ new.now = got.now
    BY <1>3, <1>5 DEF JobType
  <1> HIDE DEF new
  <1>10. JobTrue(new, c, f, sv, clk)
    BY <1>1, <1>3, <1>5, <1>6, <1>7, <1>8, <1>9 DEF JobTrue
  <1> QED BY <1>2, <1>9, <1>10

(* The rows of the page in hand are recorded.                              *)
FreshOf(got, f) ==
    {i \in (IF AnchorFound(got) THEN got.state.anchor ELSE Rest(got.first)) + 1 .. got.first : Ours(f, i)}

LEMMA PageIsSaved ==
    ASSUME NEW f \in Seq(Nat), NEW sv \in SUBSET Nat, NEW clk \in Nat, NEW c \in CursorType,
           NEW got \in JobType, got.at = "save",
           FeedTrue(f, sv, clk), CursorTrue(c, f, sv, clk), JobTrue(got, c, f, sv, clk)
    PROVE  LET tv  == sv \cup FreshOf(got, f)
               new == [got EXCEPT !.at = "store"]
           IN  /\ tv \in SUBSET Nat /\ new \in JobType
               /\ FeedTrue(f, tv, clk) /\ CursorTrue(c, f, tv, clk) /\ JobTrue(new, c, f, tv, clk)
  <1> DEFINE tv  == sv \cup FreshOf(got, f)
             new == [got EXCEPT !.at = "store"]
             low == IF AnchorFound(got) THEN c.anchor ELSE Rest(got.first)
  <1>1. /\ Len(f) \in Nat /\ got.first \in Nat /\ got.first <= Len(f) /\ got.state = c
        /\ c.anchor \in Nat /\ low \in Nat
    <2>1. Len(f) \in Nat /\ got.first \in Nat /\ c.anchor \in Nat /\ PageSize \in Nat
      BY LenProperties, HistoryAssumption DEF JobType, CursorType, HistoryAssumption
    <2>2. got.first <= Len(f) /\ got.state = c
      BY DEF JobTrue
    <2>3. Rest(got.first) \in Nat
      BY <2>1 DEF Rest
    <2> QED BY <2>1, <2>2, <2>3
  <1>2. FreshOf(got, f) = {i \in low + 1 .. got.first : Ours(f, i)}
    BY <1>1 DEF FreshOf
  <1>3. /\ new \in JobType /\ new.at = "store" /\ new.first = got.first /\ new.np = got.np
        /\ new.state = got.state /\ new.now = got.now
    BY DEF JobType
  <1>4. AnchorFound(new) <=> AnchorFound(got)
    BY <1>3 DEF AnchorFound
  <1> HIDE DEF new, low
  <1>5. tv \in SUBSET Nat /\ \A i \in tv : i \in sv \/ (i \in 1 .. Len(f) /\ Ours(f, i))
    <2>1. \A i \in FreshOf(got, f) : i \in 1 .. Len(f) /\ Ours(f, i) /\ i \in Nat
      BY <1>1, <1>2
    <2> QED BY <2>1
  <1>6. Recorded(f, tv, low, got.first)
    BY <1>1, <1>2 DEF Recorded
  <1>7. sv \subseteq tv
    OBVIOUS
  <1> HIDE DEF tv
  <1>8. FeedTrue(f, tv, clk) /\ CursorTrue(c, f, tv, clk) /\ JobTrue(got, c, f, tv, clk)
    <2>1. clk <= clk
      OBVIOUS
    <2> QED BY <1>5, <1>7, <2>1, MoreRecorded
  <1>9. JobTrue(new, c, f, tv, clk)
    BY <1>1, <1>3, <1>4, <1>6, <1>8 DEF JobTrue, low
  <1> QED BY <1>3, <1>5, <1>9, <1>8 DEF new, tv

(* The cursor behind the page in hand.                                     *)
LEMMA CursorMovesOn ==
    ASSUME NEW f \in Seq(Nat), NEW sv \in SUBSET Nat, NEW clk \in Nat, NEW c \in CursorType,
           NEW got \in JobType, got.at = "store",
           FeedTrue(f, sv, clk), CursorTrue(c, f, sv, clk), JobTrue(got, c, f, sv, clk)
    PROVE  /\ NextState(got) \in CursorType /\ CursorTrue(NextState(got), f, sv, clk)
           /\ c.syncedThrough <= NextState(got).syncedThrough
           /\ c.backfillComplete => NextState(got).backfillComplete
           /\ ~SweepDone(got) => NextState(got).syncedThrough = c.syncedThrough
  <1> DEFINE head    == IF c.pendingHead # 0 \/ c.page # 0 THEN c.pendingHead ELSE got.first
             started == IF c.page = 0 THEN got.now ELSE c.sweepStartedAt
             low     == IF AnchorFound(got) THEN c.anchor ELSE Rest(got.first)
             next    == NextState(got)
  <1>1. /\ Len(f) \in Nat /\ \A i \in 1 .. Len(f) : f[i] \in Nat
        /\ c.page \in Nat /\ c.anchor \in Nat /\ c.pendingHead \in Nat
        /\ c.syncedThrough \in Nat /\ c.sweepStartedAt \in Nat /\ c.backfillComplete \in BOOLEAN
        /\ got.first \in Nat /\ got.np \in Nat /\ got.now \in Nat /\ PageSize \in Nat \ {0}
    BY LenProperties, ElementOfSeq, HistoryAssumption DEF CursorType, JobType, HistoryAssumption
  <1>2. /\ got.state = c /\ got.now <= clk /\ c.syncedThrough <= got.now
        /\ got.first <= Len(f) /\ got.np <= Len(f)
        /\ got.np = 0 <=> Rest(got.first) = 0
        /\ got.np # 0 => Start(f, got.np) >= Rest(got.first)
        /\ c.page # 0 => Recorded(f, sv, got.first, c.pendingHead)
        /\ c.page = 0 => \A i \in 1 .. Len(f) : i > got.first => f[i] >= got.now
        /\ Recorded(f, sv, low, got.first)
    BY DEF JobTrue
  <1>3. /\ c.page <= Len(f) /\ c.anchor <= Len(f) /\ c.pendingHead <= Len(f)
        /\ c.syncedThrough <= clk /\ c.sweepStartedAt <= clk
        /\ Recorded(f, sv, 0, c.anchor)
        /\ \A i \in 1 .. Len(f) : Ours(f, i) /\ f[i] < c.syncedThrough => i \in sv
        /\ c.page = 0 => c.pendingHead = 0
        /\ c.page # 0 =>
              /\ c.pendingHead # 0 /\ c.syncedThrough <= c.sweepStartedAt
              /\ \A i \in 1 .. Len(f) : i > c.pendingHead => f[i] >= c.sweepStartedAt
    BY DEF CursorTrue
  <1>4. /\ head \in Nat /\ head <= Len(f) /\ started \in Nat /\ started <= clk
        /\ c.syncedThrough <= started /\ Rest(got.first) \in Nat /\ low \in Nat
        /\ \A i \in 1 .. Len(f) : i > head => f[i] >= started
    <2>1. Rest(got.first) \in Nat /\ low \in Nat
      BY <1>1 DEF Rest
    <2>2. CASE c.page = 0
      BY <1>1, <1>2, <1>3, <2>1, <2>2
    <2>3. CASE c.page # 0
      BY <1>1, <1>2, <1>3, <2>1, <2>3
    <2> QED BY <2>2, <2>3
  <1>5. Recorded(f, sv, low, head)
    <2>1. CASE c.page = 0
      <3>1. head = got.first
        BY <1>3, <2>1
      <3> QED BY <1>2, <3>1
    <2>2. CASE c.page # 0
      <3> HIDE DEF low
      <3>1. head = c.pendingHead
        BY <2>2
      <3>2. Recorded(f, sv, got.first, c.pendingHead) /\ Recorded(f, sv, low, got.first)
        BY <1>2, <2>2
      <3> QED BY <1>1, <1>4, <3>1, <3>2 DEF Recorded
    <2> QED BY <2>1, <2>2
  <1>6. CASE SweepDone(got)
    <2> DEFINE anchor == IF head # 0 THEN head ELSE c.anchor
               through == IF started # 0 THEN started ELSE c.syncedThrough
    <2>1. next = [page |-> 0, pendingHead |-> 0, anchor |-> anchor, backfillComplete |-> TRUE,
                  syncedThrough |-> through, sweepStartedAt |-> 0]
      BY <1>2, <1>6 DEF NextState
    <2>2. Recorded(f, sv, 0, head)
      <3>1. CASE AnchorFound(got)
        <4>1. Recorded(f, sv, c.anchor, head)
          BY <1>5, <3>1
        <4> HIDE DEF head
        <4> QED BY <1>1, <1>3, <1>4, <4>1 DEF Recorded
      <3>2. CASE ~AnchorFound(got)
        <4>1. Rest(got.first) = 0
          BY <1>2, <1>6, <3>2 DEF SweepDone
        <4> QED BY <1>5, <3>2, <4>1
      <3> QED BY <3>1, <3>2
    <2>3. /\ anchor \in Nat /\ anchor <= Len(f) /\ Recorded(f, sv, 0, anchor)
          /\ through \in Nat /\ through <= clk /\ c.syncedThrough <= through
      <3> HIDE DEF head, started
      <3> QED BY <1>1, <1>3, <1>4, <2>2
    <2>4. \A i \in 1 .. Len(f) : Ours(f, i) /\ f[i] < through => i \in sv
      <3> HIDE DEF head, started
      <3> SUFFICES ASSUME NEW i \in 1 .. Len(f), Ours(f, i), f[i] < through PROVE i \in sv
        OBVIOUS
      <3>1. CASE started # 0
        <4>1. f[i] < started /\ f[i] \in Nat
          BY <1>1, <3>1
        <4>2. ~(i > head)
          BY <1>4, <4>1
        <4>3. 0 < i /\ i <= head
          BY <1>1, <1>4, <4>2
        <4> QED BY <2>2, <4>3 DEF Recorded
      <3>2. CASE started = 0
        BY <1>3, <3>2
      <3> QED BY <3>1, <3>2
    <2> HIDE DEF anchor, through, head, started
    <2>5. /\ next \in CursorType /\ next.page = 0 /\ next.pendingHead = 0 /\ next.anchor = anchor
          /\ next.syncedThrough = through /\ next.sweepStartedAt = 0 /\ next.backfillComplete
      BY <2>1, <2>3 DEF CursorType
    <2>6. CursorTrue(next, f, sv, clk)
      <3> HIDE DEF next
      <3> QED BY <1>1, <1>3, <2>3, <2>4, <2>5 DEF CursorTrue
    <2> QED BY <1>6, <2>3, <2>5, <2>6
  <1>7. CASE ~SweepDone(got)
    <2>1. /\ next = [c EXCEPT !.page = got.np, !.pendingHead = head, !.sweepStartedAt = started]
          /\ ~AnchorFound(got) /\ got.np # 0 /\ low = Rest(got.first)
      BY <1>2, <1>7 DEF NextState, SweepDone
    <2>2. head # 0
      <3>1. Rest(got.first) # 0
        BY <1>2, <2>1
      <3> QED BY <1>1, <1>3, <3>1 DEF Rest
    <2>3. Start(f, got.np) \in Nat
      BY <1>1, <1>2, <2>1 DEF Start
    <2>4. Recorded(f, sv, Start(f, got.np), head)
      <3> HIDE DEF head, low
      <3> QED BY <1>1, <1>2, <1>4, <1>5, <2>1, <2>3 DEF Recorded
    <2> HIDE DEF head, started, low
    <2>5. /\ next \in CursorType /\ next.page = got.np /\ next.pendingHead = head
          /\ next.anchor = c.anchor /\ next.syncedThrough = c.syncedThrough
          /\ next.sweepStartedAt = started /\ next.backfillComplete = c.backfillComplete
      BY <1>1, <1>4, <2>1 DEF CursorType
    <2>6. CursorTrue(next, f, sv, clk)
      <3> HIDE DEF next
      <3> QED BY <1>1, <1>2, <1>3, <1>4, <2>1, <2>2, <2>4, <2>5 DEF CursorTrue
    <2> QED BY <1>1, <2>5, <2>6
  <1> QED BY <1>6, <1>7

-----------------------------------------------------------------------------
(* The rows that happened and those that are recorded, as the ledger sees  *)
(* them.                                                                   *)
HappenedRows == UNION {{Entry(s, i) : i \in {j \in Rows(s) : Wanted(s, j)}} : s \in Streams}
RecordedRows == UNION {{Entry(s, i) : i \in saved[s]} : s \in Streams}

LedgerStep == [Ledger!LedgerNext]_(Ledger!ledgerVars)

LEMMA Stutters ==
    ASSUME UNCHANGED <<HappenedRows, RecordedRows, Covered>>
    PROVE  LedgerStep
  BY DEF LedgerStep, Ledger!ledgerVars, HappenedRows, RecordedRows

LEMMA IsRecording ==
    ASSUME UNCHANGED <<HappenedRows, Covered>>,
           RecordedRows \subseteq RecordedRows', RecordedRows' \subseteq HappenedRows
    PROVE  LedgerStep
  BY DEF LedgerStep, Ledger!LedgerNext, Ledger!Record, HappenedRows, RecordedRows

LEMMA IsClaim ==
    ASSUME UNCHANGED <<HappenedRows, RecordedRows>>, Covered' >= Covered,
           \A row \in HappenedRows : row.at < Covered' => row \in RecordedRows
    PROVE  LedgerStep
  BY DEF LedgerStep, Ledger!LedgerNext, Ledger!Claim, HappenedRows, RecordedRows

LEMMA IsHappening ==
    ASSUME UNCHANGED <<RecordedRows, Covered>>, HappenedRows \subseteq HappenedRows',
           \A row \in HappenedRows' \ HappenedRows :
              row \in [stream : Streams, row : Nat \ {0}, at : Nat] /\ row.at >= Covered
    PROVE  LedgerStep
  BY DEF LedgerStep, Ledger!LedgerNext, Ledger!Happen, HappenedRows, RecordedRows

(* What StreamTrue says in terms of a stream's own definitions.            *)
LEMMA SameWords ==
    ASSUME NEW s \in Streams
    PROVE  /\ Rows(s) = 1 .. Len(feed[s])
           /\ \A i : Wanted(s, i) <=> Ours(feed[s], i)
           /\ \A page : PageStart(s, page) = Start(feed[s], page)
           /\ Fresh(s) = FreshOf(sync[s], feed[s])
  BY DEF Rows, Wanted, Ours, PageStart, Start, Fresh, FreshOf

LEMMA RowsThatHappened ==
    /\ \A row : row \in HappenedRows <=>
          \E t \in Streams : \E i \in 1 .. Len(feed[t]) :
             Ours(feed[t], i) /\ row = [stream |-> t, row |-> i, at |-> feed[t][i]]
    /\ \A row : row \in HappenedRows' <=>
          \E t \in Streams : \E i \in 1 .. Len(feed'[t]) :
             Ours(feed'[t], i) /\ row = [stream |-> t, row |-> i, at |-> feed'[t][i]]
  BY DEF HappenedRows, Rows, Wanted, Ours, Entry

LEMMA HistoryInvInit == HistoryInit => HistoryInv /\ Ledger!LedgerInit
  <1> SUFFICES ASSUME HistoryInit PROVE HistoryInv /\ Ledger!LedgerInit
    OBVIOUS
  <1> USE DEF HistoryInit
  <1>1. NoCursor \in CursorType /\ Idle \in JobType
    BY DEF NoCursor, Idle, CursorType, JobType
  <1>2. HistoryTypes
    BY <1>1 DEF HistoryTypes
  <1>3. ASSUME NEW s \in Streams PROVE StreamTrue(s)
    <2>1. /\ feed[s] = <<>> /\ saved[s] = {} /\ cursor[s] = NoCursor /\ sync[s] = Idle
          /\ clock = 1 /\ Len(feed[s]) = 0
      OBVIOUS
    <2>2. FeedTrue(<<>>, {}, 1)
      BY DEF FeedTrue
    <2>3. CursorTrue(NoCursor, <<>>, {}, 1)
      BY DEF CursorTrue, NoCursor, Recorded
    <2>4. JobTrue(Idle, NoCursor, <<>>, {}, 1)
      BY DEF JobTrue, Idle
    <2> QED BY <2>1, <2>2, <2>3, <2>4 DEF StreamTrue
  <1>4. Covered = 0
    <2>1. PICK s \in Streams : TRUE
      BY HistoryAssumption DEF HistoryAssumption
    <2>2. ~cursor[s].backfillComplete
      BY DEF NoCursor
    <2> QED BY <2>2 DEF Covered
  <1>5. HappenedRows = {} /\ RecordedRows = {}
    BY DEF HappenedRows, RecordedRows, Rows
  <1> QED BY <1>2, <1>3, <1>4, <1>5 DEF HistoryInv, Ledger!LedgerInit, HappenedRows, RecordedRows

(* Steps of the workers that record nothing and move no cursor.            *)
LEMMA WorkerStep ==
    ASSUME HistoryInv, UNCHANGED <<feed, cursor, saved>>, clock' \in Nat, clock <= clock',
           sync' \in [Streams -> JobType],
           \A s \in Streams : \/ sync'[s] = sync[s]
                              \/ JobTrue(sync'[s], cursor[s], feed[s], saved[s], clock)
    PROVE  HistoryInv' /\ LedgerStep
  <1>1. HistoryTypes'
    BY DEF HistoryInv, HistoryTypes
  <1>2. ASSUME NEW s \in Streams PROVE StreamTrue(s)'
    <2>1. /\ feed[s] \in Seq(Nat) /\ saved[s] \in SUBSET Nat /\ clock \in Nat
          /\ cursor[s] \in CursorType /\ sync'[s] \in JobType /\ sync[s] \in JobType
      BY DEF HistoryInv, HistoryTypes
    <2>2. /\ FeedTrue(feed[s], saved[s], clock) /\ CursorTrue(cursor[s], feed[s], saved[s], clock)
          /\ JobTrue(sync'[s], cursor[s], feed[s], saved[s], clock)
      BY DEF HistoryInv, StreamTrue
    <2>3. /\ saved[s] \subseteq saved[s]
          /\ \A i \in saved[s] : i \in saved[s] \/ (i \in 1 .. Len(feed[s]) /\ Ours(feed[s], i))
      OBVIOUS
    <2>4. /\ FeedTrue(feed[s], saved[s], clock') /\ CursorTrue(cursor[s], feed[s], saved[s], clock')
          /\ JobTrue(sync'[s], cursor[s], feed[s], saved[s], clock')
      BY <2>1, <2>2, <2>3, MoreRecorded
    <2> QED BY <2>4 DEF StreamTrue
  <1>3. LedgerStep
    <2>1. UNCHANGED <<HappenedRows, RecordedRows>>
      BY DEF HappenedRows, RecordedRows, Rows, Wanted, Entry
    <2>2. UNCHANGED Covered
      BY CoveredIsLeast
    <2> QED BY <2>1, <2>2, Stutters
  <1> QED BY <1>1, <1>2, <1>3 DEF HistoryInv

(* Steps that record rows of one stream.                                   *)
LEMMA RecordStep ==
    ASSUME HistoryInv, NEW s \in Streams, UNCHANGED <<feed, cursor, clock>>,
           NEW tv \in SUBSET Nat, saved[s] \subseteq tv, saved' = [saved EXCEPT ![s] = tv],
           \A i \in tv : i \in saved[s] \/ (i \in 1 .. Len(feed[s]) /\ Ours(feed[s], i)),
           NEW got \in JobType, sync' = [sync EXCEPT ![s] = got],
           JobTrue(got, cursor[s], feed[s], tv, clock)
    PROVE  HistoryInv' /\ LedgerStep
  <1>1. /\ feed[s] \in Seq(Nat) /\ saved[s] \in SUBSET Nat /\ clock \in Nat
        /\ cursor[s] \in CursorType /\ sync[s] \in JobType
        /\ saved \in [Streams -> SUBSET Nat] /\ sync \in [Streams -> JobType]
    BY DEF HistoryInv, HistoryTypes
  <1>2. /\ saved'[s] = tv /\ sync'[s] = got
        /\ \A t \in Streams \ {s} : saved'[t] = saved[t] /\ sync'[t] = sync[t]
        /\ \A t \in Streams : saved[t] \subseteq saved'[t]
    BY <1>1
  <1>3. HistoryTypes'
    BY <1>1 DEF HistoryInv, HistoryTypes
  <1>4. ASSUME NEW t \in Streams PROVE StreamTrue(t)'
    <2>1. CASE t = s
      <3>1. /\ FeedTrue(feed[s], saved[s], clock) /\ CursorTrue(cursor[s], feed[s], saved[s], clock)
            /\ JobTrue(sync[s], cursor[s], feed[s], saved[s], clock) /\ clock <= clock
        BY <1>1 DEF HistoryInv, StreamTrue
      <3>2. FeedTrue(feed[s], tv, clock) /\ CursorTrue(cursor[s], feed[s], tv, clock)
        BY <1>1, <3>1, MoreRecorded
      <3> QED BY <1>2, <2>1, <3>2 DEF StreamTrue
    <2>2. CASE t # s
      BY <1>2, <2>2 DEF HistoryInv, StreamTrue
    <2> QED BY <2>1, <2>2
  <1>5. HappenedRows' = HappenedRows /\ Covered' = Covered
    BY CoveredIsLeast DEF HappenedRows, Rows, Wanted, Entry
  <1>6. RecordedRows \subseteq RecordedRows' /\ RecordedRows' \subseteq HappenedRows
    <2>1. \A t \in Streams : \A i \in saved'[t] : i \in Rows(t) /\ Wanted(t, i)
      <3> SUFFICES ASSUME NEW t \in Streams, NEW i \in saved'[t] PROVE i \in Rows(t) /\ Wanted(t, i)
        OBVIOUS
      <3>1. i \in 1 .. Len(feed[t]) /\ Ours(feed[t], i)
        <4>1. CASE i \in saved[t]
          BY <4>1 DEF HistoryInv, StreamTrue, FeedTrue
        <4>2. CASE i \notin saved[t]
          BY <1>2, <4>2
        <4> QED BY <4>1, <4>2
      <3> QED BY <3>1, SameWords
    <2> QED BY <1>2, <2>1 DEF RecordedRows, HappenedRows, Entry
  <1> QED BY <1>3, <1>4, <1>5, <1>6, IsRecording DEF HistoryInv

LEMMA IdleJob == Idle \in JobType /\ \A c, f, sv, clk : JobTrue(Idle, c, f, sv, clk)
  <1>1. Idle \in JobType
    BY DEF Idle, JobType, NoCursor, CursorType
  <1>2. Idle.at = "idle"
    BY DEF Idle
  <1>3. \A c, f, sv, clk : JobTrue(Idle, c, f, sv, clk)
    BY <1>2 DEF JobTrue
  <1> QED BY <1>1, <1>3

LEMMA QuietStepsAreSafe ==
    ASSUME HistoryInv, StartSync \/ Crash \/ TimePasses
    PROVE  HistoryInv' /\ LedgerStep
  <1>1. /\ UNCHANGED <<feed, cursor, saved>> /\ clock \in Nat
        /\ sync \in [Streams -> JobType] /\ cursor \in [Streams -> CursorType]
    BY DEF HistoryInv, HistoryTypes, StartSync, Crash, TimePasses
  <1>2. CASE StartSync
    <2> DEFINE new(s) == [at |-> "read", now |-> clock, state |-> cursor[s],
                          left |-> PagesPerTick, first |-> 0, np |-> 0]
    <2>1. sync' = [s \in Streams |-> new(s)] /\ clock' = clock
      BY <1>2 DEF StartSync
    <2>2. ASSUME NEW s \in Streams
          PROVE  new(s) \in JobType /\ JobTrue(new(s), cursor[s], feed[s], saved[s], clock)
      <3>1. PagesPerTick \in Int /\ cursor[s] \in CursorType
        BY <1>1, HistoryAssumption DEF HistoryAssumption
      <3>2. cursor[s].syncedThrough <= clock
        BY DEF HistoryInv, StreamTrue, CursorTrue
      <3>3. new(s) \in JobType
        BY <1>1, <3>1 DEF JobType
      <3>4. JobTrue(new(s), cursor[s], feed[s], saved[s], clock)
        BY <1>1, <3>2 DEF JobTrue
      <3> QED BY <3>3, <3>4
    <2>3. sync' \in [Streams -> JobType]
      BY <2>1, <2>2
    <2>4. \A s \in Streams : JobTrue(sync'[s], cursor[s], feed[s], saved[s], clock)
      BY <2>1, <2>2
    <2> QED BY <1>1, <2>1, <2>3, <2>4, WorkerStep
  <1>3. CASE Crash
    <2>1. sync' = [s \in Streams |-> Idle] /\ clock' = clock
      BY <1>3 DEF Crash
    <2>2. sync' \in [Streams -> JobType]
      BY <2>1, IdleJob
    <2>3. \A s \in Streams : JobTrue(sync'[s], cursor[s], feed[s], saved[s], clock)
      BY <2>1, IdleJob
    <2> QED BY <1>1, <2>1, <2>2, <2>3, WorkerStep
  <1>4. CASE TimePasses
    <2>1. sync' = sync /\ clock' \in Nat /\ clock <= clock'
      BY <1>1, <1>4 DEF TimePasses
    <2> QED BY <1>1, <2>1, WorkerStep
  <1> QED BY <1>2, <1>3, <1>4

LEMMA ReadingIsSafe ==
    ASSUME HistoryInv, NEW s \in Streams, ReadPage(s)
    PROVE  HistoryInv' /\ LedgerStep
  <1>1. /\ UNCHANGED <<feed, cursor, saved, clock>> /\ clock \in Nat
        /\ sync \in [Streams -> JobType] /\ sync[s] \in JobType /\ cursor[s] \in CursorType
        /\ feed[s] \in Seq(Nat) /\ saved[s] \in SUBSET Nat
    BY DEF HistoryInv, HistoryTypes, ReadPage
  <1>2. /\ FeedTrue(feed[s], saved[s], clock) /\ CursorTrue(cursor[s], feed[s], saved[s], clock)
        /\ JobTrue(sync[s], cursor[s], feed[s], saved[s], clock) /\ sync[s].at = "read"
    BY DEF HistoryInv, StreamTrue, ReadPage
  <1> DEFINE new == PageInHand(sync[s], feed[s])
  <1>3. new \in JobType /\ JobTrue(new, cursor[s], feed[s], saved[s], clock)
    BY <1>1, <1>2, PageIsRead
  <1>4. sync' = [sync EXCEPT ![s] = new]
    <2> DEFINE first == PageStart(s, sync[s].state.page)
    <2>1. sync' = [sync EXCEPT ![s].at = "save", ![s].first = first, ![s].np = NextPage(s, first)]
      BY DEF ReadPage
    <2>2. first = Start(feed[s], sync[s].state.page)
      BY SameWords
    <2>3. new = [sync[s] EXCEPT !.at = "save", !.first = first, !.np = NextPage(s, first)]
      BY <2>2 DEF PageInHand, NextPage
    <2> HIDE DEF new, first
    <2> QED BY <1>1, <2>1, <2>3
  <1> HIDE DEF new
  <1>5. sync' \in [Streams -> JobType]
    BY <1>1, <1>3, <1>4
  <1>6. \A t \in Streams : \/ sync'[t] = sync[t]
                           \/ JobTrue(sync'[t], cursor[t], feed[t], saved[t], clock)
    BY <1>1, <1>3, <1>4
  <1> QED BY <1>1, <1>5, <1>6, WorkerStep

LEMMA SavingIsSafe ==
    ASSUME HistoryInv, NEW s \in Streams, SaveRows(s)
    PROVE  HistoryInv' /\ LedgerStep
  <1>1. /\ UNCHANGED <<feed, cursor, clock>> /\ clock \in Nat
        /\ sync \in [Streams -> JobType] /\ sync[s] \in JobType /\ cursor[s] \in CursorType
        /\ feed[s] \in Seq(Nat) /\ saved[s] \in SUBSET Nat
    BY DEF HistoryInv, HistoryTypes, SaveRows
  <1>2. /\ FeedTrue(feed[s], saved[s], clock) /\ CursorTrue(cursor[s], feed[s], saved[s], clock)
        /\ JobTrue(sync[s], cursor[s], feed[s], saved[s], clock) /\ sync[s].at = "save"
    BY DEF HistoryInv, StreamTrue, SaveRows
  <1> DEFINE tv  == saved[s] \cup FreshOf(sync[s], feed[s])
             new == [sync[s] EXCEPT !.at = "store"]
  <1>3. /\ tv \in SUBSET Nat /\ new \in JobType
        /\ FeedTrue(feed[s], tv, clock) /\ JobTrue(new, cursor[s], feed[s], tv, clock)
    BY <1>1, <1>2, PageIsSaved
  <1>4. saved' = [saved EXCEPT ![s] = tv] /\ sync' = [sync EXCEPT ![s] = new]
    BY SameWords DEF SaveRows
  <1>5. saved[s] \subseteq tv
    OBVIOUS
  <1> HIDE DEF tv, new
  <1>6. \A i \in tv : i \in saved[s] \/ (i \in 1 .. Len(feed[s]) /\ Ours(feed[s], i))
    BY <1>3 DEF FeedTrue
  <1> QED BY <1>1, <1>3, <1>4, <1>5, <1>6, RecordStep

LEMMA StoringIsSafe ==
    ASSUME HistoryInv, NEW s \in Streams, StoreCursor(s)
    PROVE  HistoryInv' /\ LedgerStep
  <1>1. /\ UNCHANGED <<feed, saved, clock>> /\ clock \in Nat
        /\ sync \in [Streams -> JobType] /\ sync[s] \in JobType
        /\ cursor \in [Streams -> CursorType] /\ cursor[s] \in CursorType
        /\ feed[s] \in Seq(Nat) /\ saved[s] \in SUBSET Nat
    BY DEF HistoryInv, HistoryTypes, StoreCursor
  <1>2. /\ FeedTrue(feed[s], saved[s], clock) /\ CursorTrue(cursor[s], feed[s], saved[s], clock)
        /\ JobTrue(sync[s], cursor[s], feed[s], saved[s], clock) /\ sync[s].at = "store"
    BY DEF HistoryInv, StreamTrue, StoreCursor
  <1> DEFINE next == NextState(sync[s])
             new  == IF SweepDone(sync[s]) \/ sync[s].left = 1 THEN Idle
                     ELSE [sync[s] EXCEPT !.at = "read", !.state = next, !.left = @ - 1,
                                          !.first = 0, !.np = 0]
  <1>3. /\ next \in CursorType /\ CursorTrue(next, feed[s], saved[s], clock)
        /\ cursor[s].syncedThrough <= next.syncedThrough
        /\ cursor[s].backfillComplete => next.backfillComplete
        /\ ~SweepDone(sync[s]) => next.syncedThrough = cursor[s].syncedThrough
    BY <1>1, <1>2, CursorMovesOn
  <1>4. cursor' = [cursor EXCEPT ![s] = next] /\ sync' = [sync EXCEPT ![s] = new]
    BY DEF StoreCursor
  <1> HIDE DEF next
  <1>5. new \in JobType /\ JobTrue(new, next, feed[s], saved[s], clock)
    <2>1. CASE SweepDone(sync[s]) \/ sync[s].left = 1
      BY <2>1, IdleJob
    <2>2. CASE ~(SweepDone(sync[s]) \/ sync[s].left = 1)
      <3>1. new = [sync[s] EXCEPT !.at = "read", !.state = next, !.left = @ - 1,
                                  !.first = 0, !.np = 0]
        BY <2>2
      <3> HIDE DEF new
      <3>4. sync[s].left - 1 \in Int /\ DOMAIN sync[s] = {"at", "now", "state", "left", "first", "np"}
        BY <1>1 DEF JobType
      <3>5. /\ new.at = "read" /\ new.state = next /\ new.now = sync[s].now
            /\ new.left = sync[s].left - 1 /\ new.first = 0 /\ new.np = 0
        BY <3>1, <3>4
      <3>6. new = [at |-> "read", now |-> sync[s].now, state |-> next,
                   left |-> sync[s].left - 1, first |-> 0, np |-> 0]
        BY <1>1, <3>1 DEF JobType
      <3>2. new \in JobType /\ new.at = "read" /\ new.state = next /\ new.now = sync[s].now
        BY <1>1, <1>3, <3>4, <3>5, <3>6 DEF JobType
      <3>3. sync[s].now <= clock /\ next.syncedThrough <= sync[s].now
        BY <1>2, <1>3, <2>2 DEF JobTrue
      <3>7. JobTrue(new, next, feed[s], saved[s], clock)
        BY <3>2, <3>3 DEF JobTrue
      <3> QED BY <3>2, <3>7
    <2> QED BY <2>1, <2>2
  <1> HIDE DEF new
  <1>6. /\ cursor'[s] = next /\ sync'[s] = new
        /\ \A t \in Streams \ {s} : cursor'[t] = cursor[t] /\ sync'[t] = sync[t]
        /\ cursor' \in [Streams -> CursorType] /\ sync' \in [Streams -> JobType]
    BY <1>1, <1>3, <1>4, <1>5
  <1>7. HistoryTypes'
    BY <1>1, <1>6 DEF HistoryInv, HistoryTypes
  <1>8. ASSUME NEW t \in Streams PROVE StreamTrue(t)'
    <2>1. CASE t = s
      BY <1>1, <1>2, <1>3, <1>5, <1>6, <2>1 DEF StreamTrue
    <2>2. CASE t # s
      BY <1>1, <1>6, <2>2 DEF HistoryInv, StreamTrue
    <2> QED BY <2>1, <2>2
  <1>9. UNCHANGED <<HappenedRows, RecordedRows>>
    BY <1>1 DEF HappenedRows, RecordedRows, Rows, Wanted, Entry
  <1>10. Covered' >= Covered
    <2>1. \A t \in Streams : /\ cursor[t].syncedThrough <= cursor'[t].syncedThrough
                             /\ cursor[t].backfillComplete => cursor'[t].backfillComplete
      <3>1. \A t \in Streams : cursor[t].syncedThrough \in Nat
        BY <1>1 DEF CursorType
      <3> QED BY <1>3, <1>6, <3>1
    <2>2. Least(cursor) <= Least(cursor') /\ Least(cursor) \in Nat /\ Least(cursor') \in Nat
      BY <1>1, <1>6, <2>1, LeastOnlyGrows, LeastFacts
    <2> QED BY <2>2, CoveredIsLeast
  <1>11. ASSUME NEW row \in HappenedRows, row.at < Covered' PROVE row \in RecordedRows
    <2>1. PICK t \in Streams : \E i \in 1 .. Len(feed[t]) :
             Ours(feed[t], i) /\ row = [stream |-> t, row |-> i, at |-> feed[t][i]]
      BY RowsThatHappened
    <2>2. PICK i \in 1 .. Len(feed[t]) :
             Ours(feed[t], i) /\ row = Entry(t, i) /\ row.at = feed[t][i]
      BY <2>1 DEF Entry
    <2>3. Least(cursor') \in Nat /\ Least(cursor') <= cursor'[t].syncedThrough
      BY <1>6, LeastFacts
    <2>4. feed[t][i] \in Nat /\ cursor'[t].syncedThrough \in Nat
      <3>1. feed[t] \in Seq(Nat) /\ cursor'[t] \in CursorType
        BY <1>6 DEF HistoryInv, HistoryTypes
      <3>2. feed[t][i] \in Nat
        BY <2>2, <3>1, ElementOfSeq
      <3> QED BY <3>1, <3>2 DEF CursorType
    <2>5. feed[t][i] < cursor'[t].syncedThrough
      BY <1>11, <2>2, <2>3, <2>4, CoveredIsLeast
    <2>6. CursorTrue(cursor'[t], feed[t], saved[t], clock)
      BY <1>1, <1>8 DEF StreamTrue
    <2>7. i \in saved[t]
      BY <2>2, <2>5, <2>6 DEF CursorTrue
    <2> QED BY <2>2, <2>7 DEF RecordedRows
  <1> QED BY <1>7, <1>8, <1>9, <1>10, <1>11, IsClaim DEF HistoryInv

LEMMA CuttingIsSafe ==
    ASSUME HistoryInv, NEW s \in Streams, CutShort(s)
    PROVE  HistoryInv' /\ LedgerStep
  <1>1. /\ UNCHANGED <<feed, cursor, clock>> /\ clock \in Nat
        /\ saved \in [Streams -> SUBSET Nat] /\ saved[s] \in SUBSET Nat
        /\ sync' = [sync EXCEPT ![s] = Idle] /\ sync[s] \in JobType
        /\ feed[s] \in Seq(Nat) /\ cursor[s] \in CursorType
    BY DEF HistoryInv, HistoryTypes, CutShort
  <1>2. PICK part \in SUBSET Fresh(s) :
           /\ saved' = [saved EXCEPT ![s] = saved[s] \cup part]
           /\ part # {} => sync[s].at = "save"
    <2>1. CASE UNCHANGED saved
      <3>1. saved' = [saved EXCEPT ![s] = saved[s] \cup {}]
        BY <1>1, <2>1
      <3> QED BY <3>1
    <2>2. CASE ~UNCHANGED saved
      <3>1. sync[s].at = "save"
        BY <2>2 DEF CutShort
      <3>2. PICK low \in Fresh(s) : saved' = [saved EXCEPT ![s] = @ \cup {i \in Fresh(s) : i >= low}]
        BY <2>2 DEF CutShort
      <3>3. {i \in Fresh(s) : i >= low} \in SUBSET Fresh(s)
        OBVIOUS
      <3> QED BY <3>1, <3>2, <3>3
    <2> QED BY <2>1, <2>2
  <1> DEFINE tv == saved[s] \cup part
  <1>3. \A i \in part : i \in 1 .. Len(feed[s]) /\ Ours(feed[s], i)
    <2>1. CASE part = {}
      BY <2>1
    <2>2. CASE part # {}
      <3>1. sync[s].at = "save"
        BY <1>2, <2>2
      <3>2. /\ FeedTrue(feed[s], saved[s], clock) /\ CursorTrue(cursor[s], feed[s], saved[s], clock)
            /\ JobTrue(sync[s], cursor[s], feed[s], saved[s], clock)
        BY DEF HistoryInv, StreamTrue
      <3>3. FeedTrue(feed[s], saved[s] \cup FreshOf(sync[s], feed[s]), clock)
        BY <1>1, <3>1, <3>2, PageIsSaved
      <3>4. part \subseteq FreshOf(sync[s], feed[s])
        BY SameWords
      <3> QED BY <3>3, <3>4 DEF FeedTrue
    <2> QED BY <2>1, <2>2
  <1>4. /\ tv \in SUBSET Nat /\ saved[s] \subseteq tv
        /\ \A i \in tv : i \in saved[s] \/ (i \in 1 .. Len(feed[s]) /\ Ours(feed[s], i))
    BY <1>1, <1>3
  <1>5. saved' = [saved EXCEPT ![s] = tv]
    BY <1>2
  <1> HIDE DEF tv
  <1> QED BY <1>1, <1>4, <1>5, IdleJob, RecordStep

LEMMA ArrivalIsSafe ==
    ASSUME HistoryInv, NEW s \in Streams, RowArrives(s)
    PROVE  HistoryInv' /\ LedgerStep
  <1>1. /\ UNCHANGED <<clock, cursor, saved, sync>> /\ clock \in Nat
        /\ feed \in [Streams -> Seq(Nat)] /\ feed[s] \in Seq(Nat)
        /\ feed' = [feed EXCEPT ![s] = Append(feed[s], clock)]
    BY DEF HistoryInv, HistoryTypes, RowArrives
  <1>2. /\ Append(feed[s], clock) \in Seq(Nat) /\ Len(feed[s]) \in Nat
        /\ Len(Append(feed[s], clock)) = Len(feed[s]) + 1
        /\ Append(feed[s], clock)[Len(feed[s]) + 1] = clock
        /\ \A i \in 1 .. Len(feed[s]) : Append(feed[s], clock)[i] = feed[s][i] /\ feed[s][i] \in Nat
    BY <1>1, AppendFacts
  <1>3. /\ feed' \in [Streams -> Seq(Nat)] /\ feed'[s] = Append(feed[s], clock)
        /\ \A t \in Streams \ {s} : feed'[t] = feed[t]
    BY <1>1, <1>2
  <1>4. HistoryTypes'
    BY <1>1, <1>3 DEF HistoryInv, HistoryTypes
  <1>5. ASSUME NEW t \in Streams PROVE StreamTrue(t)'
    <2>1. /\ FeedTrue(feed[t], saved[t], clock) /\ CursorTrue(cursor[t], feed[t], saved[t], clock)
          /\ JobTrue(sync[t], cursor[t], feed[t], saved[t], clock)
      BY DEF HistoryInv, StreamTrue
    <2>2. /\ feed[t] \in Seq(Nat) /\ feed'[t] \in Seq(Nat) /\ saved[t] \in SUBSET Nat
          /\ cursor[t] \in CursorType /\ sync[t] \in JobType
          /\ feed'[t] = feed[t] \/ feed'[t] = Append(feed[t], clock)
      BY <1>3 DEF HistoryInv, HistoryTypes
    <2>3. /\ FeedTrue(feed'[t], saved[t], clock) /\ CursorTrue(cursor[t], feed'[t], saved[t], clock)
          /\ JobTrue(sync[t], cursor[t], feed'[t], saved[t], clock)
      BY <1>1, <2>1, <2>2, StreamGrows
    <2> QED BY <1>1, <2>3 DEF StreamTrue
  <1>6. Covered' = Covered
    BY <1>1, CoveredIsLeast
  <1>7. \A t \in Streams : \A i \in 1 .. Len(feed[t]) :
           /\ i \in 1 .. Len(feed'[t]) /\ feed'[t][i] = feed[t][i]
           /\ Ours(feed'[t], i) <=> Ours(feed[t], i)
    <2> SUFFICES ASSUME NEW t \in Streams, NEW i \in 1 .. Len(feed[t])
                 PROVE  /\ i \in 1 .. Len(feed'[t]) /\ feed'[t][i] = feed[t][i]
                        /\ Ours(feed'[t], i) <=> Ours(feed[t], i)
      OBVIOUS
    <2>1. CASE t = s
      <3>1. /\ feed'[t] = Append(feed[s], clock) /\ Len(feed'[t]) = Len(feed[s]) + 1
            /\ i \in 1 .. Len(feed[s])
        BY <1>2, <1>3, <2>1
      <3>2. i \in 1 .. Len(feed'[t]) /\ feed'[t][i] = feed[t][i]
        BY <1>2, <2>1, <3>1
      <3> QED BY <3>2 DEF Ours
    <2>2. CASE t # s
      BY <1>3, <2>2
    <2> QED BY <2>1, <2>2
  <1>8. \A t \in Streams : \A i \in 1 .. Len(feed'[t]) :
           i \in 1 .. Len(feed[t]) \/ (t = s /\ i = Len(feed[s]) + 1)
    BY <1>2, <1>3
  <1>9. RecordedRows' = RecordedRows
    <2>1. \A t \in Streams : \A i \in saved[t] : feed'[t][i] = feed[t][i]
      BY <1>7 DEF HistoryInv, StreamTrue, FeedTrue
    <2>2. \A row : row \in RecordedRows <=>
             \E t \in Streams : \E i \in saved[t] : row = [stream |-> t, row |-> i, at |-> feed[t][i]]
      BY DEF RecordedRows, Entry
    <2>3. \A row : row \in RecordedRows' <=>
             \E t \in Streams : \E i \in saved'[t] : row = [stream |-> t, row |-> i, at |-> feed'[t][i]]
      BY DEF RecordedRows, Entry
    <2>4. \A row : row \in RecordedRows' <=> row \in RecordedRows
      <3> SUFFICES ASSUME NEW row PROVE row \in RecordedRows' <=> row \in RecordedRows
        OBVIOUS
      <3>1. ASSUME row \in RecordedRows' PROVE row \in RecordedRows
        <4>1. PICK t \in Streams : \E i \in saved'[t] :
                 row = [stream |-> t, row |-> i, at |-> feed'[t][i]]
          BY <2>3, <3>1
        <4>2. PICK i \in saved'[t] : row = [stream |-> t, row |-> i, at |-> feed'[t][i]]
          BY <4>1
        <4>3. i \in saved[t] /\ feed'[t][i] = feed[t][i]
          BY <1>1, <2>1, <4>2
        <4> QED BY <2>2, <4>2, <4>3
      <3>2. ASSUME row \in RecordedRows PROVE row \in RecordedRows'
        <4>1. PICK t \in Streams : \E i \in saved[t] :
                 row = [stream |-> t, row |-> i, at |-> feed[t][i]]
          BY <2>2, <3>2
        <4>2. PICK i \in saved[t] : row = [stream |-> t, row |-> i, at |-> feed[t][i]]
          BY <4>1
        <4>3. i \in saved'[t] /\ feed'[t][i] = feed[t][i]
          BY <1>1, <2>1, <4>2
        <4> QED BY <2>3, <4>2, <4>3
      <3> QED BY <3>1, <3>2
    <2> QED BY <2>4
  <1>10. HappenedRows \subseteq HappenedRows'
    <2> SUFFICES ASSUME NEW row \in HappenedRows PROVE row \in HappenedRows'
      OBVIOUS
    <2>0. PICK t \in Streams : \E i \in 1 .. Len(feed[t]) :
             Ours(feed[t], i) /\ row = [stream |-> t, row |-> i, at |-> feed[t][i]]
      BY RowsThatHappened
    <2>1. PICK i \in 1 .. Len(feed[t]) :
             Ours(feed[t], i) /\ row = [stream |-> t, row |-> i, at |-> feed[t][i]]
      BY <2>0
    <2>2. i \in 1 .. Len(feed'[t]) /\ Ours(feed'[t], i)
          /\ row = [stream |-> t, row |-> i, at |-> feed'[t][i]]
      BY <1>7, <2>1
    <2> QED BY <2>2, RowsThatHappened
  <1>11. ASSUME NEW row \in HappenedRows' \ HappenedRows
         PROVE  row \in [stream : Streams, row : Nat \ {0}, at : Nat] /\ row.at >= Covered
    <2>0. PICK t \in Streams : \E i \in 1 .. Len(feed'[t]) :
             Ours(feed'[t], i) /\ row = [stream |-> t, row |-> i, at |-> feed'[t][i]]
      BY RowsThatHappened
    <2>1. PICK i \in 1 .. Len(feed'[t]) :
             Ours(feed'[t], i) /\ row = [stream |-> t, row |-> i, at |-> feed'[t][i]]
      BY <2>0
    <2>2. i \notin 1 .. Len(feed[t])
      <3> SUFFICES ASSUME i \in 1 .. Len(feed[t]) PROVE FALSE
        OBVIOUS
      <3>1. Ours(feed[t], i) /\ row = [stream |-> t, row |-> i, at |-> feed[t][i]]
        BY <1>7, <2>1
      <3> QED BY <1>11, <3>1, RowsThatHappened
    <2>3. t = s /\ i = Len(feed[s]) + 1
      BY <1>8, <2>1, <2>2
    <2>4. row = [stream |-> s, row |-> Len(feed[s]) + 1, at |-> clock]
      BY <1>2, <1>3, <2>1, <2>3
    <2>5. Covered \in Nat /\ Covered <= cursor[s].syncedThrough
      BY CoveredIsLeast, LeastFacts DEF HistoryInv, HistoryTypes
    <2>6. cursor[s].syncedThrough <= clock /\ cursor[s].syncedThrough \in Nat
      BY DEF HistoryInv, HistoryTypes, StreamTrue, CursorTrue, CursorType
    <2>7. row \in [stream : Streams, row : Nat \ {0}, at : Nat] /\ row.at = clock
      BY <1>1, <1>2, <2>4
    <2> QED BY <1>1, <2>5, <2>6, <2>7
  <1>12. LedgerStep
    BY <1>6, <1>9, <1>10, <1>11, IsHappening
  <1> QED BY <1>4, <1>5, <1>12 DEF HistoryInv

-----------------------------------------------------------------------------
LEMMA HistoryInvStep == HistoryInv /\ [HistoryNext]_historyVars => HistoryInv' /\ LedgerStep
  <1> SUFFICES ASSUME HistoryInv, [HistoryNext]_historyVars PROVE HistoryInv' /\ LedgerStep
    OBVIOUS
  <1>1. CASE StartSync \/ Crash \/ TimePasses
    BY <1>1, QuietStepsAreSafe
  <1>2. ASSUME NEW s \in Streams, ReadPage(s) \/ SaveRows(s) \/ StoreCursor(s)
        PROVE  HistoryInv' /\ LedgerStep
    BY <1>2, ReadingIsSafe, SavingIsSafe, StoringIsSafe
  <1>3. ASSUME NEW s \in Streams, CutShort(s) \/ RowArrives(s)
        PROVE  HistoryInv' /\ LedgerStep
    BY <1>3, CuttingIsSafe, ArrivalIsSafe
  <1>4. CASE UNCHANGED historyVars
    <2>1. UNCHANGED <<feed, clock, cursor, saved, sync>>
      BY <1>4 DEF historyVars
    <2>2. clock' \in Nat /\ clock <= clock' /\ sync' \in [Streams -> JobType]
      BY <2>1 DEF HistoryInv, HistoryTypes
    <2> QED BY <2>1, <2>2, WorkerStep
  <1> QED BY <1>1, <1>2, <1>3, <1>4 DEF HistoryNext, HistoryWork

(* The crawl records rows once, loses none and makes none up, and what it  *)
(* claims to be complete is complete, over stops, crashes, replayed pages  *)
(* and rows that push in at the head (accountingPerpl.ts 158-197,          *)
(* accounting.ts 163-172).                                                 *)
THEOREM CrawlIsALedger == HistorySpec => ImplementsLedger
  <1>1. HistoryInit => HistoryInv /\ Ledger!LedgerInit
    BY HistoryInvInit
  <1>2. HistoryInv /\ [HistoryNext]_historyVars
           => HistoryInv' /\ [Ledger!LedgerNext]_(Ledger!ledgerVars)
    BY HistoryInvStep DEF LedgerStep
  <1> QED BY <1>1, <1>2, PTL DEF HistorySpec, ImplementsLedger, Ledger!LedgerSpec

(* In the words of a chart: no row of ours from before fundingThrough is   *)
(* missing, on any stream (accounting.ts 163-172).                         *)
THEOREM ChartsMissNothing == HistorySpec => []CoverageIsTrue
  <1>1. HistoryInv => CoverageIsTrue
    <2> SUFFICES ASSUME HistoryInv, NEW s \in Streams, NEW i \in Rows(s), Wanted(s, i),
                        feed[s][i] < Covered
                 PROVE  i \in saved[s]
      BY DEF CoverageIsTrue
    <2>1. i \in 1 .. Len(feed[s]) /\ Ours(feed[s], i)
      BY SameWords
    <2>2. Covered \in Nat /\ Covered <= cursor[s].syncedThrough
      BY CoveredIsLeast, LeastFacts DEF HistoryInv, HistoryTypes
    <2>3. cursor[s].syncedThrough \in Nat /\ feed[s][i] \in Nat
      BY <2>1, ElementOfSeq DEF HistoryInv, HistoryTypes, CursorType
    <2>4. CursorTrue(cursor[s], feed[s], saved[s], clock)
      BY DEF HistoryInv, StreamTrue
    <2> QED BY <2>1, <2>2, <2>3, <2>4 DEF CursorTrue
  <1> QED BY <1>1, HistoryInvInit, HistoryInvStep, PTL DEF HistorySpec

-----------------------------------------------------------------------------
(* The index of holders and validators.  What an index claims, up to       *)
(* syncedTo, it has; the scan's own copy for the file as well, and the     *)
(* scan looks no further than the chain goes.                              *)
IndexType == [syncedTo : Nat, blocks : SUBSET Nat, complete : BOOLEAN]
Covers(x) == 1 .. x.syncedTo \subseteq x.blocks

ScanType == [at : {"idle", "head", "scan", "save", "lastSave", "write", "lastWrite"},
             object : Askers \cup {NoObject}, head : Nat, written : IndexType]

IndexTypes ==
    /\ chain \in Nat
    /\ index \in [Askers -> IndexType] /\ file \in IndexType \cup {Unreadable}
    /\ current \in Askers \cup {NoObject}
    /\ job \in ScanType

IndexInv ==
    /\ IndexTypes
    /\ \A c \in Askers : Covers(index[c])
    /\ file # Unreadable => Covers(file)
    /\ Covers(job.written)
    /\ job.head <= chain
    /\ job.at # "idle" => job.object \in Askers

LEMMA ScratchIsTrue == Scratch \in IndexType /\ Covers(Scratch) /\ NoJob \in ScanType
  BY DEF Scratch, IndexType, Covers, NoJob, ScanType, NoObject

LEMMA GreatestBelow ==
    ASSUME NEW high \in Nat, NEW T, T # {}, \A t \in T : t \in Nat /\ t <= high
    PROVE  Max(T) \in T /\ \A t \in T : t <= Max(T)
  <1> DEFINE D == {high - t : t \in T}
  <1>1. D \subseteq Nat /\ D # {}
    OBVIOUS
  <1>2. PICK d \in D : \A e \in D : d <= e
    BY <1>1, LeastNatural
  <1>3. PICK m \in T : d = high - m
    BY <1>2
  <1>4. ASSUME NEW t \in T PROVE m >= t
    <2>1. high - t \in D
      OBVIOUS
    <2>2. d <= high - t
      BY <1>2, <2>1
    <2> QED BY <1>3, <2>2
  <1>5. Max(T) \in T /\ \A t \in T : Max(T) >= t
    BY <1>4 DEF Max
  <1> QED BY <1>5

(* The requests of a window leave no block out between where the index     *)
(* stands and the last block it will claim.                                *)
LEMMA WindowIsWhole ==
    ASSUME NEW synced \in Nat, NEW head \in Nat, synced < head, chain \in Nat, head <= chain,
           NEW ranges, ranges = Ranges(synced, head),
           NEW last, last = Max({r.to : r \in ranges})
    PROVE  /\ last \in Nat /\ synced < last /\ last <= head
           /\ synced + 1 .. last \subseteq Logged(ranges)
           /\ Logged(ranges) \subseteq Nat
  <1> DEFINE Piece(i) ==
                LET from == synced + 1 + i * Chunk
                    to   == from + Chunk - 1
                IN  [from |-> from, to |-> IF to > head THEN head ELSE to]
             Turns == {j \in 0 .. Concurrency - 1 : synced + j * Chunk < head}
             T == {r.to : r \in ranges}
  <1>1. Chunk \in Nat /\ Chunk > 0 /\ Concurrency \in Nat /\ Concurrency > 0
    BY IndexAssumption DEF IndexAssumption
  <1>2. ranges = {Piece(i) : i \in Turns}
    BY DEF Ranges
  <1>3. ASSUME NEW i \in Turns
        PROVE  /\ i \in Nat /\ i * Chunk \in Nat /\ Piece(i) \in ranges
               /\ Piece(i).from = synced + 1 + i * Chunk
               /\ Piece(i).to = IF synced + i * Chunk + Chunk > head THEN head
                                ELSE synced + i * Chunk + Chunk
               /\ Piece(i).to \in Nat /\ Piece(i).to <= head /\ synced + i * Chunk < Piece(i).to
    <2>1. i \in Nat /\ synced + i * Chunk < head
      BY <1>1
    <2>2. i * Chunk \in Nat
      BY <1>1, <2>1
    <2>3. Piece(i) \in ranges
      BY <1>2
    <2> QED BY <1>1, <2>1, <2>2, <2>3
  <1>4. 0 \in Turns
    BY <1>1
  <1> HIDE DEF Piece, Turns
  <1>5. T # {} /\ \A t \in T : t \in Nat /\ t <= head
    BY <1>2, <1>3, <1>4
  <1>6. last \in T /\ \A t \in T : t <= last
    BY <1>5, GreatestBelow
  <1>7. PICK k \in Turns : last = Piece(k).to
    BY <1>2, <1>6
  <1>8. last \in Nat /\ synced < last /\ last <= head
    BY <1>3, <1>7
  <1>9. ASSUME NEW b \in synced + 1 .. last PROVE b \in Logged(ranges)
    <2> DEFINE J == {j \in Nat : b <= synced + j * Chunk + Chunk}
    <2>1. k \in J
      BY <1>1, <1>3, <1>7
    <2>2. PICK i \in J : \A j \in J : i <= j
      BY <2>1, LeastNatural
    <2>3. i \in Nat /\ k \in Nat /\ i <= k /\ b <= synced + i * Chunk + Chunk
      BY <2>1, <2>2
    <2>4. i * Chunk \in Nat /\ b \in Nat
      BY <1>1, <1>8, <2>3
    <2>5. synced + i * Chunk < b
      <3>1. CASE i = 0
        BY <1>1, <3>1
      <3>2. CASE i # 0
        <4>1. i - 1 \in Nat /\ i - 1 \notin J
          BY <2>2, <2>3, <3>2
        <4>2. (i - 1) * Chunk \in Nat /\ (i - 1) * Chunk + Chunk = i * Chunk
          BY <1>1, <4>1
        <4>3. ~(b <= synced + (i - 1) * Chunk + Chunk)
          BY <4>1
        <4> QED BY <1>1, <2>4, <4>2, <4>3
      <3> QED BY <3>1, <3>2
    <2>6. i \in Turns
      <3>1. k \in 0 .. Concurrency - 1
        BY DEF Turns
      <3>2. i \in 0 .. Concurrency - 1
        BY <1>1, <2>3, <3>1
      <3>3. synced + i * Chunk < head
        BY <1>8, <2>4, <2>5
      <3> QED BY <3>2, <3>3 DEF Turns
    <2>7. b \in Piece(i).from .. Piece(i).to
      BY <1>1, <1>3, <1>8, <2>3, <2>4, <2>5, <2>6
    <2>8. b \in 1 .. chain
      BY <1>8
    <2> QED BY <1>3, <2>6, <2>7, <2>8 DEF Logged
  <1>10. Logged(ranges) \subseteq Nat
    BY DEF Logged
  <1> QED BY <1>8, <1>9, <1>10

LEMMA IndexInvInit == IndexInit => IndexInv
  BY ScratchIsTrue, IndexAssumption
     DEF IndexInit, IndexInv, IndexTypes, NoJob, Scratch, IndexAssumption

LEMMA WindowIsSafe == ASSUME IndexInv, Window PROVE IndexInv'
  <1> DEFINE c == job.object
             ranges == Ranges(Known.syncedTo, job.head)
  <1>1. c \in Askers /\ job.head \in Nat /\ job.head <= chain /\ chain \in Nat
    BY DEF Window, IndexInv, IndexTypes, ScanType
  <1>2. Known \in IndexType /\ Covers(Known)
    BY <1>1, ScratchIsTrue DEF Known, IndexInv, IndexTypes
  <1>3. PICK last : last = Max({r.to : r \in ranges})
    OBVIOUS
  <1>4. PICK synced : synced = Known.syncedTo
    OBVIOUS
  <1>5. synced \in Nat /\ synced < job.head /\ ranges = Ranges(synced, job.head)
    BY <1>2, <1>4 DEF Window, IndexType
  <1> HIDE DEF c, ranges
  <1>6. /\ last \in Nat /\ synced < last
        /\ synced + 1 .. last \subseteq Logged(ranges) /\ Logged(ranges) \subseteq Nat
    BY <1>1, <1>3, <1>5, WindowIsWhole
  <1>7. PICK new : new = Scanned(ranges)
    OBVIOUS
  <1>8. /\ new \in IndexType
        /\ new.syncedTo = last /\ new.blocks = Known.blocks \cup Logged(ranges)
    BY <1>2, <1>3, <1>6, <1>7 DEF Scanned, IndexType
  <1>9. Covers(new)
    <2> SUFFICES ASSUME NEW b \in 1 .. last PROVE b \in new.blocks
      BY <1>8 DEF Covers
    <2>1. CASE b <= synced
      BY <1>2, <1>4, <1>5, <1>8, <2>1 DEF Covers
    <2>2. CASE ~(b <= synced)
      BY <1>5, <1>6, <1>8, <2>2
    <2> QED BY <2>1, <2>2
  <1>10. index' = [index EXCEPT ![c] = new] /\ UNCHANGED <<chain, file, current>>
    BY <1>7 DEF Window, c, ranges
  <1>11. index' \in [Askers -> IndexType] /\ \A d \in Askers : Covers(index'[d])
    BY <1>1, <1>8, <1>9, <1>10 DEF IndexInv, IndexTypes
  <1>12. PICK next \in {"scan", "save"} : job' = [job EXCEPT !.at = next]
    BY DEF Window
  <1>13. job' \in ScanType /\ job'.object = c /\ job'.head = job.head /\ job'.written = job.written
    BY <1>12 DEF IndexInv, IndexTypes, ScanType, c
  <1> QED BY <1>1, <1>10, <1>11, <1>13 DEF IndexInv, IndexTypes

LEMMA IndexCallsAreSafe ==
    ASSUME IndexInv, NEW c \in Askers, Use(c) \/ Load(c) \/ Install(c)
    PROVE  IndexInv'
  <1>1. Loaded \in IndexType /\ Covers(Loaded)
    BY ScratchIsTrue DEF Loaded, IndexInv, IndexTypes
  <1>2. ASSUME NEW object \in Askers, StartJob(object), UNCHANGED <<chain, file, index>>,
               current' \in Askers \cup {NoObject}
        PROVE  IndexInv'
    <2>1. CASE job = NoJob
      <3>1. job' = [NoJob EXCEPT !.at = "head", !.object = object]
        BY <1>2, <2>1 DEF StartJob
      <3>2. job' \in ScanType /\ job'.object = object /\ job'.head = 0 /\ job'.written = Scratch
        BY <3>1, ScratchIsTrue DEF NoJob, ScanType
      <3> QED BY <1>2, <3>2, ScratchIsTrue DEF IndexInv, IndexTypes
    <2>2. CASE job # NoJob
      <3>1. job' = job
        BY <1>2, <2>2 DEF StartJob
      <3> QED BY <1>2, <3>1 DEF IndexInv, IndexTypes
    <2> QED BY <2>1, <2>2
  <1>3. CASE Use(c)
    BY <1>2, <1>3 DEF Use, IndexInv, IndexTypes
  <1>4. CASE Install(c)
    BY <1>2, <1>4 DEF Install
  <1>5. CASE Load(c)
    <2>1. index' = [index EXCEPT ![c] = Loaded] /\ UNCHANGED <<chain, file, current, job>>
      BY <1>5 DEF Load
    <2>2. index' \in [Askers -> IndexType] /\ \A d \in Askers : Covers(index'[d])
      BY <1>1, <2>1 DEF IndexInv, IndexTypes
    <2> QED BY <2>1, <2>2 DEF IndexInv, IndexTypes
  <1> QED BY <1>3, <1>4, <1>5

LEMMA IndexWorkIsSafe ==
    ASSUME IndexInv, ReadHead \/ ReachHead \/ BeginSave \/ EndSave
    PROVE  IndexInv'
  <1>1. chain \in Nat /\ job \in ScanType
    BY DEF IndexInv, IndexTypes
  <1>2. CASE ReadHead
    <2>1. job' = [job EXCEPT !.at = "scan", !.head = chain] /\ UNCHANGED <<chain, file, index, current>>
      BY <1>2 DEF ReadHead
    <2>2. job' \in ScanType /\ job'.object = job.object /\ job'.head = chain /\ job'.written = job.written
      BY <1>1, <2>1 DEF ScanType
    <2>3. job.at # "idle"
      BY <1>2 DEF ReadHead
    <2> QED BY <1>1, <2>1, <2>2, <2>3 DEF IndexInv, IndexTypes
  <1>3. CASE ReachHead
    <2>1. /\ job' = [job EXCEPT !.at = "lastSave"] /\ UNCHANGED <<chain, file, current>>
          /\ index' = [index EXCEPT ![job.object].complete = TRUE]
      BY <1>3 DEF ReachHead
    <2>2. /\ job' \in ScanType /\ job'.object = job.object /\ job'.head = job.head
          /\ job'.written = job.written /\ job.object \in Askers
      BY <1>1, <1>3, <2>1 DEF ScanType, ReachHead, IndexInv
    <2>3. index' \in [Askers -> IndexType] /\ \A d \in Askers : Covers(index'[d])
      BY <2>1, <2>2 DEF IndexInv, IndexTypes, IndexType, Covers
    <2> QED BY <2>1, <2>2, <2>3 DEF IndexInv, IndexTypes
  <1>4. CASE BeginSave
    <2>1. Known \in IndexType /\ Covers(Known)
      BY <1>1, ScratchIsTrue DEF Known, IndexInv, IndexTypes, ScanType
    <2>2. /\ job' = [job EXCEPT !.at = IF @ = "save" THEN "write" ELSE "lastWrite", !.written = Known]
          /\ file' = Unreadable /\ UNCHANGED <<chain, index, current>>
      BY <1>4 DEF BeginSave
    <2>3. /\ job' \in ScanType /\ job'.object = job.object /\ job'.head = job.head
          /\ job'.written = Known /\ job.at # "idle"
      BY <1>1, <1>4, <2>1, <2>2 DEF ScanType, BeginSave
    <2> QED BY <2>1, <2>2, <2>3 DEF IndexInv, IndexTypes
  <1>5. CASE EndSave
    <2>1. file' = job.written /\ UNCHANGED <<chain, index, current>>
      BY <1>5 DEF EndSave
    <2>2. \/ job' = [job EXCEPT !.at = "scan", !.written = Scratch] /\ job.at # "idle"
          \/ job' = NoJob
      BY <1>5 DEF EndSave
    <2>3. CASE job' = NoJob
      <3>1. job' \in ScanType /\ job'.at = "idle" /\ job'.head = 0 /\ job'.written = Scratch
        BY <2>3, ScratchIsTrue DEF NoJob
      <3> QED BY <1>1, <2>1, <3>1, ScratchIsTrue DEF IndexInv, IndexTypes, ScanType
    <2>4. CASE job' = [job EXCEPT !.at = "scan", !.written = Scratch] /\ job.at # "idle"
      <3>1. job' \in ScanType /\ job'.object = job.object /\ job'.head = job.head /\ job'.written = Scratch
        BY <1>1, <2>4, ScratchIsTrue DEF ScanType
      <3> QED BY <1>1, <2>1, <2>4, <3>1, ScratchIsTrue DEF IndexInv, IndexTypes, ScanType
    <2> QED BY <2>2, <2>3, <2>4
  <1> QED BY <1>2, <1>3, <1>4, <1>5

LEMMA IndexInvStep == IndexInv /\ [IndexNext]_indexVars => IndexInv'
  <1> SUFFICES ASSUME IndexInv, [IndexNext]_indexVars PROVE IndexInv'
    OBVIOUS
  <1>1. CASE IndexCall
    BY <1>1, IndexCallsAreSafe DEF IndexCall
  <1>2. CASE IndexWork
    BY <1>2, IndexWorkIsSafe, WindowIsSafe DEF IndexWork
  <1>3. CASE JobFails \/ IndexCrash
    <2>1. job' = NoJob /\ UNCHANGED <<chain, file, index>> /\ current' \in {current, NoObject}
      BY <1>3 DEF JobFails, IndexCrash, AfterFailure
    <2>2. job' \in ScanType /\ job'.at = "idle" /\ job'.head = 0 /\ job'.written = Scratch
      BY <2>1, ScratchIsTrue DEF NoJob
    <2> QED BY <2>1, <2>2, ScratchIsTrue DEF IndexInv, IndexTypes
  <1>4. CASE NewBlock
    <2>1. chain' = chain + 1 /\ UNCHANGED <<file, index, current, job>> /\ chain \in Nat /\ job.head \in Nat
      BY <1>4 DEF NewBlock, IndexInv, IndexTypes, ScanType
    <2>2. chain' \in Nat /\ job'.head <= chain'
      BY <2>1 DEF IndexInv
    <2> QED BY <2>1, <2>2 DEF IndexInv, IndexTypes
  <1>5. CASE UNCHANGED indexVars
    BY <1>5 DEF IndexInv, IndexTypes, indexVars
  <1> QED BY <1>1, <1>2, <1>3, <1>4, <1>5 DEF IndexNext

(* What the index claims, in memory and on disk, it has taken in: over     *)
(* windows that fail, two callers who load at a time, a save torn by a     *)
(* crash and a restart, no block is skipped (vaultIndex.ts 24-25, 92-140). *)
THEOREM NoBlockIsSkipped == IndexSpec => []IndexSkipsNothing
  <1>1. IndexInv => IndexSkipsNothing
    BY DEF IndexInv, IndexSkipsNothing, Covers
  <1> QED BY <1>1, IndexInvInit, IndexInvStep, PTL DEF IndexSpec
=============================================================================
