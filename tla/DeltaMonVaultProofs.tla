------------------------- MODULE DeltaMonVaultProofs -------------------------
(***************************************************************************)
(* Proofs about DeltaMonVault.tla, for any holders, managers, validators   *)
(* and withdraw ids, any rates, prices and amounts:                        *)
(*   - the lemmas on sums over a finite set and on rounded quotients that  *)
(*     the totals and the prices rest on;                                  *)
(*   - the perp book: its mark, its account with the managers, its value;  *)
(*   - the record of the unbonds against the staking precompile;           *)
(*   - the price per share, the fee on an exit, and the exit in kind.      *)
(***************************************************************************)
EXTENDS DeltaMonVault, FiniteSetTheorems, WellFoundedInduction, TLAPS

-----------------------------------------------------------------------------
(***************************************************************************)
(* Sums over a finite set                                                  *)
(***************************************************************************)

(* Induction over the finite sets and over the numbers, with the set of    *)
(* those for which a claim holds in the place of an operator.              *)
LEMMA MinimalElement ==
    ASSUME NEW S, NEW R, IsWellFoundedOn(R, S), NEW T, T \subseteq S, T # {}
    PROVE  \E x \in T : \A y \in T : ~(<<y, x>> \in R)
  BY WFMin, Zenon

LEMMA SubsetInduction ==
    ASSUME NEW S, IsFiniteSet(S), NEW Good,
           {} \in Good,
           \A T \in SUBSET S : T # {} /\ (\A x \in T : T \ {x} \in Good) => T \in Good
    PROVE  SUBSET S \subseteq Good
  <1> DEFINE Bad == (SUBSET S) \ Good
             R == StrictSubsetOrdering(S)
  <1>1. IsWellFoundedOn(R, SUBSET S)
    BY FS_StrictSubsetOrderingWellFounded, FS_FiniteSubsetsOfFinite
  <1> SUFFICES ASSUME Bad # {} PROVE FALSE
    OBVIOUS
  <1>2. Bad \subseteq SUBSET S
    OBVIOUS
  <1>3. PICK T \in Bad : \A U \in Bad : ~(<<U, T>> \in R)
    <2> HIDE DEF Bad, R
    <2> QED BY <1>1, <1>2, MinimalElement
  <1>4. \A x \in T : T \ {x} \in Good
    <2> SUFFICES ASSUME NEW x \in T PROVE T \ {x} \in Good
      OBVIOUS
    <2>1. T \ {x} \in SUBSET S /\ T \in SUBSET S /\ T \ {x} # T
      OBVIOUS
    <2>2. <<T \ {x}, T>> \in R
      BY <2>1 DEF StrictSubsetOrdering
    <2> QED BY <1>3, <2>1, <2>2
  <1> QED BY <1>3, <1>4

LEMMA NumberInduction ==
    ASSUME NEW Good, 0 \in Good, \A n \in Nat : n \in Good => n + 1 \in Good
    PROVE  Nat \subseteq Good
  <1> DEFINE Bad == Nat \ Good
             R == OpToRel(<, Nat)
  <1> SUFFICES ASSUME Bad # {} PROVE FALSE
    OBVIOUS
  <1>1. IsWellFoundedOn(R, Nat)
    BY NatLessThanWellFounded
  <1>2. \A x, y \in Nat : x < y => <<x, y>> \in R
    BY DEF OpToRel
  <1>3. PICK n \in Bad : \A m \in Bad : ~(<<m, n>> \in R)
    <2>1. Bad \subseteq Nat
      OBVIOUS
    <2> HIDE DEF Bad, R
    <2> QED BY <1>1, <2>1, MinimalElement
  <1> HIDE DEF R
  <1>4. n \in Nat /\ n # 0 /\ n - 1 \in Nat /\ n - 1 < n
    OBVIOUS
  <1>5. n - 1 \in Good
    BY <1>2, <1>3, <1>4
  <1>6. (n - 1) + 1 \in Good
    BY <1>4, <1>5
  <1> QED BY <1>3, <1>4, <1>6

(* The sums a fold goes through, and that they are what the fold defines.  *)
First(T) == CHOOSE x \in T : TRUE
SumStep(f, sums, T) == IF T = {} THEN 0 ELSE f[First(T)] + sums[T \ {First(T)}]
AreSums(f, sums, S) == sums = [T \in SUBSET S |-> SumStep(f, sums, T)]
Sums(f, S) == CHOOSE sums : AreSums(f, sums, S)

LEMMA SumOverIsLastSum ==
    ASSUME NEW f, NEW S
    PROVE  SumOver(f, S) = Sums(f, S)[S]
  BY Zenon DEF SumOver, MapThenSumSet, MapThenFoldSet, Sums, AreSums, SumStep, First

LEMMA FirstIsElement == ASSUME NEW T, T # {} PROVE First(T) \in T
  BY DEF First

LEMMA SumsExist ==
    ASSUME NEW S, IsFiniteSet(S), NEW f \in [S -> Nat]
    PROVE  \A T \in SUBSET S :
              /\ Sums(f, S)[T] \in Nat
              /\ T = {} => Sums(f, S)[T] = 0
              /\ T # {} => Sums(f, S)[T] = f[First(T)] + Sums(f, S)[T \ {First(T)}]
  <1> DEFINE Upto(sums, n) ==
                 \A T \in SUBSET S : Cardinality(T) <= n => sums[T] = SumStep(f, sums, T)
             Good == {n \in Nat : \E sums \in [SUBSET S -> Nat] : Upto(sums, n)}
  <1>1. \A T \in SUBSET S : IsFiniteSet(T) /\ Cardinality(T) \in Nat /\ Cardinality(T) <= Cardinality(S)
    BY FS_Subset, FS_CardinalityType
  <1>2. 0 \in Good
    <2> DEFINE none == [T \in SUBSET S |-> 0]
    <2>1. \A T \in SUBSET S : Cardinality(T) <= 0 => T = {}
      BY <1>1, FS_EmptySet
    <2>2. Upto(none, 0)
      BY <2>1 DEF SumStep
    <2>3. none \in [SUBSET S -> Nat]
      OBVIOUS
    <2> QED BY <2>2, <2>3
  <1>3. ASSUME NEW n \in Nat, n \in Good PROVE n + 1 \in Good
    <2>1. PICK sums \in [SUBSET S -> Nat] : Upto(sums, n)
      BY <1>3
    <2> DEFINE more == [T \in SUBSET S |-> IF Cardinality(T) <= n THEN sums[T] ELSE SumStep(f, sums, T)]
    <2>2. \A T \in SUBSET S : T # {} =>
             /\ First(T) \in S /\ T \ {First(T)} \in SUBSET S
             /\ Cardinality(T \ {First(T)}) = Cardinality(T) - 1
      BY <1>1, FirstIsElement, FS_RemoveElement
    <2>3. \A T \in SUBSET S : SumStep(f, sums, T) \in Nat
      BY <2>2 DEF SumStep
    <2>4. more \in [SUBSET S -> Nat]
      BY <2>3
    <2>5. Upto(more, n + 1)
      <3> SUFFICES ASSUME NEW T \in SUBSET S, Cardinality(T) <= n + 1
                   PROVE  more[T] = SumStep(f, more, T)
        OBVIOUS
      <3>1. more[T] = SumStep(f, sums, T)
        BY <2>1
      <3>2. CASE T = {}
        BY <3>1, <3>2 DEF SumStep
      <3>3. CASE T # {}
        <4>1. more[T \ {First(T)}] = sums[T \ {First(T)}]
          BY <1>1, <2>2, <3>3
        <4> QED BY <3>1, <3>3, <4>1 DEF SumStep
      <3> QED BY <3>2, <3>3
    <2> HIDE DEF more, Upto
    <2>6. \E u \in [SUBSET S -> Nat] : Upto(u, n + 1)
      BY <2>4, <2>5
    <2> QED BY <2>6
  <1>4. Nat \subseteq Good
    <2> HIDE DEF Good
    <2> QED BY <1>2, <1>3, NumberInduction
  <1>5. PICK sums \in [SUBSET S -> Nat] : Upto(sums, Cardinality(S))
    BY <1>1, <1>4
  <1>6. AreSums(f, sums, S)
    BY <1>1, <1>5 DEF AreSums
  <1>7. AreSums(f, Sums(f, S), S)
    BY <1>6 DEF Sums
  <1> DEFINE it    == Sums(f, S)
             Typed == {T \in SUBSET S : it[T] \in Nat}
  <1>8. \A T \in SUBSET S : it[T] = SumStep(f, it, T)
    BY <1>7 DEF AreSums
  <1> HIDE DEF it, Good, Upto
  <1>9. \A T \in SUBSET S : /\ T = {} => it[T] = 0
                            /\ T # {} => it[T] = f[First(T)] + it[T \ {First(T)}]
    BY <1>8 DEF SumStep
  <1>a. {} \in Typed
    <2>1. {} \in SUBSET S
      OBVIOUS
    <2>2. it[{}] = 0
      BY <1>9, <2>1
    <2> QED BY <2>1, <2>2
  <1>b. ASSUME NEW T \in SUBSET S, T # {}, \A x \in T : T \ {x} \in Typed
         PROVE  T \in Typed
    <2>1. First(T) \in T /\ f[First(T)] \in Nat /\ it[T \ {First(T)}] \in Nat
      BY <1>b, FirstIsElement
    <2>2. it[T] = f[First(T)] + it[T \ {First(T)}]
      BY <1>9, <1>b
    <2> QED BY <2>1, <2>2
  <1>c. SUBSET S \subseteq Typed
    <2> HIDE DEF Typed
    <2> QED BY <1>a, <1>b, SubsetInduction
  <1> QED BY <1>9, <1>c DEF it

(* What a change of one value does to the sum, and what a value is to it.  *)
LEMMA SumOverChange ==
    ASSUME NEW S, IsFiniteSet(S), NEW f \in [S -> Nat], NEW g \in [S -> Nat],
           NEW x \in S, \A y \in S : y # x => g[y] = f[y]
    PROVE  SumOver(g, S) = SumOver(f, S) - f[x] + g[x]
  <1> DEFINE v == g[x]
             a == Sums(f, S)
             b == Sums(g, S)
             Good == {T \in SUBSET S : b[T] = IF x \in T THEN a[T] - f[x] + v ELSE a[T]}
  <1>1. g[x] = v /\ v \in Nat
    OBVIOUS
  <1>2. \A T \in SUBSET S :
              /\ a[T] \in Nat
              /\ T = {} => a[T] = 0
              /\ T # {} => a[T] = f[First(T)] + a[T \ {First(T)}]
    BY SumsExist
  <1>3. \A T \in SUBSET S :
              /\ b[T] \in Nat
              /\ T = {} => b[T] = 0
              /\ T # {} => b[T] = g[First(T)] + b[T \ {First(T)}]
    BY <1>1, SumsExist
  <1> HIDE DEF a, b, v
  <1>4. {} \in Good
    BY <1>2, <1>3
  <1>5. ASSUME NEW T \in SUBSET S, T # {}, \A y \in T : T \ {y} \in Good
        PROVE  T \in Good
    <2> DEFINE c == First(T)
               U == T \ {c}
    <2>1. c \in T
      BY <1>5, FirstIsElement
    <2>2. /\ f[c] \in Nat /\ g[c] \in Nat /\ f[x] \in Nat /\ U \in SUBSET S /\ U \in Good
          /\ c # x => g[c] = f[c] /\ (x \in U <=> x \in T)
          /\ c = x => g[c] = v /\ x \notin U /\ x \in T
      BY <1>1, <1>5, <2>1
    <2>3. a[T] = f[c] + a[U] /\ b[T] = g[c] + b[U] /\ a[U] \in Nat /\ b[U] \in Nat
      BY <1>2, <1>3, <1>5, <2>2
    <2> HIDE DEF c, U
    <2> QED BY <1>1, <2>2, <2>3
  <1>6. SUBSET S \subseteq Good
    <2> HIDE DEF Good
    <2> QED BY <1>4, <1>5, SubsetInduction
  <1>7. b[S] = a[S] - f[x] + v
    BY <1>6
  <1> QED BY <1>7, SumOverIsLastSum DEF a, b, v

LEMMA SumOverBounds ==
    ASSUME NEW S, IsFiniteSet(S), NEW f \in [S -> Nat]
    PROVE  SumOver(f, S) \in Nat /\ \A x \in S : f[x] <= SumOver(f, S)
  <1>1. \A g \in [S -> Nat] : SumOver(g, S) \in Nat
    BY SumsExist, SumOverIsLastSum
  <1>2. ASSUME NEW x \in S PROVE f[x] <= SumOver(f, S)
    <2>1. PICK g \in [S -> Nat] : g = [f EXCEPT ![x] = 0]
      OBVIOUS
    <2>2. g[x] = 0 /\ \A y \in S : y # x => g[y] = f[y]
      BY <2>1
    <2>3. SumOver(g, S) = SumOver(f, S) - f[x] + g[x]
      BY <2>2, SumOverChange
    <2>4. SumOver(g, S) \in Nat
      BY <1>1
    <2>5. SumOver(f, S) \in Nat /\ f[x] \in Nat
      BY <1>1
    <2> QED BY <2>2, <2>3, <2>4, <2>5
  <1> QED BY <1>1, <1>2

LEMMA SumOverZero ==
    ASSUME NEW S, IsFiniteSet(S), NEW f \in [S -> Nat], \A x \in S : f[x] = 0
    PROVE  SumOver(f, S) = 0
  <1> DEFINE a == Sums(f, S)
             Good == {T \in SUBSET S : a[T] = 0}
  <1>1. \A T \in SUBSET S :
              /\ a[T] \in Nat
              /\ T = {} => a[T] = 0
              /\ T # {} => a[T] = f[First(T)] + a[T \ {First(T)}]
    BY SumsExist
  <1> HIDE DEF a
  <1>2. {} \in Good
    BY <1>1
  <1>3. ASSUME NEW T \in SUBSET S, T # {}, \A y \in T : T \ {y} \in Good
        PROVE  T \in Good
    <2> DEFINE c == First(T)
               U == T \ {c}
    <2>1. c \in T
      BY <1>3, FirstIsElement
    <2>2. f[c] = 0 /\ a[U] = 0 /\ a[T] = f[c] + a[U]
      BY <1>1, <1>3, <2>1
    <2> QED BY <2>2
  <1>4. SUBSET S \subseteq Good
    <2> HIDE DEF Good
    <2> QED BY <1>2, <1>3, SubsetInduction
  <1> QED BY <1>4, SumOverIsLastSum DEF a

-----------------------------------------------------------------------------
(***************************************************************************)
(* The rounded quotients every price is made of                            *)
(***************************************************************************)
LEMMA Quotient ==
    ASSUME NEW n \in Nat, NEW c \in Nat \ {0}
    PROVE  n \div c \in Nat /\ (n \div c) * c <= n /\ n < (n \div c) * c + c
  OBVIOUS

LEMMA ProductOfNats == ASSUME NEW a \in Nat, NEW b \in Nat PROVE a * b \in Nat
  OBVIOUS

LEMMA ProductsGrow ==
    ASSUME NEW a \in Nat, NEW b \in Nat, NEW c \in Nat, a <= b
    PROVE  a * c <= b * c
  OBVIOUS

LEMMA CancelFactor ==
    ASSUME NEW a \in Nat, NEW b \in Nat, NEW c \in Nat \ {0}, a * c <= b * c
    PROVE  a <= b
  OBVIOUS

LEMMA Distribute ==
    ASSUME NEW a \in Int, NEW b \in Int, NEW c \in Int
    PROVE  /\ (a + b) * c = a * c + b * c /\ (a - b) * c = a * c - b * c
           /\ c * (a + b) = c * a + c * b /\ c * (a - b) = c * a - c * b
           /\ a * b = b * a
  OBVIOUS

LEMMA MulDivFloor ==
    ASSUME NEW a \in Nat, NEW b \in Nat, NEW c \in Nat \ {0}
    PROVE  /\ MulDiv(a, b, c) \in Nat
           /\ MulDiv(a, b, c) * c <= a * b
           /\ b <= c => MulDiv(a, b, c) <= a
  <1>1. a * b \in Nat
    BY ProductOfNats
  <1>2. MulDiv(a, b, c) \in Nat /\ MulDiv(a, b, c) * c <= a * b
    BY <1>1, Quotient DEF MulDiv
  <1>3. ASSUME b <= c PROVE MulDiv(a, b, c) <= a
    <2>1. a * b <= a * c
      BY <1>3, ProductsGrow, Distribute
    <2> QED BY <1>2, <2>1, CancelFactor, ProductOfNats
  <1> QED BY <1>2, <1>3

LEMMA MulDivCeiling ==
    ASSUME NEW a \in Nat, NEW b \in Nat, NEW c \in Nat \ {0}
    PROVE  MulDivUp(a, b, c) \in Nat /\ a * b <= MulDivUp(a, b, c) * c
  <1>1. a * b \in Nat /\ a * b + c - 1 \in Nat
    BY ProductOfNats
  <1>2. MulDivUp(a, b, c) \in Nat /\ a * b + c - 1 < MulDivUp(a, b, c) * c + c
    BY <1>1, Quotient DEF MulDivUp
  <1> QED BY <1>1, <1>2

-----------------------------------------------------------------------------
(***************************************************************************)
(* The perp book                                                           *)
(***************************************************************************)

(* The mark's invariant.  That a mark is never dated before its book needs *)
(* both dates to be in the past: a report is dated now.                    *)
MarkInv ==
    /\ PerpTypeOK
    /\ EmptyBookHasNoMark
    /\ MarkBelongsToThisBook

perpFrame == <<perpVars, now>>

(* The band of an empty book is empty.                                     *)
LEMMA EmptyBand ==
    ASSUME NEW bps \in Nat, NEW b \in Nat \ {0}
    PROVE  MulDiv(0, bps, b) = 0
  BY DEF MulDiv

(* Depositors, swaps, staking, fees, the pause and the feed leave the perp *)
(* book and the clock alone.                                               *)
LEMMA OthersLeaveThePerpBook ==
    ASSUME ShareNext \/ SwapNext \/ StakeNext \/ OwnerNext
    PROVE  UNCHANGED perpFrame
  <1>1. CASE ShareNext
    BY <1>1 DEF ShareNext, Deposit, Mint, PullAndMint, Redeem, Withdraw, Settle,
                RedeemInKind, Transfer, perpFrame, perpVars, marketVars
  <1>2. CASE SwapNext
    BY <1>2 DEF SwapNext, SwapUsdcForMon, SwapMonForUsdc, SwapUsdcForAusd,
                SwapAusdForUsdc, perpFrame, perpVars, marketVars
  <1>3. CASE StakeNext
    BY <1>3 DEF StakeNext, Stake, Unstake, ClaimUnstaked, ClaimStakingRewards,
                EpochEnds, ReceiveNative, perpFrame, perpVars, marketVars
  <1>4. CASE OwnerNext
    BY <1>4 DEF OwnerNext, WithdrawFees, SetPaused, perpFrame, perpVars, marketVars
  <1> QED BY <1>1, <1>2, <1>3, <1>4

LEMMA MarkInvInit == Init => MarkInv
  <1> SUFFICES ASSUME Init PROVE MarkInv OBVIOUS
  <1>1. now = 1 /\ perpReportedAt = 0 /\ perpOpenedAt = 0
    BY DEF Init
  <1>2. PerpTypeOK
    BY <1>1 DEF Init, PerpTypeOK
  <1> QED BY <1>2 DEF MarkInv, Init, EmptyBookHasNoMark, MarkBelongsToThisBook

LEMMA SendKeepsMarkInv ==
    ASSUME MarkInv, NEW m \in Managers, NEW t \in PerpTokens, NEW a \in PerpAmounts,
           SendFundPerpManager(m, t, a)
    PROVE  MarkInv'
  <1> USE DEF MarkInv
  <1>1. a \in Nat
    BY VaultAssumption DEF VaultAssumption
  <1>2. /\ perpManagerOutstanding' = [perpManagerOutstanding EXCEPT ![m] = @ + a]
        /\ perpManagerDeployed' = perpManagerDeployed + a
        /\ isPerpManager' = isPerpManager /\ now' = now
        /\ OpenBook
    BY DEF SendFundPerpManager, marketVars
  <1>3. perpManagerOutstanding' \in [Managers -> Nat]
    BY <1>1, <1>2 DEF PerpTypeOK
  <1>4. perpManagerDeployed' \in Nat
    BY <1>1, <1>2 DEF PerpTypeOK
  <1>5. CASE perpManagerDeployed = 0
    <2>1. perpReportedPnl' = 0 /\ perpReportedAt' = now /\ perpOpenedAt' = now
      BY <1>2, <1>5 DEF OpenBook
    <2>2. PerpTypeOK'
      BY <1>2, <1>3, <1>4, <2>1 DEF PerpTypeOK
    <2> QED BY <2>1, <2>2 DEF EmptyBookHasNoMark, MarkBelongsToThisBook, PerpTypeOK
  <1>6. CASE perpManagerDeployed # 0
    <2>1. UNCHANGED <<perpReportedPnl, perpReportedAt, perpOpenedAt>>
      BY <1>2, <1>6 DEF OpenBook
    <2>2. PerpTypeOK'
      BY <1>2, <1>3, <1>4, <2>1 DEF PerpTypeOK
    <2>3. perpManagerDeployed > 0 /\ perpManagerDeployed' > 0
      BY <1>1, <1>2, <1>6 DEF PerpTypeOK
    <2> QED BY <2>1, <2>2, <2>3 DEF EmptyBookHasNoMark, MarkBelongsToThisBook
  <1> QED BY <1>5, <1>6

LEMMA ReturnKeepsMarkInv ==
    ASSUME MarkInv, NEW m \in Managers, NEW t \in PerpTokens, NEW a \in PerpAmounts,
           PerpManagerDeposit(m, t, a)
    PROVE  MarkInv'
  <1> USE DEF MarkInv
  <1> DEFINE owed == perpManagerOutstanding[m]
             credited == creditedTo(a, owed)
             left == perpManagerDeployed - credited
             profit == a - credited
  <1>1. a \in Nat /\ owed \in Nat
    BY VaultAssumption DEF VaultAssumption, PerpTypeOK
  <1>2. credited \in Nat /\ owed - credited \in Nat /\ profit \in Nat
    BY <1>1 DEF creditedTo, Smaller
  <1>3. /\ perpManagerOutstanding' = [perpManagerOutstanding EXCEPT ![m] = owed - credited]
        /\ perpManagerDeployed' = left
        /\ credited <= perpManagerDeployed
        /\ UNCHANGED <<isPerpManager, perpOpenedAt, now>>
        /\ DockMark(left, profit)
    BY DEF PerpManagerDeposit, marketVars
  <1>4. left \in Nat
    BY <1>2, <1>3 DEF PerpTypeOK
  <1>5. left # 0 => perpManagerDeployed > 0
    BY <1>2, <1>4 DEF PerpTypeOK
  <1> HIDE DEF credited, left, profit
  <1>6. /\ perpReportedPnl' \in Int
        /\ perpReportedAt' = 0 \/ perpReportedAt' = perpReportedAt
        /\ left = 0 => perpReportedPnl' = 0
    BY <1>2, <1>3, <1>4 DEF DockMark, PerpTypeOK
  <1>7. PerpTypeOK'
    <2>1. perpManagerOutstanding' \in [Managers -> Nat]
      BY <1>2, <1>3 DEF PerpTypeOK
    <2>2. perpReportedAt' \in 0 .. now'
      BY <1>3, <1>6 DEF PerpTypeOK
    <2> QED BY <1>3, <1>4, <1>6, <2>1, <2>2 DEF PerpTypeOK
  <1>8. EmptyBookHasNoMark'
    BY <1>3, <1>6 DEF EmptyBookHasNoMark
  <1>9. MarkBelongsToThisBook'
    BY <1>3, <1>4, <1>5, <1>6 DEF MarkBelongsToThisBook, PerpTypeOK
  <1> QED BY <1>7, <1>8, <1>9

LEMMA ReportKeepsMarkInv ==
    ASSUME MarkInv, NEW byOwner \in BOOLEAN, NEW pnl \in Int, ReportPerpPnl(byOwner, pnl)
    PROVE  MarkInv'
  <1> USE DEF MarkInv
  <1>1. pnl \in Int /\ PnlBandBps \in Nat /\ BPS \in Nat \ {0}
    BY VaultAssumption DEF VaultAssumption
  <1>2. /\ perpReportedPnl' = pnl /\ perpReportedAt' = now
        /\ UNCHANGED <<isPerpManager, perpManagerOutstanding, perpManagerDeployed,
                       perpOpenedAt, now>>
    BY DEF ReportPerpPnl, marketVars
  <1>3. perpManagerDeployed = 0 => pnl = 0
    <2> SUFFICES ASSUME perpManagerDeployed = 0 PROVE pnl = 0
      OBVIOUS
    <2>1. MulDiv(perpManagerDeployed, PnlBandBps, BPS) = 0
      BY <1>1, EmptyBand
    <2>2. IF pnl < 0 THEN -pnl <= 0 ELSE pnl <= 0
      BY <2>1 DEF ReportPerpPnl
    <2> QED BY <1>1, <2>2
  <1>4. PerpTypeOK'
    BY <1>1, <1>2 DEF PerpTypeOK
  <1> QED BY <1>2, <1>3, <1>4 DEF EmptyBookHasNoMark, MarkBelongsToThisBook, PerpTypeOK

LEMMA MarkInvStep == MarkInv /\ [Next]_vars => MarkInv'
  <1> SUFFICES ASSUME MarkInv, [Next]_vars PROVE MarkInv'
    OBVIOUS
  <1>1. ASSUME UNCHANGED perpFrame PROVE MarkInv'
    BY <1>1 DEF MarkInv, perpFrame, perpVars, PerpTypeOK, EmptyBookHasNoMark,
                MarkBelongsToThisBook
  <1>2. CASE ShareNext \/ SwapNext \/ StakeNext \/ OwnerNext
    BY <1>1, <1>2, OthersLeaveThePerpBook
  <1>3. CASE PerpNext
    <2>1. ASSUME NEW m \in Managers, NEW allowed \in BOOLEAN,
                 ControlPerpManagers(m, allowed)
          PROVE  MarkInv'
      BY <2>1 DEF ControlPerpManagers, MarkInv, PerpTypeOK, EmptyBookHasNoMark,
                  MarkBelongsToThisBook, marketVars
    <2>2. Pnls \subseteq Int
      BY VaultAssumption DEF VaultAssumption
    <2> QED BY <1>3, <2>1, <2>2, SendKeepsMarkInv, ReturnKeepsMarkInv, ReportKeepsMarkInv
            DEF PerpNext
  <1>4. CASE EnvNext
    <2>1. CASE Tick
      BY <2>1 DEF Tick, MarkInv, PerpTypeOK, EmptyBookHasNoMark, MarkBelongsToThisBook,
                  perpVars
    <2>2. CASE \E p \in Prices, live \in FeedStates : OracleMoves(p, live)
      BY <1>1, <2>2 DEF OracleMoves, perpFrame
    <2> QED BY <1>4, <2>1, <2>2 DEF EnvNext
  <1>5. CASE UNCHANGED vars
    BY <1>1, <1>5 DEF vars, perpFrame, marketVars
  <1> QED BY <1>2, <1>3, <1>4, <1>5 DEF Next

THEOREM MarkInvariant == Spec => []MarkInv
  <1> QED BY MarkInvInit, MarkInvStep, PTL DEF Spec

(* The perp book is always well typed, and neither the mark nor the        *)
(* opening of the book is dated in the future.                             *)
THEOREM PerpTypes == Spec => []PerpTypeOK
  <1>1. MarkInv => PerpTypeOK BY DEF MarkInv
  <1> QED BY MarkInvariant, <1>1, PTL

(* DeltaMonVault.sol 261-266, 609-611, 639: however managers are funded,   *)
(* return and are removed, an empty book never carries a result.           *)
THEOREM EmptyBookIsUnmarked == Spec => []EmptyBookHasNoMark
  <1>1. MarkInv => EmptyBookHasNoMark BY DEF MarkInv
  <1> QED BY MarkInvariant, <1>1, PTL

(* DeltaMonVault.sol 609-611: a report made about an earlier book never    *)
(* counts as a fresh mark of the present one.                              *)
THEOREM MarkIsOfThisBook == Spec => []MarkBelongsToThisBook
  <1>1. MarkInv => MarkBelongsToThisBook BY DEF MarkInv
  <1> QED BY MarkInvariant, <1>1, PTL

-----------------------------------------------------------------------------
(***************************************************************************)
(* Unbonding                                                               *)
(***************************************************************************)

UnbondInv == StakeTypeOK /\ SlotsMirrorRequests

LEMMA OthersLeaveTheUnbonds ==
    ASSUME ShareNext \/ SwapNext \/ PerpNext \/ OwnerNext \/ EnvNext
    PROVE  UNCHANGED stakeVars
  <1>1. CASE ShareNext
    BY <1>1 DEF ShareNext, Deposit, Mint, PullAndMint, Redeem, Withdraw, Settle,
                RedeemInKind, Transfer, stakeVars
  <1>2. CASE SwapNext
    BY <1>2 DEF SwapNext, SwapUsdcForMon, SwapMonForUsdc, SwapUsdcForAusd,
                SwapAusdForUsdc, stakeVars
  <1>3. CASE PerpNext
    BY <1>3 DEF PerpNext, ControlPerpManagers, SendFundPerpManager, PerpManagerDeposit,
                ReportPerpPnl, stakeVars
  <1>4. CASE OwnerNext
    BY <1>4 DEF OwnerNext, WithdrawFees, SetPaused, stakeVars
  <1>5. CASE EnvNext
    BY <1>5 DEF EnvNext, Tick, OracleMoves, stakeVars
  <1> QED BY <1>1, <1>2, <1>3, <1>4, <1>5

LEMMA SlotIds ==
    /\ 0 \in Slots
    /\ \A id \in Slots : nextId(id) \in Slots
  <1>1. WithdrawIds \in Nat \ {0}
    BY VaultAssumption DEF VaultAssumption
  <1> QED BY <1>1 DEF Slots, nextId

LEMMA UnbondInvInit == Init => UnbondInv
  BY SlotIds DEF Init, UnbondInv, StakeTypeOK, SlotsMirrorRequests

LEMMA StakeKeepsUnbondInv ==
    ASSUME UnbondInv, NEW v \in Validators, NEW a \in MonAmounts, Stake(v, a)
    PROVE  UnbondInv'
  <1>1. a \in Nat
    BY VaultAssumption DEF VaultAssumption
  <1> QED BY <1>1 DEF Stake, UnbondInv, StakeTypeOK, SlotsMirrorRequests

LEMMA UnstakeKeepsUnbondInv ==
    ASSUME UnbondInv, NEW v \in Validators, NEW a \in MonAmounts, Unstake(v, a)
    PROVE  UnbondInv'
  <1> DEFINE id == nextWithdrawId[v]
  <1>1. a \in Nat /\ id \in Slots
    BY VaultAssumption DEF VaultAssumption, UnbondInv, StakeTypeOK
  <1>2. /\ a <= stakedMon /\ a <= delegated[v]
        /\ nextWithdrawId' = [nextWithdrawId EXCEPT ![v] = nextId(id)]
        /\ stakedMon' = stakedMon - a
        /\ unstakingMon' = unstakingMon + a
        /\ pendingUnstake' = [pendingUnstake EXCEPT ![v][id] = a]
        /\ delegated' = [delegated EXCEPT ![v] = @ - a]
        /\ requests' = [requests EXCEPT ![v][id] = [amount |-> a, ready |-> FALSE]]
    BY DEF Unstake, Undelegate
  <1>3. nextId(id) \in Slots
    BY <1>1, SlotIds
  <1>4. stakedMon' \in Nat /\ unstakingMon' \in Nat /\ delegated' \in [Validators -> Nat]
    BY <1>1, <1>2 DEF UnbondInv, StakeTypeOK
  <1>5. nextWithdrawId' \in [Validators -> Slots]
    BY <1>2, <1>3 DEF UnbondInv, StakeTypeOK
  <1>6. pendingUnstake' \in [Validators -> [Slots -> Nat]]
    BY <1>1, <1>2 DEF UnbondInv, StakeTypeOK
  <1>7. requests' \in [Validators -> [Slots -> [amount : Nat, ready : BOOLEAN]]]
    BY <1>1, <1>2 DEF UnbondInv, StakeTypeOK
  <1>8. SlotsMirrorRequests'
    BY <1>1, <1>2 DEF UnbondInv, StakeTypeOK, SlotsMirrorRequests
  <1> QED BY <1>4, <1>5, <1>6, <1>7, <1>8 DEF UnbondInv, StakeTypeOK

LEMMA ClaimKeepsUnbondInv ==
    ASSUME UnbondInv, NEW v \in Validators, NEW i \in Slots, ClaimUnstaked(v, i)
    PROVE  UnbondInv'
  <1>1. /\ pendingUnstake[v][i] <= unstakingMon
        /\ pendingUnstake' = [pendingUnstake EXCEPT ![v][i] = 0]
        /\ unstakingMon' = unstakingMon - pendingUnstake[v][i]
        /\ requests' = [requests EXCEPT ![v][i] = [amount |-> 0, ready |-> FALSE]]
        /\ UNCHANGED <<stakedMon, nextWithdrawId, delegated>>
    BY DEF ClaimUnstaked, ClearUnstake
  <1>2. unstakingMon' \in Nat
    BY <1>1 DEF UnbondInv, StakeTypeOK
  <1>3. pendingUnstake' \in [Validators -> [Slots -> Nat]]
    BY <1>1 DEF UnbondInv, StakeTypeOK
  <1>4. requests' \in [Validators -> [Slots -> [amount : Nat, ready : BOOLEAN]]]
    BY <1>1 DEF UnbondInv, StakeTypeOK
  <1>5. SlotsMirrorRequests'
    BY <1>1 DEF UnbondInv, StakeTypeOK, SlotsMirrorRequests
  <1> QED BY <1>1, <1>2, <1>3, <1>4, <1>5 DEF UnbondInv, StakeTypeOK

LEMMA EpochKeepsUnbondInv ==
    ASSUME UnbondInv, EpochEnds
    PROVE  UnbondInv'
  <1>1. \A v \in Validators, i \in Slots :
            requests[v][i] \in [amount : Nat, ready : BOOLEAN]
    BY DEF UnbondInv, StakeTypeOK
  <1>2. /\ requests' = [v \in Validators |-> [i \in Slots |->
               [requests[v][i] EXCEPT !.ready = requests[v][i].amount # 0]]]
        /\ UNCHANGED <<stakedMon, unstakingMon, pendingUnstake, nextWithdrawId, delegated>>
    BY DEF EpochEnds
  <1>3. ASSUME NEW v \in Validators, NEW i \in Slots
        PROVE  /\ requests'[v][i] \in [amount : Nat, ready : BOOLEAN]
               /\ requests'[v][i].amount = requests[v][i].amount
    <2>1. requests[v][i] \in [amount : Nat, ready : BOOLEAN]
      BY <1>1
    <2>2. requests'[v][i] = [requests[v][i] EXCEPT !.ready = requests[v][i].amount # 0]
      BY <1>2
    <2>3. (requests[v][i].amount # 0) \in BOOLEAN
      OBVIOUS
    <2> QED BY <2>1, <2>2, <2>3
  <1>4. requests' \in [Validators -> [Slots -> [amount : Nat, ready : BOOLEAN]]]
    <2>1. ASSUME NEW v \in Validators
          PROVE  requests'[v] = [i \in Slots |-> requests'[v][i]]
      BY <1>2
    <2>2. ASSUME NEW v \in Validators
          PROVE  requests'[v] \in [Slots -> [amount : Nat, ready : BOOLEAN]]
      <3>1. \A i \in Slots : requests'[v][i] \in [amount : Nat, ready : BOOLEAN]
        BY <1>3
      <3> QED BY <2>1, <3>1
    <2>3. requests' = [v \in Validators |-> requests'[v]]
      BY <1>2
    <2> QED BY <2>2, <2>3
  <1>5. SlotsMirrorRequests'
    BY <1>2, <1>3 DEF UnbondInv, SlotsMirrorRequests
  <1> QED BY <1>2, <1>4, <1>5 DEF UnbondInv, StakeTypeOK

LEMMA UnbondInvStep == UnbondInv /\ [Next]_vars => UnbondInv'
  <1> SUFFICES ASSUME UnbondInv, [Next]_vars PROVE UnbondInv'
    OBVIOUS
  <1>1. ASSUME UNCHANGED stakeVars PROVE UnbondInv'
    BY <1>1 DEF UnbondInv, stakeVars, StakeTypeOK, SlotsMirrorRequests
  <1>2. CASE ShareNext \/ SwapNext \/ PerpNext \/ OwnerNext \/ EnvNext
    BY <1>1, <1>2, OthersLeaveTheUnbonds
  <1>3. CASE StakeNext
    <2>1. ASSUME NEW v \in Validators, NEW r \in Rewards, ClaimStakingRewards(v, r)
          PROVE  UnbondInv'
      BY <1>1, <2>1 DEF ClaimStakingRewards, stakeVars
    <2>2. ASSUME NEW r \in Rewards, ReceiveNative(r)
          PROVE  UnbondInv'
      BY <1>1, <2>2 DEF ReceiveNative, stakeVars
    <2> QED BY <1>3, <2>1, <2>2, StakeKeepsUnbondInv, UnstakeKeepsUnbondInv,
               ClaimKeepsUnbondInv, EpochKeepsUnbondInv DEF StakeNext
  <1>4. CASE UNCHANGED vars
    BY <1>1, <1>4 DEF vars, stakeVars
  <1> QED BY <1>2, <1>3, <1>4 DEF Next

THEOREM UnbondInvariant == Spec => []UnbondInv
  <1> QED BY UnbondInvInit, UnbondInvStep, PTL DEF Spec

(* DeltaMonVault.sol 511-539: slot by slot, the vault records what the     *)
(* precompile will pay, for any number of validators and ids.              *)
THEOREM SlotsMatch == Spec => []SlotsMirrorRequests
  <1>1. UnbondInv => SlotsMirrorRequests BY DEF UnbondInv
  <1> QED BY UnbondInvariant, <1>1, PTL

(* An unbond that is on record now, in a step that changes it.              *)
PaidInFull ==
    \A v \in Validators, i \in Slots :
        pendingUnstake[v][i] # 0 /\ pendingUnstake'[v][i] # pendingUnstake[v][i]
        => /\ requests[v][i].ready
           /\ pendingUnstake'[v][i] = 0
           /\ wmon' = wmon + pendingUnstake[v][i]

LEMMA StepsPayInFull == UnbondInv /\ [Next]_vars => [PaidInFull]_vars
  <1> SUFFICES ASSUME UnbondInv, Next PROVE PaidInFull
    OBVIOUS
  <1>1. CASE UNCHANGED pendingUnstake
    BY <1>1 DEF PaidInFull
  <1>2. ASSUME NEW v \in Validators, NEW a \in MonAmounts, Unstake(v, a)
        PROVE  PaidInFull
    <2>1. /\ nextWithdrawId[v] \in Slots /\ pendingUnstake[v][nextWithdrawId[v]] = 0
          /\ pendingUnstake' = [pendingUnstake EXCEPT ![v][nextWithdrawId[v]] = a]
      BY <1>2 DEF Unstake, UnbondInv, StakeTypeOK
    <2> QED BY <2>1 DEF PaidInFull, UnbondInv, StakeTypeOK
  <1>3. ASSUME NEW v \in Validators, NEW i \in Slots, ClaimUnstaked(v, i)
        PROVE  PaidInFull
    <2>1. /\ pendingUnstake' = [pendingUnstake EXCEPT ![v][i] = 0]
          /\ requests[v][i].ready
          /\ wmon' = wmon + requests[v][i].amount
      BY <1>3 DEF ClaimUnstaked, ClearUnstake
    <2>2. requests[v][i].amount = pendingUnstake[v][i]
      BY DEF UnbondInv, SlotsMirrorRequests
    <2> QED BY <2>1, <2>2 DEF PaidInFull, UnbondInv, StakeTypeOK
  <1>4. CASE ShareNext \/ SwapNext \/ PerpNext \/ OwnerNext \/ EnvNext
    BY <1>1, <1>4, OthersLeaveTheUnbonds DEF stakeVars
  <1>5. CASE StakeNext
    BY <1>1, <1>2, <1>3, <1>5 DEF StakeNext, Stake, EpochEnds, ClaimStakingRewards,
       ReceiveNative, stakeVars
  <1> QED BY <1>4, <1>5 DEF Next

(* DeltaMonVault.sol 526-539: a recorded unbond goes away only by being    *)
(* paid in full, even when the ids have wrapped round.                     *)
THEOREM UnbondsArePaidInFull == Spec => UnbondPaidInFull
  BY UnbondInvariant, StepsPayInFull, PTL DEF Spec, UnbondPaidInFull, PaidInFull

-----------------------------------------------------------------------------
(***************************************************************************)
(* The types of the books                                                  *)
(***************************************************************************)
BooksTypeOK ==
    /\ balanceOf \in [Accounts -> Nat] /\ costBasis \in [Accounts -> Nat]
    /\ usdc \in Nat /\ ausd \in Nat /\ wmon \in Nat /\ native \in Nat
    /\ accruedFees \in Nat
    /\ price \in Prices

TypeInv == BooksTypeOK /\ UnbondInv /\ MarkInv

booksFrame == <<shareVars, usdc, ausd, monVars, accruedFees, price>>

LEMMA Rates ==
    /\ VirtualShares \in Nat \ {0} /\ BPS \in Nat \ {0}
    /\ FeeBps \in Nat /\ FeeBps <= BPS
    /\ SlippageBps \in Nat /\ SlippageBps <= BPS
    /\ ParityBps \in Nat /\ ParityBps <= BPS
    /\ CeilingBps \in Nat
    /\ \A p \in Prices : p \in Nat \ {0}
  BY VaultAssumption DEF VaultAssumption

LEMMA PositivePart ==
    ASSUME NEW n \in Int
    PROVE  PosPart(n) \in Nat /\ n <= PosPart(n) /\ (n >= 0 => PosPart(n) = n)
  BY DEF PosPart

(* What the valuation returns.                                             *)
LEMMA ValuationTypes ==
    ASSUME TypeInv
    PROVE  /\ IsFiniteSet(Accounts)
           /\ totalSupply \in Nat /\ \A a \in Accounts : balanceOf[a] <= totalSupply
           /\ totalMon \in Nat /\ totalMon * price \in Nat
           /\ perpEquity \in Nat /\ grossAssets \in Nat /\ totalAssets \in Nat
           /\ availableLiquidity \in Nat /\ availableLiquidity <= usdc
  <1> USE DEF TypeInv
  <1>1. IsFiniteSet(Accounts)
    BY VaultAssumption, FS_AddElement DEF VaultAssumption, Accounts
  <1>2. totalSupply \in Nat /\ \A a \in Accounts : balanceOf[a] <= totalSupply
    BY <1>1, SumOverBounds DEF totalSupply, BooksTypeOK
  <1>3. totalMon \in Nat /\ totalMon * price \in Nat
    <2>1. totalMon \in Nat /\ price \in Nat
      BY Rates DEF totalMon, BooksTypeOK, UnbondInv, StakeTypeOK
    <2> QED BY <2>1, ProductOfNats
  <1>4. perpEquity \in Nat
    <2>1. perpManagerDeployed \in Int /\ perpReportedPnl \in Int
      BY DEF MarkInv, PerpTypeOK
    <2> QED BY <2>1, PositivePart DEF perpEquity
  <1>5. grossAssets \in Nat
    BY <1>3, <1>4 DEF grossAssets, BooksTypeOK
  <1>6. totalAssets \in Nat
    BY <1>5, PositivePart DEF totalAssets, BooksTypeOK
  <1>7. availableLiquidity \in Nat /\ availableLiquidity <= usdc
    BY DEF availableLiquidity, PosPart, BooksTypeOK
  <1> QED BY <1>1, <1>2, <1>3, <1>4, <1>5, <1>6, <1>7

(* The conversions round in the vault's favour: a deposit never mints more *)
(* than it pays for, and an exit never pays more than its shares are worth.*)
LEMMA ConversionsRound ==
    ASSUME TypeInv, NEW n \in Nat
    PROVE  /\ convertToShares(n) \in Nat
           /\ convertToShares(n) * (totalAssets + 1) <= n * (totalSupply + VirtualShares)
           /\ convertToAssets(n) \in Nat
           /\ convertToAssets(n) * (totalSupply + VirtualShares) <= n * (totalAssets + 1)
           /\ previewMint(n) \in Nat
           /\ n * (totalAssets + 1) <= previewMint(n) * (totalSupply + VirtualShares)
           /\ previewWithdraw(n) \in Nat
  <1>1. totalAssets + 1 \in Nat \ {0} /\ totalSupply + VirtualShares \in Nat \ {0}
    BY ValuationTypes, Rates
  <1>2. totalAssets + 1 \in Nat /\ totalSupply + VirtualShares \in Nat
    BY <1>1
  <1> HIDE DEF totalAssets, totalSupply
  <1> QED BY <1>1, <1>2, MulDivFloor, MulDivCeiling
          DEF convertToShares, convertToAssets, previewMint, previewWithdraw

(* A leaver takes no more basis than the account has, and its fee is never *)
(* more than what it is paid.                                              *)
LEMMA BasisTaken ==
    ASSUME BooksTypeOK, NEW h \in Accounts, NEW s \in Nat, s <= balanceOf[h]
    PROVE  basisOf(h, s) \in Nat /\ basisOf(h, s) <= costBasis[h]
  <1>1. balanceOf[h] \in Nat /\ costBasis[h] \in Nat
    BY DEF BooksTypeOK
  <1> QED BY <1>1, MulDivFloor DEF basisOf

LEMMA FeeTaken ==
    ASSUME NEW gross \in Nat, NEW basis \in Nat
    PROVE  /\ feeOn(gross, basis) \in Nat /\ feeOn(gross, basis) <= gross
           /\ feeOn(gross, basis) > 0 =>
                gross > basis /\ feeOn(gross, basis) * BPS <= FeeBps * (gross - basis)
  <1>1. CASE gross > basis
    <2>1. gross - basis \in Nat /\ FeeBps \in Nat /\ FeeBps <= BPS /\ BPS \in Nat \ {0}
      BY <1>1, Rates
    <2>2. /\ MulDiv(gross - basis, FeeBps, BPS) \in Nat
          /\ MulDiv(gross - basis, FeeBps, BPS) * BPS <= (gross - basis) * FeeBps
          /\ MulDiv(gross - basis, FeeBps, BPS) <= gross - basis
      BY <2>1, MulDivFloor
    <2>3. (gross - basis) * FeeBps = FeeBps * (gross - basis)
      BY <2>1, Distribute
    <2>4. feeOn(gross, basis) = MulDiv(gross - basis, FeeBps, BPS)
      BY <1>1 DEF feeOn
    <2> QED BY <1>1, <2>1, <2>2, <2>3, <2>4
  <1>2. CASE ~(gross > basis)
    BY <1>2 DEF feeOn
  <1> QED BY <1>1, <1>2

LEMMA BooksInit == Init => BooksTypeOK
  BY DEF Init, BooksTypeOK

(* One lemma per kind of call.                                             *)
LEMMA DepositKeepsBooks ==
    ASSUME TypeInv, NEW h \in Holders, NEW assets \in Nat, NEW shares \in Nat,
           PullAndMint(h, assets, shares)
    PROVE  BooksTypeOK'
  <1>1. /\ usdc' = usdc + assets
        /\ costBasis' = [costBasis EXCEPT ![h] = costBasis[h] + assets]
        /\ balanceOf' = [balanceOf EXCEPT ![h] = balanceOf[h] + shares]
        /\ UNCHANGED <<ausd, wmon, native, accruedFees, price>>
    BY DEF PullAndMint, monVars, marketVars
  <1>2. h \in Accounts
    BY DEF Accounts
  <1> QED BY <1>1, <1>2 DEF BooksTypeOK, TypeInv

LEMMA SettleKeepsBooks ==
    ASSUME TypeInv, NEW h \in Holders, NEW shares \in Nat, Settle(h, shares)
    PROVE  BooksTypeOK'
  <1> DEFINE gross == convertToAssets(shares)
             basis == basisOf(h, shares)
             fee   == feeOn(gross, basis)
  <1>1. /\ shares <= balanceOf[h] /\ gross <= availableLiquidity
        /\ costBasis' = [costBasis EXCEPT ![h] = costBasis[h] - basis]
        /\ balanceOf' = [balanceOf EXCEPT ![h] = balanceOf[h] - shares]
        /\ accruedFees' = accruedFees + fee
        /\ usdc' = usdc - (gross - fee)
        /\ UNCHANGED <<ausd, wmon, native, price>>
    BY DEF Settle, monVars, marketVars
  <1>2. h \in Accounts
    BY DEF Accounts
  <1>3. gross \in Nat
    BY ConversionsRound
  <1>4. basis \in Nat /\ basis <= costBasis[h]
    BY <1>1, <1>2, BasisTaken DEF TypeInv
  <1>5. fee \in Nat /\ fee <= gross
    BY <1>3, <1>4, FeeTaken
  <1>6. gross <= usdc
    BY <1>1, <1>3, ValuationTypes DEF TypeInv, BooksTypeOK
  <1> HIDE DEF gross, basis, fee
  <1>7. usdc' \in Nat /\ accruedFees' \in Nat
    BY <1>1, <1>3, <1>5, <1>6 DEF TypeInv, BooksTypeOK
  <1>8. costBasis' \in [Accounts -> Nat] /\ balanceOf' \in [Accounts -> Nat]
    BY <1>1, <1>2, <1>4 DEF TypeInv, BooksTypeOK
  <1> QED BY <1>1, <1>7, <1>8 DEF TypeInv, BooksTypeOK

(* The part of a holding that goes with the shares, rounded down.          *)
LEMMA InKindPart ==
    ASSUME TypeInv, NEW h \in Accounts, NEW s \in 1 .. balanceOf[h], NEW held \in Nat
    PROVE  /\ totalSupply \in Nat \ {0} /\ s <= totalSupply
           /\ MulDiv(held, s, totalSupply) \in Nat
           /\ MulDiv(held, s, totalSupply) <= held
           /\ MulDiv(held, s, totalSupply) * totalSupply <= held * s
  <1>1. balanceOf[h] \in Nat /\ s \in Nat \ {0} /\ s <= balanceOf[h]
    BY DEF TypeInv, BooksTypeOK
  <1>2. totalSupply \in Nat \ {0} /\ s <= totalSupply
    BY <1>1, ValuationTypes
  <1> HIDE DEF totalSupply
  <1> QED BY <1>1, <1>2, MulDivFloor

LEMMA InKindKeepsBooks ==
    ASSUME TypeInv, NEW h \in Holders, NEW s, RedeemInKind(h, s)
    PROVE  BooksTypeOK'
  <1> DEFINE basis == basisOf(h, s)
  <1>1. /\ s \in 1 .. balanceOf[h]
        /\ usdc' = usdc - MulDiv(availableLiquidity, s, totalSupply)
        /\ wmon' = wmon + native - MulDiv(wmon + native, s, totalSupply)
        /\ native' = 0
        /\ ausd' = ausd - MulDiv(ausd, s, totalSupply)
        /\ costBasis' = [costBasis EXCEPT ![h] = costBasis[h] - basis]
        /\ balanceOf' = [balanceOf EXCEPT ![h] = balanceOf[h] - s]
        /\ UNCHANGED <<accruedFees, price>>
    BY DEF RedeemInKind, marketVars
  <1>2. h \in Accounts
    BY DEF Accounts
  <1>3. s \in Nat /\ s <= balanceOf[h]
    BY <1>1, <1>2 DEF TypeInv, BooksTypeOK
  <1>4. basis \in Nat /\ basis <= costBasis[h]
    BY <1>2, <1>3, BasisTaken DEF TypeInv
  <1>5. /\ availableLiquidity \in Nat /\ availableLiquidity <= usdc
        /\ usdc \in Nat /\ wmon \in Nat /\ native \in Nat /\ ausd \in Nat
    BY ValuationTypes DEF TypeInv, BooksTypeOK
  <1>6. \A held \in Nat : /\ MulDiv(held, s, totalSupply) \in Nat
                          /\ MulDiv(held, s, totalSupply) <= held
    BY <1>1, <1>2, InKindPart
  <1> HIDE DEF basis, availableLiquidity, totalSupply
  <1>7. usdc' \in Nat /\ wmon' \in Nat /\ native' \in Nat /\ ausd' \in Nat
    <2>1. usdc' \in Nat
      BY <1>1, <1>5, <1>6
    <2>2. wmon' \in Nat
      <3>1. PICK mon \in Nat : mon = wmon + native
        BY <1>5
      <3>2. MulDiv(mon, s, totalSupply) \in Nat /\ MulDiv(mon, s, totalSupply) <= mon
        BY <1>6
      <3>3. wmon' = mon - MulDiv(mon, s, totalSupply)
        BY <1>1, <1>5, <3>1, <3>2
      <3> QED BY <3>2, <3>3
    <2>3. ausd' \in Nat
      BY <1>1, <1>5, <1>6
    <2> QED BY <1>1, <2>1, <2>2, <2>3
  <1>8. costBasis' \in [Accounts -> Nat] /\ balanceOf' \in [Accounts -> Nat]
    BY <1>1, <1>2, <1>3, <1>4 DEF TypeInv, BooksTypeOK
  <1> QED BY <1>1, <1>7, <1>8 DEF TypeInv, BooksTypeOK

LEMMA TransferKeepsBooks ==
    ASSUME TypeInv, NEW h \in Holders, NEW to \in Accounts, NEW s, Transfer(h, to, s)
    PROVE  BooksTypeOK'
  <1> DEFINE moved == basisMoved(h, to, s)
  <1>1. /\ h # to /\ s \in 1 .. balanceOf[h]
        /\ balanceOf' = [balanceOf EXCEPT ![h] = @ - s, ![to] = @ + s]
        /\ costBasis' = [costBasis EXCEPT ![h] = @ - moved, ![to] = @ + moved]
        /\ UNCHANGED <<usdc, ausd, wmon, native, accruedFees, price>>
    BY DEF Transfer, monVars, marketVars
  <1>2. h \in Accounts
    BY DEF Accounts
  <1>3. s \in Nat /\ s <= balanceOf[h]
    BY <1>1, <1>2 DEF TypeInv, BooksTypeOK
  <1>4. moved \in Nat /\ moved <= costBasis[h]
    BY <1>2, <1>3, BasisTaken DEF TypeInv, BooksTypeOK, basisMoved
  <1> HIDE DEF moved
  <1>5. costBasis' \in [Accounts -> Nat] /\ balanceOf' \in [Accounts -> Nat]
    BY <1>1, <1>2, <1>3, <1>4 DEF TypeInv, BooksTypeOK
  <1> QED BY <1>1, <1>5 DEF TypeInv, BooksTypeOK

(* A venue pays a whole amount, and no more than the oracle's price.       *)
LEMMA SwapPays ==
    ASSUME NEW fair \in Nat, NEW slippage \in Nat, slippage <= BPS,
           NEW out \in SwapOutputs(fair, slippage)
    PROVE  out \in Nat /\ out <= fair
  <1>1. BPS - slippage \in Nat /\ BPS - slippage <= BPS /\ BPS \in Nat \ {0}
    BY Rates
  <1>2. MulDiv(fair, BPS - slippage, BPS) \in Nat /\ MulDiv(fair, BPS - slippage, BPS) <= fair
    BY <1>1, MulDivFloor
  <1> QED BY <1>2 DEF SwapOutputs

LEMMA SwapsKeepBooks ==
    ASSUME TypeInv, SwapNext
    PROVE  BooksTypeOK'
  <1> USE DEF TypeInv
  <1>1. price \in Nat \ {0} /\ MonSwaps \subseteq Nat /\ AusdSwaps \subseteq Nat
    BY Rates, VaultAssumption DEF VaultAssumption, BooksTypeOK
  <1>2. ASSUME NEW a \in MonSwaps, SwapUsdcForMon(a) PROVE BooksTypeOK'
    <2>1. a \in Nat /\ assetsToMon(a) \in Nat
      BY <1>1, Quotient DEF assetsToMon
    <2>2. PICK out \in SwapOutputs(assetsToMon(a), SlippageBps) :
              usdc' = usdc - a /\ wmon' = wmon + out
      BY <1>2 DEF SwapUsdcForMon
    <2>3. out \in Nat
      BY <2>1, Rates, SwapPays
    <2>4. a <= usdc /\ UNCHANGED <<balanceOf, costBasis, ausd, native, accruedFees, price>>
      BY <1>2 DEF SwapUsdcForMon, shareVars, marketVars
    <2> QED BY <2>1, <2>2, <2>3, <2>4 DEF BooksTypeOK
  <1>3. ASSUME NEW a \in MonSwaps, SwapMonForUsdc(a) PROVE BooksTypeOK'
    <2>1. a \in Nat /\ a * price \in Nat
      BY <1>1, ProductOfNats
    <2>2. PICK out \in SwapOutputs(a * price, SlippageBps) :
              usdc' = usdc + out /\ wmon' = wmon - a
      BY <1>3 DEF SwapMonForUsdc
    <2>3. out \in Nat
      BY <2>1, Rates, SwapPays
    <2>4. a <= wmon /\ UNCHANGED <<balanceOf, costBasis, ausd, native, accruedFees, price>>
      BY <1>3 DEF SwapMonForUsdc, shareVars, marketVars
    <2> QED BY <2>1, <2>2, <2>3, <2>4 DEF BooksTypeOK
  <1>4. ASSUME NEW a \in AusdSwaps, SwapUsdcForAusd(a) PROVE BooksTypeOK'
    <2>1. a \in Nat
      BY <1>1
    <2>2. PICK out \in SwapOutputs(a, ParityBps) : usdc' = usdc - a /\ ausd' = ausd + out
      BY <1>4 DEF SwapUsdcForAusd
    <2>3. out \in Nat
      BY <2>1, Rates, SwapPays
    <2>4. a <= usdc /\ UNCHANGED <<balanceOf, costBasis, wmon, native, accruedFees, price>>
      BY <1>4 DEF SwapUsdcForAusd, shareVars, monVars, marketVars
    <2> QED BY <2>1, <2>2, <2>3, <2>4 DEF BooksTypeOK
  <1>5. ASSUME NEW a \in AusdSwaps, SwapAusdForUsdc(a) PROVE BooksTypeOK'
    <2>1. a \in Nat
      BY <1>1
    <2>2. PICK out \in SwapOutputs(a, ParityBps) : usdc' = usdc + out /\ ausd' = ausd - a
      BY <1>5 DEF SwapAusdForUsdc
    <2>3. out \in Nat
      BY <2>1, Rates, SwapPays
    <2>4. a <= ausd /\ UNCHANGED <<balanceOf, costBasis, wmon, native, accruedFees, price>>
      BY <1>5 DEF SwapAusdForUsdc, shareVars, monVars, marketVars
    <2> QED BY <2>1, <2>2, <2>3, <2>4 DEF BooksTypeOK
  <1> QED BY <1>2, <1>3, <1>4, <1>5 DEF SwapNext

LEMMA StakingKeepsBooks ==
    ASSUME TypeInv, StakeNext
    PROVE  BooksTypeOK'
  <1> USE DEF TypeInv
  <1>1. MonAmounts \subseteq Nat /\ Rewards \subseteq Nat
    BY VaultAssumption DEF VaultAssumption
  <1>2. ASSUME NEW v \in Validators, NEW a \in MonAmounts, Stake(v, a) PROVE BooksTypeOK'
    <2>1. a \in Nat
      BY <1>1
    <2> QED BY <1>2, <2>1 DEF Stake, PosPart, BooksTypeOK, shareVars, marketVars
  <1>3. ASSUME NEW v \in Validators, NEW a \in MonAmounts, Unstake(v, a) PROVE BooksTypeOK'
    BY <1>3 DEF Unstake, BooksTypeOK, shareVars, monVars, marketVars
  <1>4. ASSUME NEW v \in Validators, NEW i \in Slots, ClaimUnstaked(v, i) PROVE BooksTypeOK'
    <2>1. requests[v][i].amount \in Nat
      BY DEF UnbondInv, StakeTypeOK
    <2> QED BY <1>4, <2>1 DEF ClaimUnstaked, BooksTypeOK, shareVars, marketVars
  <1>5. ASSUME NEW v \in Validators, NEW r \in Rewards, ClaimStakingRewards(v, r)
        PROVE  BooksTypeOK'
    BY <1>1, <1>5 DEF ClaimStakingRewards, BooksTypeOK, shareVars, marketVars
  <1>6. ASSUME EpochEnds PROVE BooksTypeOK'
    BY <1>6 DEF EpochEnds, BooksTypeOK, shareVars, monVars, marketVars
  <1>7. ASSUME NEW r \in Rewards, ReceiveNative(r) PROVE BooksTypeOK'
    BY <1>1, <1>7 DEF ReceiveNative, BooksTypeOK, shareVars, marketVars
  <1> QED BY <1>2, <1>3, <1>4, <1>5, <1>6, <1>7 DEF StakeNext

LEMMA PerpKeepsBooks ==
    ASSUME TypeInv, PerpNext
    PROVE  BooksTypeOK'
  <1> USE DEF TypeInv
  <1>1. PerpAmounts \subseteq Nat
    BY VaultAssumption DEF VaultAssumption
  <1>2. ASSUME NEW m \in Managers, NEW allowed \in BOOLEAN, ControlPerpManagers(m, allowed)
        PROVE  BooksTypeOK'
    BY <1>2 DEF ControlPerpManagers, BooksTypeOK, shareVars, monVars, marketVars
  <1>3. ASSUME NEW m \in Managers, NEW t \in PerpTokens, NEW a \in PerpAmounts,
               SendFundPerpManager(m, t, a)
        PROVE  BooksTypeOK'
    BY <1>1, <1>3 DEF SendFundPerpManager, BooksTypeOK, shareVars, monVars, marketVars
  <1>4. ASSUME NEW m \in Managers, NEW t \in PerpTokens, NEW a \in PerpAmounts,
               PerpManagerDeposit(m, t, a)
        PROVE  BooksTypeOK'
    BY <1>1, <1>4 DEF PerpManagerDeposit, BooksTypeOK, shareVars, monVars, marketVars
  <1>5. ASSUME NEW byOwner \in BOOLEAN, NEW pnl, ReportPerpPnl(byOwner, pnl)
        PROVE  BooksTypeOK'
    BY <1>5 DEF ReportPerpPnl, BooksTypeOK, shareVars, monVars, marketVars
  <1> QED BY <1>2, <1>3, <1>4, <1>5 DEF PerpNext

(* What the calls of a depositor come down to.                             *)
LEMMA ShareCalls ==
    ASSUME TypeInv, ShareNext
    PROVE  \E h \in Holders :
              \/ \E assets, shares \in Nat :
                    /\ PullAndMint(h, assets, shares) /\ Priced /\ ~perpReportIsStale
                    /\ shares * (totalAssets + 1) <= assets * (totalSupply + VirtualShares)
              \/ \E shares \in Nat : Settle(h, shares) /\ Priced
              \/ \E s \in Nat : RedeemInKind(h, s)
              \/ \E to \in Accounts, s \in Nat : Transfer(h, to, s)
  <1>1. DepositAmounts \subseteq Nat /\ MintAmounts \subseteq Nat
    BY VaultAssumption DEF VaultAssumption
  <1>2. ASSUME NEW h \in Holders PROVE Portions(h) \subseteq Nat
    <2>1. balanceOf[h] \in Nat
      BY DEF TypeInv, BooksTypeOK, Accounts
    <2>2. maxRedeem(h) \in Nat
      BY <2>1, ValuationTypes, ConversionsRound DEF maxRedeem
    <2>3. balanceOf[h] \div 2 \in Nat
      BY <2>1
    <2> QED BY <2>1, <2>2, <2>3 DEF Portions
  <1>3. PICK h \in Holders :
            \/ \E a \in DepositAmounts : Deposit(h, a) \/ Withdraw(h, a)
            \/ \E s \in MintAmounts : Mint(h, s)
            \/ \E s \in Portions(h) :
                  \/ Redeem(h, s) \/ RedeemInKind(h, s)
                  \/ \E to \in Accounts : Transfer(h, to, s)
    BY DEF ShareNext
  <1>4. CASE \E a \in DepositAmounts : Deposit(h, a) \/ Withdraw(h, a)
    <2>1. PICK a \in DepositAmounts : Deposit(h, a) \/ Withdraw(h, a)
      BY <1>4
    <2>2. a \in Nat /\ convertToShares(a) \in Nat /\ previewWithdraw(a) \in Nat
      BY <1>1, ConversionsRound
    <2>3. convertToShares(a) * (totalAssets + 1) <= a * (totalSupply + VirtualShares)
      BY <2>2, ConversionsRound
    <2> HIDE DEF totalAssets, totalSupply, convertToShares, previewWithdraw
    <2> QED BY <2>1, <2>2, <2>3 DEF Deposit, Withdraw
  <1>5. CASE \E s \in MintAmounts : Mint(h, s)
    <2>1. PICK s \in MintAmounts : Mint(h, s)
      BY <1>5
    <2>2. s \in Nat /\ previewMint(s) \in Nat
      BY <1>1, ConversionsRound
    <2>3. s * (totalAssets + 1) <= previewMint(s) * (totalSupply + VirtualShares)
      BY <2>2, ConversionsRound
    <2> QED BY <2>1, <2>2, <2>3 DEF Mint
  <1>6. CASE \E s \in Portions(h) : \/ Redeem(h, s) \/ RedeemInKind(h, s)
                                    \/ \E to \in Accounts : Transfer(h, to, s)
    <2>1. PICK s \in Portions(h) : \/ Redeem(h, s) \/ RedeemInKind(h, s)
                                   \/ \E to \in Accounts : Transfer(h, to, s)
      BY <1>6
    <2>2. s \in Nat
      BY <1>2
    <2> QED BY <2>1, <2>2 DEF Redeem
  <1> QED BY <1>3, <1>4, <1>5, <1>6

LEMMA SharesKeepBooks ==
    ASSUME TypeInv, ShareNext
    PROVE  BooksTypeOK'
  BY ShareCalls, DepositKeepsBooks, SettleKeepsBooks, InKindKeepsBooks, TransferKeepsBooks

LEMMA TypeInvStep == TypeInv /\ [Next]_vars => TypeInv'
  <1> SUFFICES ASSUME TypeInv, [Next]_vars PROVE TypeInv'
    OBVIOUS
  <1>1. UnbondInv' /\ MarkInv'
    BY UnbondInvStep, MarkInvStep DEF TypeInv
  <1>2. ASSUME UNCHANGED booksFrame PROVE BooksTypeOK'
    BY <1>2 DEF TypeInv, BooksTypeOK, booksFrame, shareVars, monVars
  <1>3. ASSUME OwnerNext PROVE BooksTypeOK'
    <2>1. CASE WithdrawFees(accruedFees)
      BY <2>1 DEF WithdrawFees, TypeInv, BooksTypeOK, shareVars, monVars, marketVars
    <2>2. CASE \E flag \in BOOLEAN : SetPaused(flag)
      BY <1>2, <2>2 DEF SetPaused, booksFrame, marketVars
    <2> QED BY <1>3, <2>1, <2>2 DEF OwnerNext
  <1>4. ASSUME EnvNext PROVE BooksTypeOK'
    BY <1>4 DEF EnvNext, Tick, OracleMoves, TypeInv, BooksTypeOK, shareVars, monVars
  <1>5. ASSUME UNCHANGED vars PROVE BooksTypeOK'
    BY <1>2, <1>5 DEF vars, booksFrame, marketVars
  <1>6. BooksTypeOK'
    BY <1>3, <1>4, <1>5, SharesKeepBooks, SwapsKeepBooks, StakingKeepsBooks, PerpKeepsBooks
       DEF Next
  <1> QED BY <1>1, <1>6 DEF TypeInv

THEOREM TypeInvariant == Spec => []TypeInv
  <1>1. Init => TypeInv
    BY BooksInit, UnbondInvInit, MarkInvInit DEF TypeInv
  <1> QED BY <1>1, TypeInvStep, PTL DEF Spec

-----------------------------------------------------------------------------
(***************************************************************************)
(* The perp book's account: what the managers owe, and what it is worth    *)
(***************************************************************************)
LEMMA BalancedInit == Init => BookBalanced
  <1> SUFFICES ASSUME Init PROVE BookBalanced
    OBVIOUS
  <1>1. /\ perpManagerOutstanding \in [Managers -> Nat] /\ perpManagerDeployed = 0
        /\ \A m \in Managers : perpManagerOutstanding[m] = 0
    BY DEF Init
  <1>2. IsFiniteSet(Managers)
    BY VaultAssumption DEF VaultAssumption
  <1> QED BY <1>1, <1>2, SumOverZero DEF BookBalanced

(* Every call that changes what one manager owes changes the total alike.  *)
LEMMA DebtAndTotalMoveTogether ==
    ASSUME TypeInv, TypeInv', BookBalanced, NEW m \in Managers, NEW d \in Int,
           perpManagerOutstanding' = [perpManagerOutstanding EXCEPT ![m] = perpManagerOutstanding[m] + d],
           perpManagerDeployed' = perpManagerDeployed + d
    PROVE  BookBalanced'
  <1>1. IsFiniteSet(Managers)
    BY VaultAssumption DEF VaultAssumption
  <1>2. perpManagerOutstanding \in [Managers -> Nat] /\ perpManagerOutstanding' \in [Managers -> Nat]
    BY DEF TypeInv, MarkInv, PerpTypeOK
  <1>3. /\ perpManagerOutstanding'[m] = perpManagerOutstanding[m] + d
        /\ \A n \in Managers : n # m => perpManagerOutstanding'[n] = perpManagerOutstanding[n]
    BY <1>2
  <1>4. SumOver(perpManagerOutstanding', Managers)
          = SumOver(perpManagerOutstanding, Managers) - perpManagerOutstanding[m]
            + perpManagerOutstanding'[m]
    <2>1. PICK f \in [Managers -> Nat] : f = perpManagerOutstanding
      BY <1>2
    <2>2. PICK g \in [Managers -> Nat] : g = perpManagerOutstanding'
      BY <1>2
    <2>3. \A n \in Managers : n # m => g[n] = f[n]
      BY <1>3, <2>1, <2>2
    <2>4. SumOver(g, Managers) = SumOver(f, Managers) - f[m] + g[m]
      BY <1>1, <2>3, SumOverChange
    <2> QED BY <2>1, <2>2, <2>4
  <1>5. SumOver(perpManagerOutstanding, Managers) \in Nat /\ perpManagerOutstanding[m] \in Nat
    BY <1>1, <1>2, SumOverBounds
  <1> QED BY <1>3, <1>4, <1>5 DEF BookBalanced

LEMMA BalancedStep == TypeInv /\ TypeInv' /\ BookBalanced /\ [Next]_vars => BookBalanced'
  <1> SUFFICES ASSUME TypeInv, TypeInv', BookBalanced, [Next]_vars PROVE BookBalanced'
    OBVIOUS
  <1>1. ASSUME UNCHANGED <<perpManagerOutstanding, perpManagerDeployed>> PROVE BookBalanced'
    BY <1>1 DEF BookBalanced
  <1>2. CASE ShareNext \/ SwapNext \/ StakeNext \/ OwnerNext
    BY <1>1, <1>2, OthersLeaveThePerpBook DEF perpFrame, perpVars
  <1>3. CASE EnvNext
    BY <1>1, <1>3 DEF EnvNext, Tick, OracleMoves, perpVars
  <1>4. CASE UNCHANGED vars
    BY <1>1, <1>4 DEF vars, perpVars
  <1>5. CASE PerpNext
    <2>1. PerpAmounts \subseteq Nat
      BY VaultAssumption DEF VaultAssumption
    <2>2. ASSUME NEW m \in Managers, NEW t \in PerpTokens, NEW a \in PerpAmounts,
                 SendFundPerpManager(m, t, a)
          PROVE  BookBalanced'
      <3>1. /\ perpManagerOutstanding' =
                   [perpManagerOutstanding EXCEPT ![m] = perpManagerOutstanding[m] + a]
            /\ perpManagerDeployed' = perpManagerDeployed + a
        BY <2>2 DEF SendFundPerpManager
      <3>2. a \in Int
        BY <2>1
      <3> QED BY <3>1, <3>2, DebtAndTotalMoveTogether
    <2>3. ASSUME NEW m \in Managers, NEW t \in PerpTokens, NEW a \in PerpAmounts,
                 PerpManagerDeposit(m, t, a)
          PROVE  BookBalanced'
      <3> DEFINE credited == creditedTo(a, perpManagerOutstanding[m])
      <3>1. /\ perpManagerOutstanding' =
                   [perpManagerOutstanding EXCEPT ![m] = perpManagerOutstanding[m] - credited]
            /\ perpManagerDeployed' = perpManagerDeployed - credited
        BY <2>3 DEF PerpManagerDeposit
      <3>2. perpManagerOutstanding[m] \in Nat /\ perpManagerDeployed \in Nat
        BY DEF TypeInv, MarkInv, PerpTypeOK
      <3>3. credited \in Int /\ -credited \in Int
        BY <2>1, <3>2 DEF creditedTo, Smaller
      <3> HIDE DEF credited
      <3>4. /\ perpManagerOutstanding' =
                   [perpManagerOutstanding EXCEPT ![m] = perpManagerOutstanding[m] + (-credited)]
            /\ perpManagerDeployed' = perpManagerDeployed + (-credited)
        BY <3>1, <3>2, <3>3
      <3> QED BY <3>3, <3>4, DebtAndTotalMoveTogether
    <2> QED BY <1>1, <1>5, <2>2, <2>3 DEF PerpNext, ControlPerpManagers, ReportPerpPnl
  <1> QED BY <1>2, <1>3, <1>4, <1>5 DEF Next

(* DeltaMonVault.sol 571-575, 600-648: for any number of managers, the     *)
(* total deployed is the sum of what each owes, however they are cleared,  *)
(* removed while in debt, funded, and return more or less than they owe.   *)
THEOREM BookIsBalanced == Spec => []BookBalanced
  <1>1. TypeInv /\ BookBalanced /\ [Next]_vars /\ TypeInv' => BookBalanced'
    BY BalancedStep
  <1> QED BY BalancedInit, <1>1, TypeInvariant, PTL DEF Spec

-----------------------------------------------------------------------------
(***************************************************************************)
(* The staking account: the vault's totals are the precompile's            *)
(***************************************************************************)
UnbondingAt == [v \in Validators |-> SumOver(pendingUnstake[v], Slots)]

(* What is staked is what the validators hold, and what is unbonding is    *)
(* what the slots say (475-539): totalMon counts no MON twice and none     *)
(* that is not there.                                                      *)
StakeBalanced ==
    /\ stakedMon = SumOver(delegated, Validators)
    /\ unstakingMon = SumOver(UnbondingAt, Validators)

LEMMA SlotsAreFinite ==
    /\ IsFiniteSet(Slots) /\ IsFiniteSet(Validators) /\ IsFiniteSet(Managers)
    /\ Slots \subseteq Nat
  <1>1. WithdrawIds \in Nat \ {0} /\ IsFiniteSet(Validators) /\ IsFiniteSet(Managers)
    BY VaultAssumption DEF VaultAssumption
  <1>2. 0 \in Int /\ WithdrawIds - 1 \in Int
    BY <1>1
  <1>3. IsFiniteSet(0 .. WithdrawIds - 1)
    BY <1>2, FS_Interval
  <1> QED BY <1>1, <1>3 DEF Slots

LEMMA OneValidatorMoves ==
    ASSUME NEW f \in [Validators -> Nat], NEW g \in [Validators -> Nat],
           NEW v \in Validators, \A w \in Validators : w # v => g[w] = f[w]
    PROVE  SumOver(g, Validators) = SumOver(f, Validators) - f[v] + g[v]
  <1>1. IsFiniteSet(Validators)
    BY SlotsAreFinite
  <1> QED BY <1>1, SumOverChange

LEMMA OneSlotMoves ==
    ASSUME NEW f \in [Slots -> Nat], NEW g \in [Slots -> Nat],
           NEW i \in Slots, \A j \in Slots : j # i => g[j] = f[j]
    PROVE  SumOver(g, Slots) = SumOver(f, Slots) - f[i] + g[i]
  <1>1. IsFiniteSet(Slots)
    BY SlotsAreFinite
  <1> QED BY <1>1, SumOverChange

LEMMA UnbondingType ==
    ASSUME StakeTypeOK
    PROVE  /\ UnbondingAt \in [Validators -> Nat]
           /\ \A v \in Validators, i \in Slots : pendingUnstake[v][i] <= UnbondingAt[v]
  <1>1. ASSUME NEW v \in Validators
        PROVE  /\ SumOver(pendingUnstake[v], Slots) \in Nat
               /\ \A i \in Slots : pendingUnstake[v][i] <= SumOver(pendingUnstake[v], Slots)
    BY SlotsAreFinite, SumOverBounds DEF StakeTypeOK
  <1> QED BY <1>1 DEF UnbondingAt

(* One slot is written: the sum of all of them follows.                    *)
LEMMA UnbondingMoves ==
    ASSUME StakeTypeOK, NEW v \in Validators, NEW i \in Slots, NEW n \in Nat,
           pendingUnstake' = [pendingUnstake EXCEPT ![v][i] = n]
    PROVE  SumOver(UnbondingAt', Validators)
             = SumOver(UnbondingAt, Validators) - pendingUnstake[v][i] + n
  <1>1. pendingUnstake[v] \in [Slots -> Nat] /\ pendingUnstake[v][i] \in Nat
    BY DEF StakeTypeOK
  <1>2. /\ pendingUnstake'[v] \in [Slots -> Nat] /\ pendingUnstake'[v][i] = n
        /\ \A j \in Slots : j # i => pendingUnstake'[v][j] = pendingUnstake[v][j]
        /\ \A w \in Validators : w # v => pendingUnstake'[w] = pendingUnstake[w]
    BY DEF StakeTypeOK
  <1>3. SumOver(pendingUnstake'[v], Slots)
          = SumOver(pendingUnstake[v], Slots) - pendingUnstake[v][i] + n
    BY <1>1, <1>2, OneSlotMoves
  <1>4. UnbondingAt \in [Validators -> Nat] /\ pendingUnstake[v][i] <= UnbondingAt[v]
    BY UnbondingType
  <1>5. PICK m \in Nat : m = UnbondingAt[v] - pendingUnstake[v][i] + n
    BY <1>1, <1>4
  <1>6. UnbondingAt' = [UnbondingAt EXCEPT ![v] = m]
    <2>1. UnbondingAt'[v] = m
      BY <1>3, <1>5 DEF UnbondingAt
    <2>2. \A w \in Validators : w # v => UnbondingAt'[w] = UnbondingAt[w]
      BY <1>2 DEF UnbondingAt
    <2>3. UnbondingAt' = [w \in Validators |-> UnbondingAt'[w]]
      BY DEF UnbondingAt
    <2> QED BY <1>4, <2>1, <2>2, <2>3
  <1>7. SumOver(UnbondingAt', Validators) = SumOver(UnbondingAt, Validators) - UnbondingAt[v] + m
    <2>1. UnbondingAt' \in [Validators -> Nat] /\ UnbondingAt'[v] = m
          /\ \A w \in Validators : w # v => UnbondingAt'[w] = UnbondingAt[w]
      BY <1>4, <1>6
    <2> QED BY <1>4, <2>1, OneValidatorMoves
  <1>8. SumOver(UnbondingAt, Validators) \in Nat /\ UnbondingAt[v] \in Nat
    BY <1>4, SlotsAreFinite, SumOverBounds
  <1> QED BY <1>1, <1>5, <1>7, <1>8

LEMMA DelegationMoves ==
    ASSUME StakeTypeOK, NEW v \in Validators, NEW n \in Nat,
           delegated' = [delegated EXCEPT ![v] = n]
    PROVE  SumOver(delegated', Validators) = SumOver(delegated, Validators) - delegated[v] + n
  <1>1. /\ delegated \in [Validators -> Nat] /\ delegated' \in [Validators -> Nat]
        /\ delegated'[v] = n /\ \A w \in Validators : w # v => delegated'[w] = delegated[w]
    BY DEF StakeTypeOK
  <1> QED BY <1>1, OneValidatorMoves

LEMMA StakeBalancedInit == Init => StakeBalanced
  <1> SUFFICES ASSUME Init PROVE StakeBalanced
    OBVIOUS
  <1>1. /\ stakedMon = 0 /\ unstakingMon = 0
        /\ delegated \in [Validators -> Nat] /\ \A v \in Validators : delegated[v] = 0
        /\ \A v \in Validators : /\ pendingUnstake[v] \in [Slots -> Nat]
                                 /\ \A i \in Slots : pendingUnstake[v][i] = 0
    BY DEF Init
  <1>2. \A v \in Validators : SumOver(pendingUnstake[v], Slots) = 0
    BY <1>1, SlotsAreFinite, SumOverZero
  <1>3. UnbondingAt \in [Validators -> Nat] /\ \A v \in Validators : UnbondingAt[v] = 0
    BY <1>2 DEF UnbondingAt
  <1> QED BY <1>1, <1>3, SlotsAreFinite, SumOverZero DEF StakeBalanced

LEMMA StakeBalancedStep == UnbondInv /\ StakeBalanced /\ [Next]_vars => StakeBalanced'
  <1> SUFFICES ASSUME UnbondInv, StakeBalanced, [Next]_vars PROVE StakeBalanced'
    OBVIOUS
  <1> USE DEF UnbondInv
  <1>0. /\ stakedMon \in Nat /\ unstakingMon \in Nat /\ MonAmounts \subseteq Nat
        /\ \A v \in Validators : delegated[v] \in Nat /\ nextWithdrawId[v] \in Slots
        /\ SumOver(delegated, Validators) \in Nat /\ SumOver(UnbondingAt, Validators) \in Nat
    BY VaultAssumption, SlotsAreFinite, SumOverBounds, UnbondingType DEF VaultAssumption, StakeTypeOK
  <1>1. ASSUME UNCHANGED <<stakedMon, unstakingMon, delegated, pendingUnstake>>
        PROVE  StakeBalanced'
    BY <1>1 DEF StakeBalanced, UnbondingAt
  <1>2. CASE ShareNext \/ SwapNext \/ PerpNext \/ OwnerNext \/ EnvNext
    BY <1>1, <1>2, OthersLeaveTheUnbonds DEF stakeVars
  <1>3. CASE UNCHANGED vars
    BY <1>1, <1>3 DEF vars, stakeVars
  <1>4. ASSUME NEW v \in Validators, NEW a \in MonAmounts, Stake(v, a) PROVE StakeBalanced'
    <2>1. /\ stakedMon' = stakedMon + a /\ UNCHANGED <<unstakingMon, pendingUnstake>>
          /\ delegated' = [delegated EXCEPT ![v] = delegated[v] + a]
      BY <1>4 DEF Stake
    <2>2. delegated[v] + a \in Nat /\ a \in Nat
      BY <1>0
    <2>3. SumOver(delegated', Validators) = SumOver(delegated, Validators) - delegated[v] + (delegated[v] + a)
      BY <2>1, <2>2, DelegationMoves
    <2>4. UnbondingAt' = UnbondingAt
      BY <2>1 DEF UnbondingAt
    <2> QED BY <1>0, <2>1, <2>2, <2>3, <2>4 DEF StakeBalanced
  <1>5. ASSUME NEW v \in Validators, NEW a \in MonAmounts, Unstake(v, a) PROVE StakeBalanced'
    <2> DEFINE id == nextWithdrawId[v]
    <2>1. /\ stakedMon' = stakedMon - a /\ unstakingMon' = unstakingMon + a
          /\ a <= delegated[v] /\ delegated' = [delegated EXCEPT ![v] = delegated[v] - a]
          /\ pendingUnstake[v][id] = 0
          /\ pendingUnstake' = [pendingUnstake EXCEPT ![v][id] = a]
      BY <1>5 DEF Unstake, Undelegate
    <2>2. delegated[v] - a \in Nat /\ a \in Nat /\ id \in Slots
      BY <1>0, <2>1
    <2>3. SumOver(delegated', Validators) = SumOver(delegated, Validators) - delegated[v] + (delegated[v] - a)
      BY <2>1, <2>2, DelegationMoves
    <2> HIDE DEF id
    <2>4. SumOver(UnbondingAt', Validators) = SumOver(UnbondingAt, Validators) - 0 + a
      BY <2>1, <2>2, UnbondingMoves
    <2> QED BY <1>0, <2>1, <2>2, <2>3, <2>4 DEF StakeBalanced
  <1>6. ASSUME NEW v \in Validators, NEW i \in Slots, ClaimUnstaked(v, i) PROVE StakeBalanced'
    <2>1. /\ unstakingMon' = unstakingMon - pendingUnstake[v][i]
          /\ pendingUnstake' = [pendingUnstake EXCEPT ![v][i] = 0]
          /\ UNCHANGED <<stakedMon, delegated>>
      BY <1>6 DEF ClaimUnstaked, ClearUnstake
    <2>2. SumOver(UnbondingAt', Validators)
            = SumOver(UnbondingAt, Validators) - pendingUnstake[v][i] + 0
      BY <2>1, UnbondingMoves
    <2>3. pendingUnstake[v][i] \in Nat
      BY DEF StakeTypeOK
    <2> QED BY <1>0, <2>1, <2>2, <2>3 DEF StakeBalanced
  <1>7. CASE StakeNext
    BY <1>1, <1>4, <1>5, <1>6, <1>7 DEF StakeNext, ClaimStakingRewards, EpochEnds, ReceiveNative, stakeVars
  <1> QED BY <1>2, <1>3, <1>7 DEF Next

(* DeltaMonVault.sol 475-539: for any validators, amounts and size of the  *)
(* id space, what the vault counts as staked is what it delegated, and     *)
(* what it counts as unbonding is what its slots add up to.                *)
THEOREM StakeIsBalanced == Spec => []StakeBalanced
  <1> QED BY StakeBalancedInit, StakeBalancedStep, UnbondInvariant, PTL DEF Spec

(* The contract subtracts checked, and a subtraction below zero reverts.   *)
(* No claim of a matured unbond and no return of a manager's is ever       *)
(* refused for that: an unbond is part of the total unbonding, a debt is   *)
(* part of what is deployed, and a delegation is part of the stake         *)
(* (511-539, 571-648).                                                     *)
PartsFitTotals ==
    /\ \A v \in Validators : delegated[v] <= stakedMon
    /\ \A v \in Validators, i \in Slots : pendingUnstake[v][i] <= unstakingMon
    /\ \A m \in Managers, a \in PerpAmounts :
          creditedTo(a, perpManagerOutstanding[m]) <= perpManagerDeployed

THEOREM NoTotalUnderflows == Spec => []PartsFitTotals
  <1>1. ASSUME TypeInv, StakeBalanced, BookBalanced PROVE PartsFitTotals
    <2>1. ASSUME NEW v \in Validators PROVE delegated[v] <= stakedMon
      BY <1>1, SlotsAreFinite, SumOverBounds DEF StakeBalanced, TypeInv, UnbondInv, StakeTypeOK
    <2>2. ASSUME NEW v \in Validators, NEW i \in Slots PROVE pendingUnstake[v][i] <= unstakingMon
      <3>1. /\ UnbondingAt \in [Validators -> Nat] /\ pendingUnstake[v][i] <= UnbondingAt[v]
            /\ pendingUnstake[v][i] \in Nat
        BY <1>1, UnbondingType DEF TypeInv, UnbondInv, StakeTypeOK
      <3>2. UnbondingAt[v] <= unstakingMon /\ UnbondingAt[v] \in Nat /\ unstakingMon \in Nat
        BY <1>1, <3>1, SlotsAreFinite, SumOverBounds DEF StakeBalanced
      <3> QED BY <3>1, <3>2
    <2>3. ASSUME NEW m \in Managers, NEW a \in PerpAmounts
          PROVE  creditedTo(a, perpManagerOutstanding[m]) <= perpManagerDeployed
      <3>1. perpManagerOutstanding \in [Managers -> Nat] /\ a \in Nat
        BY <1>1, VaultAssumption DEF VaultAssumption, TypeInv, MarkInv, PerpTypeOK
      <3>2. perpManagerOutstanding[m] <= perpManagerDeployed /\ perpManagerDeployed \in Nat
        BY <1>1, <3>1, SlotsAreFinite, SumOverBounds DEF BookBalanced
      <3> QED BY <3>1, <3>2 DEF creditedTo, Smaller
    <2> QED BY <2>1, <2>2, <2>3 DEF PartsFitTotals
  <1> QED BY <1>1, TypeInvariant, StakeIsBalanced, BookIsBalanced, PTL

-----------------------------------------------------------------------------
(* Which calls bring idle money in or touch a manager's debt, with the     *)
(* basis and the wrapped MON left alone: the perp book's own.              *)
LEMMA OnlyManagersMoveIdleMoney ==
    ASSUME TypeInv, ShareNext \/ SwapNext \/ StakeNext \/ OwnerNext,
           UNCHANGED <<costBasis, wmon>>
    PROVE  UNCHANGED perpManagerOutstanding /\ ausd' + usdc' <= ausd + usdc
  <1> USE DEF TypeInv
  <1>1. UNCHANGED perpManagerOutstanding
    BY OthersLeaveThePerpBook DEF perpFrame, perpVars
  <1>2. usdc \in Nat /\ ausd \in Nat /\ accruedFees \in Nat
    BY DEF BooksTypeOK
  <1>3. ASSUME ShareNext PROVE ausd' + usdc' <= ausd + usdc
    <2>1. ASSUME NEW h \in Holders, NEW assets \in Nat, NEW shares \in Nat,
                 PullAndMint(h, assets, shares)
          PROVE  ausd' + usdc' <= ausd + usdc
      <3>1. /\ usdc' = usdc + assets /\ ausd' = ausd
            /\ costBasis' = [costBasis EXCEPT ![h] = costBasis[h] + assets]
        BY <2>1 DEF PullAndMint
      <3>2. costBasis \in [Accounts -> Nat] /\ h \in Accounts /\ costBasis' = costBasis
        BY DEF BooksTypeOK, Accounts
      <3>3. costBasis[h] = costBasis[h] + assets /\ costBasis[h] \in Nat
        BY <3>1, <3>2
      <3> QED BY <1>2, <3>1, <3>3
    <2>2. ASSUME NEW h \in Holders, NEW shares \in Nat, Settle(h, shares)
          PROVE  ausd' + usdc' <= ausd + usdc
      <3> DEFINE gross == convertToAssets(shares)
                 basis == basisOf(h, shares)
                 fee   == feeOn(gross, basis)
      <3>1. shares <= balanceOf[h] /\ usdc' = usdc - (gross - fee) /\ ausd' = ausd
        BY <2>2 DEF Settle
      <3>2. basis \in Nat
        BY <3>1, BasisTaken DEF Accounts
      <3>3. gross \in Nat /\ fee \in Nat /\ fee <= gross
        BY <3>2, ConversionsRound, FeeTaken
      <3> HIDE DEF gross, basis, fee
      <3> QED BY <1>2, <3>1, <3>3
    <2>3. ASSUME NEW h \in Holders, NEW s, RedeemInKind(h, s)
          PROVE  ausd' + usdc' <= ausd + usdc
      <3>1. /\ s \in 1 .. balanceOf[h]
            /\ usdc' = usdc - MulDiv(availableLiquidity, s, totalSupply)
            /\ ausd' = ausd - MulDiv(ausd, s, totalSupply)
        BY <2>3 DEF RedeemInKind
      <3>2. \A held \in Nat : MulDiv(held, s, totalSupply) \in Nat
        BY <3>1, InKindPart DEF Accounts
      <3>3. availableLiquidity \in Nat
        BY ValuationTypes
      <3>4. MulDiv(availableLiquidity, s, totalSupply) \in Nat /\ MulDiv(ausd, s, totalSupply) \in Nat
        BY <1>2, <3>2, <3>3
      <3> QED BY <1>2, <3>1, <3>4
    <2>4. ASSUME NEW h \in Holders, NEW to \in Accounts, NEW s, Transfer(h, to, s)
          PROVE  ausd' + usdc' <= ausd + usdc
      BY <1>2, <2>4 DEF Transfer
    <2> QED BY <1>3, <2>1, <2>2, <2>3, <2>4, ShareCalls
  <1>4. ASSUME SwapNext PROVE ausd' + usdc' <= ausd + usdc
    <2>1. price \in Nat \ {0} /\ MonSwaps \subseteq Nat /\ AusdSwaps \subseteq Nat
      BY Rates, VaultAssumption DEF VaultAssumption, BooksTypeOK
    <2>2. ASSUME NEW a \in MonSwaps, SwapUsdcForMon(a) PROVE ausd' + usdc' <= ausd + usdc
      BY <1>2, <2>1, <2>2 DEF SwapUsdcForMon
    <2>3. ASSUME NEW a \in MonSwaps, SwapMonForUsdc(a) PROVE ausd' + usdc' <= ausd + usdc
      <3>1. PICK out \in SwapOutputs(a * price, SlippageBps) :
                usdc' = usdc + out /\ wmon' = wmon - a /\ ausd' = ausd
        BY <2>3 DEF SwapMonForUsdc
      <3>2. a = 0
        BY <2>1, <3>1 DEF BooksTypeOK
      <3>3. a * price = 0
        BY <2>1, <3>2
      <3>4. out = 0
        BY <3>1, <3>3, Rates, SwapPays
      <3> QED BY <1>2, <3>1, <3>4
    <2>4. ASSUME NEW a \in AusdSwaps, SwapUsdcForAusd(a) PROVE ausd' + usdc' <= ausd + usdc
      <3>1. PICK out \in SwapOutputs(a, ParityBps) : usdc' = usdc - a /\ ausd' = ausd + out
        BY <2>4 DEF SwapUsdcForAusd
      <3>2. out \in Nat /\ out <= a /\ a \in Nat
        BY <2>1, Rates, SwapPays
      <3> QED BY <1>2, <3>1, <3>2
    <2>5. ASSUME NEW a \in AusdSwaps, SwapAusdForUsdc(a) PROVE ausd' + usdc' <= ausd + usdc
      <3>1. PICK out \in SwapOutputs(a, ParityBps) : usdc' = usdc + out /\ ausd' = ausd - a
        BY <2>5 DEF SwapAusdForUsdc
      <3>2. out \in Nat /\ out <= a /\ a \in Nat
        BY <2>1, Rates, SwapPays
      <3> QED BY <1>2, <3>1, <3>2
    <2> QED BY <1>4, <2>2, <2>3, <2>4, <2>5 DEF SwapNext
  <1>5. ASSUME StakeNext PROVE ausd' + usdc' <= ausd + usdc
    BY <1>2, <1>5 DEF StakeNext, Stake, Unstake, ClaimUnstaked, ClaimStakingRewards,
                      EpochEnds, ReceiveNative
  <1>6. ASSUME OwnerNext PROVE ausd' + usdc' <= ausd + usdc
    BY <1>2, <1>6 DEF OwnerNext, WithdrawFees, SetPaused
  <1> QED BY <1>1, <1>3, <1>4, <1>5, <1>6

(* DeltaMonVault.sol 641-648: for any amounts and any managers, no send    *)
(* and no return changes the value of the book.                            *)
THEOREM BookValueIsConserved == Spec => BookValueConserved
  <1> DEFINE Moved == perpManagerOutstanding' # perpManagerOutstanding \/ ausd' + usdc' > ausd + usdc
             Conserved ==
                 Moved /\ UNCHANGED <<costBasis, wmon>> /\ perpManagerDeployed' > 0
                 => usdc' + ausd' + perpManagerDeployed' + perpReportedPnl'
                      = usdc + ausd + perpManagerDeployed + perpReportedPnl
  <1>1. TypeInv /\ [Next]_vars => [Conserved]_vars
    <2> SUFFICES ASSUME TypeInv, Next, Moved, UNCHANGED <<costBasis, wmon>>,
                        perpManagerDeployed' > 0
                 PROVE  usdc' + ausd' + perpManagerDeployed' + perpReportedPnl'
                          = usdc + ausd + perpManagerDeployed + perpReportedPnl
      OBVIOUS
    <2>1. /\ usdc \in Nat /\ ausd \in Nat /\ perpManagerDeployed \in Nat /\ perpReportedPnl \in Int
          /\ perpManagerOutstanding \in [Managers -> Nat] /\ PerpAmounts \subseteq Nat
      BY VaultAssumption DEF VaultAssumption, TypeInv, BooksTypeOK, MarkInv, PerpTypeOK
    <2>2. ASSUME NEW m \in Managers, NEW t \in PerpTokens, NEW a \in PerpAmounts,
                 SendFundPerpManager(m, t, a)
          PROVE  usdc' + ausd' + perpManagerDeployed' + perpReportedPnl'
                   = usdc + ausd + perpManagerDeployed + perpReportedPnl
      <3>1. /\ \/ usdc' = usdc - a /\ ausd' = ausd
               \/ usdc' = usdc /\ ausd' = ausd - a
            /\ perpManagerDeployed' = perpManagerDeployed + a
            /\ OpenBook
        BY <2>1, <2>2 DEF SendFundPerpManager
      <3>2. perpReportedPnl' = perpReportedPnl
        BY <3>1 DEF OpenBook, TypeInv, MarkInv, EmptyBookHasNoMark
      <3>3. a \in Int
        BY <2>1
      <3> QED BY <2>1, <3>1, <3>2, <3>3
    <2>3. ASSUME NEW m \in Managers, NEW t \in PerpTokens, NEW a \in PerpAmounts,
                 PerpManagerDeposit(m, t, a)
          PROVE  usdc' + ausd' + perpManagerDeployed' + perpReportedPnl'
                   = usdc + ausd + perpManagerDeployed + perpReportedPnl
      <3> DEFINE credited == creditedTo(a, perpManagerOutstanding[m])
      <3>1. /\ \/ usdc' = usdc + a /\ ausd' = ausd
               \/ usdc' = usdc /\ ausd' = ausd + a
            /\ perpManagerDeployed' = perpManagerDeployed - credited
            /\ DockMark(perpManagerDeployed - credited, a - credited)
        BY <2>1, <2>3 DEF PerpManagerDeposit
      <3>2. credited \in Nat /\ a - credited \in Nat /\ a \in Nat
        BY <2>1 DEF creditedTo, Smaller
      <3> HIDE DEF credited
      <3>3. perpReportedPnl' = perpReportedPnl - (a - credited)
        BY <2>1, <3>1, <3>2 DEF DockMark
      <3> QED BY <2>1, <3>1, <3>2, <3>3
    <2> HIDE DEF Conserved
    <2>4. ~(ShareNext \/ SwapNext \/ StakeNext \/ OwnerNext)
      <3> SUFFICES ASSUME ShareNext \/ SwapNext \/ StakeNext \/ OwnerNext PROVE FALSE
        OBVIOUS
      <3>1. UNCHANGED perpManagerOutstanding /\ ausd' + usdc' <= ausd + usdc
        BY OnlyManagersMoveIdleMoney
      <3>2. TypeInv'
        BY TypeInvStep
      <3>3. PICK u \in Nat, d \in Nat : usdc' = u /\ ausd' = d
        BY <3>2 DEF TypeInv, BooksTypeOK
      <3>4. d + u <= ausd + usdc /\ d + u > ausd + usdc
        BY <3>1, <3>3
      <3> QED BY <2>1, <3>4
    <2>5. ~EnvNext
      BY <2>1 DEF EnvNext, Tick, OracleMoves, perpVars
    <2>6. PerpNext
      BY <2>4, <2>5 DEF Next
    <2>7. \A m \in Managers, allowed \in BOOLEAN : ~ControlPerpManagers(m, allowed)
      BY <2>1 DEF ControlPerpManagers
    <2>8. \A byOwner \in BOOLEAN, pnl \in Pnls : ~ReportPerpPnl(byOwner, pnl)
      BY <2>1 DEF ReportPerpPnl
    <2> QED BY <2>2, <2>3, <2>6, <2>7, <2>8 DEF PerpNext
  <1> QED BY TypeInvariant, <1>1, PTL DEF Spec, BookValueConserved

-----------------------------------------------------------------------------
(***************************************************************************)
(* The price per share                                                     *)
(***************************************************************************)
LEMMA SupplyFollows ==
    ASSUME TypeInv, BooksTypeOK', NEW h \in Accounts,
           \A a \in Accounts : a # h => balanceOf'[a] = balanceOf[a]
    PROVE  totalSupply' = totalSupply - balanceOf[h] + balanceOf'[h]
  <1>1. PICK f \in [Accounts -> Nat] : f = balanceOf
    BY DEF TypeInv, BooksTypeOK
  <1>2. PICK g \in [Accounts -> Nat] : g = balanceOf'
    BY DEF BooksTypeOK
  <1>3. \A a \in Accounts : a # h => g[a] = f[a]
    BY <1>1, <1>2
  <1>4. SumOver(g, Accounts) = SumOver(f, Accounts) - f[h] + g[h]
    BY <1>3, ValuationTypes, SumOverChange
  <1> QED BY <1>1, <1>2, <1>4 DEF totalSupply

LEMMA TransferKeepsSupply ==
    ASSUME TypeInv, NEW h \in Holders, NEW to \in Accounts, NEW s \in Nat, Transfer(h, to, s)
    PROVE  totalSupply' = totalSupply
  <1>1. PICK f \in [Accounts -> Nat] : f = balanceOf
    BY DEF TypeInv, BooksTypeOK
  <1>2. /\ h \in Accounts /\ h # to /\ s <= f[h]
        /\ balanceOf' = [f EXCEPT ![h] = f[h] - s, ![to] = f[to] + s]
    BY <1>1 DEF Transfer, Accounts
  <1>3. PICK g \in [Accounts -> Nat] : g = [f EXCEPT ![h] = f[h] - s]
    <2>1. f[h] - s \in Nat
      BY <1>2
    <2>2. [f EXCEPT ![h] = f[h] - s] \in [Accounts -> Nat]
      BY <2>1
    <2> QED BY <2>2
  <1>4. PICK k \in [Accounts -> Nat] : k = [g EXCEPT ![to] = f[to] + s]
    <2>1. f[to] + s \in Nat
      OBVIOUS
    <2>2. [g EXCEPT ![to] = f[to] + s] \in [Accounts -> Nat]
      BY <2>1
    <2> QED BY <2>2
  <1>5. g[h] = f[h] - s /\ \A a \in Accounts : a # h => g[a] = f[a]
    BY <1>2, <1>3
  <1>6. k[to] = g[to] + s /\ g[to] = f[to] /\ \A a \in Accounts : a # to => k[a] = g[a]
    BY <1>2, <1>4, <1>5
  <1>7. k = balanceOf'
    BY <1>2, <1>3, <1>4
  <1>8. IsFiniteSet(Accounts)
    BY ValuationTypes
  <1>9. SumOver(g, Accounts) = SumOver(f, Accounts) - f[h] + g[h]
    BY <1>2, <1>5, <1>8, SumOverChange
  <1>10. SumOver(k, Accounts) = SumOver(g, Accounts) - g[to] + k[to]
    BY <1>6, <1>8, SumOverChange
  <1>11. SumOver(f, Accounts) \in Nat /\ f[h] \in Nat /\ g[to] \in Nat
    BY <1>2, <1>8, SumOverBounds
  <1>12. SumOver(k, Accounts) = SumOver(f, Accounts)
    BY <1>5, <1>6, <1>9, <1>10, <1>11
  <1> QED BY <1>1, <1>7, <1>12 DEF totalSupply

LEMMA OthersLeaveTheShares ==
    ASSUME SwapNext \/ StakeNext \/ PerpNext \/ OwnerNext \/ EnvNext
    PROVE  UNCHANGED <<balanceOf, costBasis>>
  <1>1. CASE SwapNext
    BY <1>1 DEF SwapNext, SwapUsdcForMon, SwapMonForUsdc, SwapUsdcForAusd,
                SwapAusdForUsdc, shareVars
  <1>2. CASE StakeNext
    BY <1>2 DEF StakeNext, Stake, Unstake, ClaimUnstaked, ClaimStakingRewards,
                EpochEnds, ReceiveNative, shareVars
  <1>3. CASE PerpNext
    BY <1>3 DEF PerpNext, ControlPerpManagers, SendFundPerpManager, PerpManagerDeposit,
                ReportPerpPnl, shareVars
  <1>4. CASE OwnerNext
    BY <1>4 DEF OwnerNext, WithdrawFees, SetPaused, shareVars
  <1>5. CASE EnvNext
    BY <1>5 DEF EnvNext, Tick, OracleMoves, shareVars
  <1> QED BY <1>1, <1>2, <1>3, <1>4, <1>5

(* A deposit: the assets come in, the shares are minted, and everything    *)
(* else keeps its value.                                                   *)
LEMMA DepositTotals ==
    ASSUME TypeInv, NEW h \in Holders, NEW assets \in Nat, NEW shares \in Nat,
           PullAndMint(h, assets, shares)
    PROVE  /\ totalSupply' = totalSupply + shares
           /\ grossAssets' = grossAssets + assets
           /\ accruedFees' = accruedFees
  <1>1. /\ usdc' = usdc + assets
        /\ balanceOf' = [balanceOf EXCEPT ![h] = balanceOf[h] + shares]
        /\ UNCHANGED <<ausd, wmon, native, accruedFees, price, now>>
        /\ UNCHANGED <<stakeVars, perpVars>>
    BY DEF PullAndMint, monVars, marketVars
  <1>2. h \in Accounts /\ BooksTypeOK'
    BY DepositKeepsBooks DEF Accounts
  <1>3. /\ balanceOf[h] \in Nat /\ balanceOf'[h] = balanceOf[h] + shares
        /\ \A a \in Accounts : a # h => balanceOf'[a] = balanceOf[a]
    BY <1>1, <1>2 DEF TypeInv, BooksTypeOK
  <1>4. totalSupply' = totalSupply - balanceOf[h] + balanceOf'[h]
    BY <1>2, <1>3, SupplyFollows
  <1>5. totalSupply \in Nat
    BY ValuationTypes
  <1> HIDE DEF totalSupply
  <1>6. totalSupply' = totalSupply + shares
    BY <1>3, <1>4, <1>5
  <1>7. perpEquity' = perpEquity /\ (totalMon * price)' = totalMon * price
    BY <1>1 DEF perpEquity, perpReportIsStale, totalMon, stakeVars, perpVars
  <1>8. grossAssets' = grossAssets + assets
    <2>1. perpEquity \in Nat /\ totalMon * price \in Nat /\ usdc \in Nat /\ ausd \in Nat
      BY ValuationTypes DEF TypeInv, BooksTypeOK
    <2> HIDE DEF perpEquity, totalMon
    <2> QED BY <1>1, <1>7, <2>1 DEF grossAssets
  <1> QED BY <1>1, <1>6, <1>8

(* An exit at the live price: the book loses exactly what the shares were  *)
(* worth, the fee included, whatever that fee is.                          *)
LEMMA SettleTotals ==
    ASSUME TypeInv, NEW h \in Holders, NEW shares \in Nat, Settle(h, shares)
    PROVE  LET gross == convertToAssets(shares)
               fee   == feeOn(gross, basisOf(h, shares))
           IN  /\ totalSupply' = totalSupply - shares
               /\ totalAssets' = totalAssets - gross
               /\ gross \in Nat /\ gross <= totalAssets
               /\ fee \in Nat /\ fee <= gross
               /\ usdc' = usdc - (gross - fee) /\ accruedFees' = accruedFees + fee
               /\ balanceOf'[h] = balanceOf[h] - shares
               /\ costBasis'[h] = costBasis[h] - basisOf(h, shares)
               /\ fee > 0 => /\ shares > 0 /\ gross > basisOf(h, shares)
                             /\ fee * BPS <= FeeBps * (gross - basisOf(h, shares))
  <1> DEFINE gross == convertToAssets(shares)
             basis == basisOf(h, shares)
             fee   == feeOn(gross, basis)
  <1>1. /\ shares <= balanceOf[h] /\ gross <= availableLiquidity
        /\ costBasis' = [costBasis EXCEPT ![h] = costBasis[h] - basis]
        /\ balanceOf' = [balanceOf EXCEPT ![h] = balanceOf[h] - shares]
        /\ accruedFees' = accruedFees + fee
        /\ usdc' = usdc - (gross - fee)
        /\ UNCHANGED <<ausd, wmon, native, price, now>>
        /\ UNCHANGED <<stakeVars, perpVars>>
    BY DEF Settle, monVars, marketVars
  <1>2. h \in Accounts /\ BooksTypeOK'
    BY SettleKeepsBooks DEF Accounts
  <1>3. gross \in Nat /\ basis \in Nat
    BY <1>1, <1>2, ConversionsRound, BasisTaken DEF TypeInv
  <1>4. fee \in Nat /\ fee <= gross /\ (fee > 0 => gross > basis /\ fee * BPS <= FeeBps * (gross - basis))
    BY <1>3, FeeTaken
  <1>5. shares = 0 => gross = 0
    <2> SUFFICES ASSUME shares = 0 PROVE gross = 0
      OBVIOUS
    <2>1. PICK s \in Nat \ {0} : s = totalSupply + VirtualShares
      BY ValuationTypes, Rates
    <2>2. gross * s <= 0 * (totalAssets + 1)
      BY <2>1, ConversionsRound
    <2>3. 0 * (totalAssets + 1) = 0 * s
      BY <2>1, ValuationTypes
    <2> HIDE DEF gross
    <2>4. gross <= 0
      BY <1>3, <2>1, <2>2, <2>3, CancelFactor
    <2> QED BY <1>3, <2>4
  <1> HIDE DEF gross, basis, fee
  <1>6. /\ balanceOf[h] \in Nat /\ balanceOf'[h] = balanceOf[h] - shares
        /\ costBasis'[h] = costBasis[h] - basis
        /\ \A a \in Accounts : a # h => balanceOf'[a] = balanceOf[a]
    BY <1>1, <1>2 DEF TypeInv, BooksTypeOK
  <1>7. totalSupply' = totalSupply - balanceOf[h] + balanceOf'[h]
    BY <1>2, <1>6, SupplyFollows
  <1>8. totalSupply \in Nat
    BY ValuationTypes
  <1>9. totalSupply' = totalSupply - shares
    <2> HIDE DEF totalSupply
    <2> QED BY <1>6, <1>7, <1>8
  <1>10. perpEquity' = perpEquity /\ (totalMon * price)' = totalMon * price
    BY <1>1 DEF perpEquity, perpReportIsStale, totalMon, stakeVars, perpVars
  <1>11. /\ perpEquity \in Nat /\ totalMon * price \in Nat /\ usdc \in Nat /\ ausd \in Nat
         /\ accruedFees \in Nat
    BY ValuationTypes DEF TypeInv, BooksTypeOK
  <1>12. gross = 0 \/ (gross > 0 /\ accruedFees + gross <= usdc)
    BY <1>1, <1>3, <1>11 DEF availableLiquidity, PosPart
  <1>13. totalAssets' = totalAssets - gross /\ gross <= totalAssets
    <2> DEFINE mon == totalMon * price
               equity == perpEquity
    <2>1. /\ grossAssets = usdc + mon + ausd + equity
          /\ grossAssets' = (usdc - (gross - fee)) + mon + ausd + equity
      BY <1>1, <1>10 DEF grossAssets
    <2>2. mon \in Nat /\ equity \in Nat
      BY <1>11
    <2> HIDE DEF mon, equity
    <2>3. PICK after \in Int, owed \in Int : grossAssets' = after /\ accruedFees' = owed
      BY <1>1, <1>3, <1>4, <1>11, <2>1, <2>2
    <2> HIDE DEF grossAssets
    <2>4. totalAssets = PosPart(grossAssets - accruedFees) /\ totalAssets' = PosPart(after - owed)
      BY <2>3 DEF totalAssets
    <2>5. grossAssets - accruedFees \in Int /\ after - owed = grossAssets - accruedFees - gross
      BY <1>1, <1>3, <1>4, <1>11, <2>1, <2>2, <2>3
    <2>6. gross = 0 \/ grossAssets - accruedFees >= gross
      BY <1>3, <1>11, <1>12, <2>1, <2>2
    <2> QED BY <1>3, <2>4, <2>5, <2>6 DEF PosPart
  <1>14. fee > 0 => shares > 0
    BY <1>3, <1>4, <1>5
  <1> QED BY <1>1, <1>3, <1>4, <1>6, <1>9, <1>13, <1>14 DEF gross, basis, fee

(* The price per share cannot fall when the parts that come in or leave    *)
(* are rounded against whoever calls.                                      *)
LEMMA PriceNeverFalls ==
    ASSUME NEW t \in Nat, NEW s \in Nat, NEW dt \in Int, NEW ds \in Int,
           t * ds <= dt * s
    PROVE  (t + dt) * s >= t * (s + ds)
  <1>1. (t + dt) * s = t * s + dt * s /\ t * (s + ds) = t * s + t * ds
    BY Distribute
  <1>2. t * s \in Int /\ dt * s \in Int /\ t * ds \in Int
    OBVIOUS
  <1> QED BY <1>1, <1>2

(* DeltaMonVault.sol 340-420: for any holders, amounts and rates, nobody   *)
(* who comes in or leaves at the live price makes a share of the others    *)
(* worth less.                                                             *)
THEOREM NobodyIsDiluted == Spec => NoDilution
  <1> DEFINE Kept ==
          totalSupply' # totalSupply /\ oracleLive /\ accruedFees <= grossAssets
          => (totalAssets' + 1) * (totalSupply + VirtualShares)
               >= (totalAssets + 1) * (totalSupply' + VirtualShares)
  <1>1. TypeInv /\ [Next]_vars => [Kept]_vars
    <2> SUFFICES ASSUME TypeInv, Next, totalSupply' # totalSupply, oracleLive,
                        accruedFees <= grossAssets
                 PROVE  (totalAssets' + 1) * (totalSupply + VirtualShares)
                          >= (totalAssets + 1) * (totalSupply' + VirtualShares)
      OBVIOUS
    <2>1. PICK s \in Nat, t \in Nat : s = totalSupply + VirtualShares /\ t = totalAssets + 1
      BY ValuationTypes, Rates
    <2>2. /\ totalSupply \in Nat /\ totalAssets \in Nat /\ VirtualShares \in Nat
          /\ accruedFees \in Nat /\ grossAssets \in Nat
      BY ValuationTypes, Rates DEF TypeInv, BooksTypeOK
    <2>3. ASSUME NEW h \in Holders, NEW assets \in Nat, NEW shares \in Nat,
                 PullAndMint(h, assets, shares), t * shares <= assets * s
          PROVE  (totalAssets' + 1) * (totalSupply + VirtualShares)
                   >= (totalAssets + 1) * (totalSupply' + VirtualShares)
      <3>1. /\ totalSupply' = totalSupply + shares /\ grossAssets' = grossAssets + assets
            /\ accruedFees' = accruedFees
        BY <2>3, DepositTotals
      <3>2. totalAssets' = totalAssets + assets
        <4> HIDE DEF grossAssets
        <4> QED BY <2>2, <3>1 DEF totalAssets, PosPart
      <3> HIDE DEF totalAssets, totalSupply
      <3>3. totalAssets' + 1 = t + assets /\ totalSupply' + VirtualShares = s + shares
        BY <2>1, <2>2, <3>1, <3>2
      <3>4. (t + assets) * s >= t * (s + shares)
        BY <2>3, PriceNeverFalls
      <3> QED BY <2>1, <3>3, <3>4
    <2>4. ASSUME NEW h \in Holders, NEW shares \in Nat, Settle(h, shares)
          PROVE  (totalAssets' + 1) * (totalSupply + VirtualShares)
                   >= (totalAssets + 1) * (totalSupply' + VirtualShares)
      <3>1. PICK gross \in Nat : /\ gross = convertToAssets(shares)
                                 /\ totalSupply' = totalSupply - shares
                                 /\ totalAssets' = totalAssets - gross
        BY <2>4, SettleTotals
      <3>2. gross * s <= shares * t
        BY <2>1, <3>1, ConversionsRound
      <3>3. PICK dt \in Int, ds \in Int : dt = -gross /\ ds = -shares
        OBVIOUS
      <3>4. t * ds <= dt * s
        <4>1. t * ds = -(shares * t) /\ dt * s = -(gross * s)
          BY <3>3
        <4>2. shares * t \in Int /\ gross * s \in Int
          OBVIOUS
        <4> QED BY <3>2, <4>1, <4>2
      <3>5. (t + dt) * s >= t * (s + ds)
        BY <3>4, PriceNeverFalls
      <3> HIDE DEF totalAssets, totalSupply
      <3>6. totalAssets' + 1 = t + dt /\ totalSupply' + VirtualShares = s + ds
        BY <2>1, <2>2, <3>1, <3>3
      <3> QED BY <2>1, <3>5, <3>6
    <2>5. ShareNext
      BY OthersLeaveTheShares DEF Next, totalSupply
    <2>6. \A h \in Holders, x \in Nat : ~RedeemInKind(h, x)
      BY DEF RedeemInKind
    <2>7. \A h \in Holders, to \in Accounts, x \in Nat : ~Transfer(h, to, x)
      BY TransferKeepsSupply
    <2>8. \A shares, assets \in Nat :
              shares * (totalAssets + 1) <= assets * (totalSupply + VirtualShares)
              => t * shares <= assets * s
      BY <2>1, Distribute
    <2> QED BY <2>3, <2>4, <2>5, <2>6, <2>7, <2>8, ShareCalls
  <1> QED BY TypeInvariant, <1>1, PTL DEF Spec, NoDilution

LEMMA FeesRiseOnlyOnExit ==
    ASSUME TypeInv, Next, accruedFees' > accruedFees
    PROVE  \E h \in Holders, shares \in Nat : Settle(h, shares)
  <1>1. accruedFees \in Nat
    BY DEF TypeInv, BooksTypeOK
  <1>2. ~SwapNext
    BY <1>1 DEF SwapNext, SwapUsdcForMon, SwapMonForUsdc, SwapUsdcForAusd, SwapAusdForUsdc
  <1>3. ~StakeNext
    BY <1>1 DEF StakeNext, Stake, Unstake, ClaimUnstaked, ClaimStakingRewards, EpochEnds,
                ReceiveNative
  <1>4. ~PerpNext
    BY <1>1 DEF PerpNext, ControlPerpManagers, SendFundPerpManager, PerpManagerDeposit,
                ReportPerpPnl
  <1>5. ~OwnerNext
    BY <1>1 DEF OwnerNext, WithdrawFees, SetPaused
  <1>6. ~EnvNext
    BY <1>1 DEF EnvNext, Tick, OracleMoves
  <1>7. ShareNext
    BY <1>2, <1>3, <1>4, <1>5, <1>6 DEF Next
  <1> QED BY <1>1, <1>7, ShareCalls DEF PullAndMint, RedeemInKind, Transfer

(* DeltaMonVault.sol 881-899: a fee is charged on an exit only, and never  *)
(* more than the rate on what left above the basis that left with it.      *)
THEOREM FeeIsOnProfit == Spec => FeeOnlyOnProfit
  <1> DEFINE Fair ==
          accruedFees' > accruedFees
          => \E h \in Holders :
               /\ balanceOf'[h] < balanceOf[h]
               /\ (accruedFees' - accruedFees) * BPS
                    <= FeeBps * ((totalAssets - totalAssets') - (costBasis[h] - costBasis'[h]))
  <1>1. TypeInv /\ [Next]_vars => [Fair]_vars
    <2> SUFFICES ASSUME TypeInv, Next, accruedFees' > accruedFees
                 PROVE  \E h \in Holders :
                          /\ balanceOf'[h] < balanceOf[h]
                          /\ (accruedFees' - accruedFees) * BPS
                               <= FeeBps * ((totalAssets - totalAssets') - (costBasis[h] - costBasis'[h]))
      OBVIOUS
    <2>1. PICK h \in Holders, shares \in Nat : Settle(h, shares)
      BY FeesRiseOnlyOnExit
    <2>2. h \in Accounts /\ shares <= balanceOf[h]
      BY <2>1 DEF Settle, Accounts
    <2>3. PICK basis \in Nat : basis = basisOf(h, shares)
      BY <2>2, BasisTaken DEF TypeInv
    <2>4. PICK gross \in Nat : gross = convertToAssets(shares)
      BY ConversionsRound
    <2>5. PICK fee \in Nat : fee = feeOn(gross, basis)
      BY FeeTaken
    <2>6. /\ totalAssets' = totalAssets - gross /\ accruedFees' = accruedFees + fee
          /\ balanceOf'[h] = balanceOf[h] - shares /\ costBasis'[h] = costBasis[h] - basis
          /\ fee > 0 => shares > 0 /\ gross > basis /\ fee * BPS <= FeeBps * (gross - basis)
      BY <2>1, <2>3, <2>4, <2>5, SettleTotals
    <2>7. totalAssets \in Nat /\ accruedFees \in Nat /\ balanceOf[h] \in Nat /\ costBasis[h] \in Nat
      BY <2>2, ValuationTypes DEF TypeInv, BooksTypeOK
    <2> HIDE DEF totalAssets
    <2>8. fee > 0
      BY <2>6, <2>7
    <2>9. balanceOf'[h] < balanceOf[h]
      BY <2>6, <2>7, <2>8
    <2>10. accruedFees' - accruedFees = fee
      BY <2>6, <2>7
    <2>11. (totalAssets - totalAssets') - (costBasis[h] - costBasis'[h]) = gross - basis
      BY <2>6, <2>7
    <2> QED BY <2>6, <2>8, <2>9, <2>10, <2>11
  <1> QED BY TypeInvariant, <1>1, PTL DEF Spec, FeeOnlyOnProfit

(* While the mark is not confirmed the valuation holds no gain.            *)
LEMMA StaleBookHoldsNoGain ==
    ASSUME TypeInv, perpReportIsStale
    PROVE  bookWithoutGain \in Nat /\ totalAssets <= bookWithoutGain
  <1> DEFINE mon == totalMon * price
  <1>1. /\ mon \in Nat /\ usdc \in Nat /\ ausd \in Nat /\ accruedFees \in Nat
        /\ perpManagerDeployed \in Nat /\ perpReportedPnl \in Int
    BY ValuationTypes DEF TypeInv, BooksTypeOK, MarkInv, PerpTypeOK
  <1>2. perpEquity \in Nat /\ perpEquity <= perpManagerDeployed
    BY <1>1 DEF perpEquity, PosPart
  <1>3. /\ grossAssets = usdc + mon + ausd + perpEquity
        /\ bookWithoutGain = PosPart(usdc + mon + ausd + perpManagerDeployed - accruedFees)
    BY DEF grossAssets, bookWithoutGain
  <1> HIDE DEF mon, perpEquity
  <1> QED BY <1>1, <1>2, <1>3 DEF totalAssets, PosPart

(* DeltaMonVault.sol 267-269, 692-697: whatever the managers reported or   *)
(* returned, while the mark is unconfirmed nobody comes in and a leaver is *)
(* paid as if the book had made nothing.                                   *)
THEOREM UnconfirmedGainStays == Spec => UnconfirmedGainNeverPaid
  <1> DEFINE Safe ==
          totalSupply' # totalSupply /\ perpReportIsStale /\ oracleLive
          => /\ totalSupply' < totalSupply
             /\ (usdc - usdc') * (totalSupply + VirtualShares)
                  <= (totalSupply - totalSupply') * (bookWithoutGain + 1)
  <1>1. TypeInv /\ [Next]_vars => [Safe]_vars
    <2> SUFFICES ASSUME TypeInv, Next, totalSupply' # totalSupply, perpReportIsStale, oracleLive
                 PROVE  /\ totalSupply' < totalSupply
                        /\ (usdc - usdc') * (totalSupply + VirtualShares)
                             <= (totalSupply - totalSupply') * (bookWithoutGain + 1)
      OBVIOUS
    <2>1. ShareNext
      BY OthersLeaveTheShares DEF Next, totalSupply
    <2>2. PICK h \in Holders, shares \in Nat : Settle(h, shares)
      BY <2>1, ShareCalls, TransferKeepsSupply DEF RedeemInKind
    <2>3. PICK gross \in Nat, fee \in Nat :
              /\ gross = convertToAssets(shares) /\ fee <= gross
              /\ totalSupply' = totalSupply - shares
              /\ usdc' = usdc - (gross - fee)
      BY <2>2, SettleTotals
    <2>4. PICK s \in Nat, t \in Nat : s = totalSupply + VirtualShares /\ t = totalAssets + 1
      BY ValuationTypes, Rates
    <2>5. PICK b \in Nat : b = bookWithoutGain + 1 /\ t <= b
      BY <2>4, StaleBookHoldsNoGain, ValuationTypes
    <2>6. totalSupply \in Nat /\ usdc \in Nat
      BY ValuationTypes DEF TypeInv, BooksTypeOK
    <2>7. (gross - fee) * s <= shares * b
      <3>1. gross * s <= shares * t
        BY <2>3, <2>4, ConversionsRound
      <3>2. (gross - fee) * s <= gross * s
        BY <2>3, ProductsGrow
      <3>3. shares * t <= shares * b
        BY <2>5, ProductsGrow, Distribute
      <3>4. (gross - fee) * s \in Int /\ gross * s \in Int /\ shares * t \in Int /\ shares * b \in Int
        BY <2>3
      <3> QED BY <3>1, <3>2, <3>3, <3>4
    <2> HIDE DEF totalSupply, totalAssets, bookWithoutGain
    <2>8. totalSupply' < totalSupply /\ totalSupply - totalSupply' = shares
      BY <2>3, <2>6
    <2>9. usdc - usdc' = gross - fee
      BY <2>3, <2>6
    <2> QED BY <2>4, <2>5, <2>7, <2>8, <2>9
  <1> QED BY TypeInvariant, <1>1, PTL DEF Spec, UnconfirmedGainNeverPaid

(* Leaving in kind takes no more of any holding than its shares' part.     *)
LEMMA PartsAddUp ==
    ASSUME NEW s \in Nat, NEW x \in Nat, NEW p \in Nat,
           NEW l1 \in Nat, NEW l \in Nat, l1 * s <= l * x,
           NEW w1 \in Nat, NEW w \in Nat, w1 * s <= w * x,
           NEW a1 \in Nat, NEW a \in Nat, a1 * s <= a * x,
           NEW rest \in Nat
    PROVE  ((l - l1) + (w - w1) * p + (a - a1) + rest) * s
              >= (l + w * p + a + rest) * (s - x)
  <1>1. (w1 * s) * p <= (w * x) * p
    BY ProductsGrow, ProductOfNats
  <1>2. (w1 * p) * s = (w1 * s) * p /\ (w * p) * x = (w * x) * p
    OBVIOUS
  <1>3. ((l - l1) + (w - w1) * p + (a - a1) + rest) * s
          = (l + w * p + a + rest) * s - (l1 * s + (w1 * p) * s + a1 * s)
    OBVIOUS
  <1>4. (l + w * p + a + rest) * (s - x)
          = (l + w * p + a + rest) * s - (l * x + (w * p) * x + a * x + rest * x)
    OBVIOUS
  <1>5. /\ l1 * s \in Nat /\ (w1 * p) * s \in Nat /\ a1 * s \in Nat /\ rest * x \in Nat
        /\ l * x \in Nat /\ (w * p) * x \in Nat /\ a * x \in Nat
        /\ (l + w * p + a + rest) * s \in Nat
        /\ (w1 * s) * p \in Nat /\ (w * x) * p \in Nat
    BY ProductOfNats
  <1> QED BY <1>1, <1>2, <1>3, <1>4, <1>5

(* VAULT.md 85-88 and DeltaMonVault.sol 430-470, as far as it holds: when  *)
(* the idle USDC covers the fees owed out of it, leaving in kind never     *)
(* costs those who stay, at any price the oracle would have reported.      *)
THEOREM InKindIsFair == Spec => InKindFairWhileFeesCovered
  <1> DEFINE Fair == InKindExit /\ accruedFees <= usdc => StayersKeepTheirShare
  <1>1. TypeInv /\ [Next]_vars => [Fair]_vars
    <2> SUFFICES ASSUME TypeInv, Next, InKindExit, accruedFees <= usdc
                 PROVE  StayersKeepTheirShare
      OBVIOUS
    <2>0. totalSupply \in Nat
      BY ValuationTypes
    <2>1. ShareNext
      BY <2>0, OthersLeaveTheShares DEF Next, InKindExit, totalSupply
    <2>2. ~Priced
      BY ValuationTypes DEF InKindExit, Priced
    <2>3. PICK h \in Holders, x \in Nat : RedeemInKind(h, x)
      <3>1. \A h \in Holders, to \in Accounts, y \in Nat : ~Transfer(h, to, y)
        BY <2>0, TransferKeepsSupply DEF InKindExit
      <3> QED BY <2>1, <2>2, <3>1, ShareCalls
    <2>4. /\ x \in 1 .. balanceOf[h]
          /\ usdc' = usdc - MulDiv(availableLiquidity, x, totalSupply)
          /\ wmon' = wmon + native - MulDiv(wmon + native, x, totalSupply)
          /\ native' = 0
          /\ ausd' = ausd - MulDiv(ausd, x, totalSupply)
          /\ balanceOf' = [balanceOf EXCEPT ![h] = balanceOf[h] - x]
          /\ UNCHANGED <<accruedFees, price, now>> /\ UNCHANGED <<stakeVars, perpVars>>
      BY <2>3 DEF RedeemInKind, marketVars
    <2>5. h \in Accounts
      BY DEF Accounts
    <2>6. PICK s \in Nat : s = totalSupply
      BY <2>0
    <2>7. PICK l \in Nat, w \in Nat, a \in Nat, p \in Nat, k \in Nat, e \in Nat :
              /\ l = usdc - accruedFees /\ w = wmon + native /\ a = ausd /\ p = price
              /\ k = stakedMon + unstakingMon /\ e = perpEquity
      <3>1. usdc - accruedFees \in Nat /\ wmon + native \in Nat /\ ausd \in Nat
        BY DEF TypeInv, BooksTypeOK
      <3>2. price \in Nat /\ stakedMon + unstakingMon \in Nat
        BY Rates DEF TypeInv, BooksTypeOK, UnbondInv, StakeTypeOK
      <3>3. perpEquity \in Nat
        BY ValuationTypes
      <3> HIDE DEF perpEquity
      <3> QED BY <3>1, <3>2, <3>3
    <2>8. availableLiquidity = l
      BY <2>7 DEF availableLiquidity, PosPart
    <2>9. PICK l1 \in Nat, w1 \in Nat, a1 \in Nat :
              /\ l1 = MulDiv(l, x, s) /\ w1 = MulDiv(w, x, s) /\ a1 = MulDiv(a, x, s)
              /\ l1 <= l /\ w1 <= w /\ a1 <= a
              /\ l1 * s <= l * x /\ w1 * s <= w * x /\ a1 * s <= a * x
      BY <2>4, <2>5, <2>6, InKindPart
    <2>10. totalSupply' = s - x
      <3>1. BooksTypeOK'
        BY <2>3, InKindKeepsBooks
      <3>2. /\ balanceOf[h] \in Nat /\ balanceOf'[h] = balanceOf[h] - x
            /\ \A b \in Accounts : b # h => balanceOf'[b] = balanceOf[b]
        BY <2>4, <2>5 DEF TypeInv, BooksTypeOK
      <3>3. totalSupply' = totalSupply - balanceOf[h] + balanceOf'[h]
        BY <2>5, <3>1, <3>2, SupplyFollows
      <3> HIDE DEF totalSupply
      <3> QED BY <2>6, <3>2, <3>3
    <2>11. totalAssets = l + w * p + a + (k * p + e)
      <3>1. totalMon = w + k
        BY <2>7 DEF totalMon, TypeInv, BooksTypeOK, UnbondInv, StakeTypeOK
      <3>2. (w + k) * p = w * p + k * p /\ w * p \in Nat /\ k * p \in Nat
        BY Distribute, ProductOfNats
      <3> HIDE DEF totalMon, perpEquity
      <3>3. grossAssets - accruedFees = l + w * p + a + (k * p + e)
        BY <2>7, <3>1, <3>2 DEF grossAssets, TypeInv, BooksTypeOK
      <3> QED BY <3>2, <3>3 DEF totalAssets, PosPart
    <2>12. totalAssets' = (l - l1) + (w - w1) * p + (a - a1) + (k * p + e)
      <3>1. /\ wmon \in Nat /\ native \in Nat /\ stakedMon \in Nat /\ unstakingMon \in Nat
            /\ usdc \in Nat /\ accruedFees \in Nat
        BY DEF TypeInv, BooksTypeOK, UnbondInv, StakeTypeOK
      <3>2. usdc' = usdc - l1 /\ wmon' = w - w1 /\ ausd' = a - a1
        <4>1. MulDiv(availableLiquidity, x, totalSupply) = l1
          BY <2>6, <2>8, <2>9
        <4>2. MulDiv(wmon + native, x, totalSupply) = w1
          BY <2>6, <2>7, <2>9
        <4>3. MulDiv(ausd, x, totalSupply) = a1
          BY <2>6, <2>7, <2>9
        <4>4. usdc' = usdc - l1
          BY <2>4, <4>1
        <4>5. wmon' = w - w1
          BY <2>4, <2>7, <3>1, <4>2
        <4>6. ausd' = a - a1
          BY <2>4, <2>7, <4>3
        <4> QED BY <4>4, <4>5, <4>6
      <3>3. totalMon' = (w - w1) + k
        BY <2>4, <2>7, <3>1, <3>2 DEF totalMon, stakeVars
      <3>4. perpEquity' = e /\ price' = p /\ accruedFees' = accruedFees
        BY <2>4, <2>7 DEF perpEquity, perpReportIsStale, perpVars
      <3> HIDE DEF totalMon, perpEquity
      <3>5. grossAssets' = (usdc - l1) + ((w - w1) + k) * p + (a - a1) + e
        BY <3>2, <3>3, <3>4 DEF grossAssets
      <3>6. PICK rest \in Nat : rest = w - w1
        BY <2>9
      <3>7. (rest + k) * p = rest * p + k * p /\ rest * p \in Nat /\ k * p \in Nat
        BY Distribute, ProductOfNats
      <3>8. PICK after \in Int : after = grossAssets'
        BY <2>9, <3>1, <3>5, <3>6, <3>7
      <3> HIDE DEF grossAssets
      <3>9. totalAssets' = PosPart(after - accruedFees)
        BY <3>4, <3>8 DEF totalAssets
      <3>10. after - accruedFees = (l - l1) + rest * p + (a - a1) + (k * p + e)
        BY <2>7, <2>9, <3>1, <3>5, <3>6, <3>7, <3>8
      <3>11. after - accruedFees >= 0
        BY <2>9, <3>7, <3>10
      <3> QED BY <3>1, <3>6, <3>9, <3>10, <3>11 DEF PosPart
    <2>13. ((l - l1) + (w - w1) * p + (a - a1) + (k * p + e)) * s
             >= (l + w * p + a + (k * p + e)) * (s - x)
      <3>1. k * p + e \in Nat
        BY ProductOfNats
      <3> QED BY <2>9, <3>1, PartsAddUp
    <2> HIDE DEF totalAssets, totalSupply
    <2> QED BY <2>6, <2>10, <2>11, <2>12, <2>13 DEF StayersKeepTheirShare
  <1> QED BY TypeInvariant, <1>1, PTL DEF Spec, InKindFairWhileFeesCovered

-----------------------------------------------------------------------------
(***************************************************************************)
(* The exits are open                                                      *)
(***************************************************************************)

(* What redeem, withdraw and redeemInKind ask of a state (416-465,         *)
(* 692-697): a price and a payable amount, or no price at all.  The pause  *)
(* and the age of the mark are not among it.                               *)
MayLeave(h, shares) ==
    shares <= balanceOf[h] /\ convertToAssets(shares) <= availableLiquidity

MayRedeem(h, shares) == Priced /\ shares <= maxRedeem(h) /\ MayLeave(h, shares)

MayWithdraw(h, assets) ==
    Priced /\ assets <= maxWithdraw(h) /\ MayLeave(h, previewWithdraw(assets))

MayRedeemInKind(h, shares) == ~oracleLive /\ shares \in 1 .. balanceOf[h]

(* What an exit at the live price writes, and what one in kind writes: one *)
(* value per variable, whatever the state.                                 *)
Pays(h, shares) ==
    LET gross == convertToAssets(shares)
        basis == basisOf(h, shares)
    IN  /\ costBasis' = [costBasis EXCEPT ![h] = @ - basis]
        /\ balanceOf' = [balanceOf EXCEPT ![h] = @ - shares]
        /\ accruedFees' = accruedFees + feeOn(gross, basis)
        /\ usdc' = usdc - (gross - feeOn(gross, basis))
        /\ UNCHANGED <<ausd, monVars, stakeVars, perpVars, paused, marketVars>>

PaysInKind(h, shares) ==
    LET share(held) == MulDiv(held, shares, totalSupply)
    IN  /\ usdc' = usdc - share(availableLiquidity)
        /\ wmon' = wmon + native - share(wmon + native)
        /\ native' = 0 /\ ausd' = ausd - share(ausd)
        /\ costBasis' = [costBasis EXCEPT ![h] = @ - basisOf(h, shares)]
        /\ balanceOf' = [balanceOf EXCEPT ![h] = @ - shares]
        /\ UNCHANGED <<accruedFees, stakeVars, perpVars, paused, marketVars>>

(* The three calls are these guards and these assignments, nothing more:   *)
(* a state that meets the guard has exactly one outcome of the call.       *)
LEMMA ExitGuards ==
    ASSUME NEW h, NEW n
    PROVE  /\ Redeem(h, n) <=> MayRedeem(h, n) /\ Pays(h, n)
           /\ Withdraw(h, n) <=> MayWithdraw(h, n) /\ Pays(h, previewWithdraw(n))
           /\ RedeemInKind(h, n) <=> MayRedeemInKind(h, n) /\ PaysInKind(h, n)
  <1>1. ASSUME NEW s PROVE Settle(h, s) <=> MayLeave(h, s) /\ Pays(h, s)
    BY DEF Settle, MayLeave, Pays
  <1>2. RedeemInKind(h, n) <=> MayRedeemInKind(h, n) /\ PaysInKind(h, n)
    BY DEF RedeemInKind, MayRedeemInKind, PaysInKind
  <1> HIDE DEF Settle, MayLeave, Pays
  <1>3. Redeem(h, n) <=> MayRedeem(h, n) /\ Pays(h, n)
    BY <1>1 DEF Redeem, MayRedeem
  <1>4. Withdraw(h, n) <=> MayWithdraw(h, n) /\ Pays(h, previewWithdraw(n))
    BY <1>1 DEF Withdraw, MayWithdraw
  <1> QED BY <1>2, <1>3, <1>4

LEMMA CancelRest ==
    ASSUME NEW a \in Nat, NEW b \in Nat, NEW c \in Nat \ {0}, a * c < b * c + c
    PROVE  a <= b
  <1> SUFFICES ASSUME b + 1 <= a PROVE FALSE
    OBVIOUS
  <1>1. (b + 1) * c <= a * c
    BY ProductsGrow
  <1>2. (b + 1) * c = b * c + c
    BY Distribute
  <1> QED BY <1>1, <1>2, ProductOfNats

LEMMA FloorIsTight ==
    ASSUME NEW a \in Nat, NEW b \in Nat, NEW c \in Nat \ {0}
    PROVE  a * b < MulDiv(a, b, c) * c + c
  <1>1. a * b \in Nat
    BY ProductOfNats
  <1> QED BY <1>1, Quotient DEF MulDiv

LEMMA CeilingIsTight ==
    ASSUME NEW a \in Nat, NEW b \in Nat, NEW c \in Nat \ {0}
    PROVE  MulDivUp(a, b, c) * c < a * b + c
  <1>1. a * b \in Nat /\ a * b + c - 1 \in Nat
    BY ProductOfNats
  <1>2. MulDivUp(a, b, c) * c <= a * b + c - 1
    BY <1>1, Quotient DEF MulDivUp
  <1>3. MulDivUp(a, b, c) * c \in Nat
    BY MulDivCeiling, ProductOfNats
  <1> QED BY <1>1, <1>2, <1>3

LEMMA MulDivGrows ==
    ASSUME NEW a \in Nat, NEW b \in Nat, a <= b, NEW n \in Nat, NEW c \in Nat \ {0}
    PROVE  MulDiv(a, n, c) <= MulDiv(b, n, c)
  <1>1. PICK p \in Nat, q \in Nat : p = MulDiv(a, n, c) /\ q = MulDiv(b, n, c)
    BY MulDivFloor
  <1>2. p * c <= a * n /\ b * n < q * c + c
    BY <1>1, MulDivFloor, FloorIsTight
  <1>3. a * n <= b * n
    BY ProductsGrow
  <1>4. a * n \in Nat /\ b * n \in Nat /\ p * c \in Nat /\ q * c \in Nat
    BY ProductOfNats
  <1>5. p * c < q * c + c
    BY <1>2, <1>3, <1>4
  <1> QED BY <1>1, <1>5, CancelRest

(* There and back never gains, and what asking for at most a floor's worth *)
(* of assets costs is at most the shares they were the worth of.           *)
LEMMA ThereAndBack ==
    ASSUME NEW n \in Nat, NEW p \in Nat \ {0}, NEW q \in Nat \ {0}
    PROVE  /\ MulDiv(MulDiv(n, p, q), q, p) <= n
           /\ \A a \in Nat : a <= MulDiv(n, q, p) => MulDivUp(a, p, q) <= n
           /\ \A b \in Nat : MulDiv(b, q, p) > n => MulDiv(n, p, q) <= b
  <1>1. MulDiv(MulDiv(n, p, q), q, p) <= n
    <2>1. PICK s \in Nat : s = MulDiv(n, p, q)
      BY MulDivFloor
    <2>2. PICK t \in Nat : t = MulDiv(s, q, p)
      BY MulDivFloor
    <2>3. t * p <= s * q /\ s * q <= n * p
      BY <2>1, <2>2, MulDivFloor
    <2>4. t * p <= n * p
      BY <2>3, ProductOfNats
    <2> QED BY <2>1, <2>2, <2>4, CancelFactor
  <1>2. ASSUME NEW a \in Nat, a <= MulDiv(n, q, p) PROVE MulDivUp(a, p, q) <= n
    <2>1. PICK m \in Nat, u \in Nat : m = MulDiv(n, q, p) /\ u = MulDivUp(a, p, q)
      BY MulDivFloor, MulDivCeiling
    <2>2. u * q < a * p + q /\ m * p <= n * q
      BY <2>1, CeilingIsTight, MulDivFloor
    <2>3. a * p <= m * p
      BY <1>2, <2>1, ProductsGrow
    <2>4. a * p \in Nat /\ m * p \in Nat /\ n * q \in Nat /\ u * q \in Nat
      BY ProductOfNats
    <2>5. u * q < n * q + q
      BY <2>2, <2>3, <2>4
    <2> QED BY <2>1, <2>5, CancelRest
  <1>3. ASSUME NEW b \in Nat, MulDiv(b, q, p) > n PROVE MulDiv(n, p, q) <= b
    <2>1. PICK s \in Nat, t \in Nat : s = MulDiv(n, p, q) /\ t = MulDiv(b, q, p)
      BY MulDivFloor
    <2>2. s * q <= n * p /\ t * p <= b * q
      BY <2>1, MulDivFloor
    <2>3. n * p <= t * p
      BY <1>3, <2>1, ProductsGrow
    <2>4. s * q <= b * q
      BY <2>2, <2>3, ProductOfNats
    <2> QED BY <2>1, <2>4, CancelFactor
  <1> QED BY <1>1, <1>2, <1>3

(* All that maxRedeem reports is the holder's, and is payable.             *)
LEMMA MaxRedeemIsPayable ==
    ASSUME TypeInv, NEW h \in Holders
    PROVE  /\ maxRedeem(h) \in Nat
           /\ \A s \in 0 .. maxRedeem(h) : MayLeave(h, s)
           /\ \A a \in 0 .. maxWithdraw(h) : previewWithdraw(a) \in 0 .. maxRedeem(h)
  <1>1. PICK p \in Nat \ {0}, q \in Nat \ {0} :
            p = totalSupply + VirtualShares /\ q = totalAssets + 1
    BY ValuationTypes, Rates
  <1>2. PICK b \in Nat, l \in Nat : b = balanceOf[h] /\ l = availableLiquidity
    BY ValuationTypes DEF TypeInv, BooksTypeOK, Accounts
  <1>3. \A n : /\ convertToShares(n) = MulDiv(n, p, q) /\ convertToAssets(n) = MulDiv(n, q, p)
               /\ previewWithdraw(n) = MulDivUp(n, p, q)
    BY <1>1 DEF convertToShares, convertToAssets, previewWithdraw
  <1>4. PICK r \in Nat : r = maxRedeem(h)
    BY <1>2, <1>3, MulDivFloor DEF maxRedeem
  <1>5. maxWithdraw(h) = MulDiv(r, q, p) /\ MulDiv(r, q, p) \in Nat
    BY <1>3, <1>4, MulDivFloor DEF maxWithdraw
  <1>6. r <= b /\ MulDiv(r, q, p) <= l
    <2>1. CASE MulDiv(b, q, p) <= l
      BY <1>2, <1>3, <1>4, <2>1 DEF maxRedeem
    <2>2. CASE ~(MulDiv(b, q, p) <= l)
      <3>1. r = MulDiv(l, p, q)
        BY <1>2, <1>3, <1>4, <2>2 DEF maxRedeem
      <3>2. MulDiv(b, q, p) \in Nat /\ MulDiv(b, q, p) > l
        BY <2>2, MulDivFloor
      <3> QED BY <3>1, <3>2, ThereAndBack
    <2> QED BY <2>1, <2>2
  <1>7. ASSUME NEW s \in 0 .. r PROVE MayLeave(h, s)
    <2>1. MulDiv(s, q, p) <= MulDiv(r, q, p) /\ MulDiv(s, q, p) \in Nat
      BY MulDivGrows, MulDivFloor
    <2> QED BY <1>2, <1>3, <1>5, <1>6, <2>1 DEF MayLeave
  <1>8. ASSUME NEW a \in 0 .. maxWithdraw(h) PROVE previewWithdraw(a) \in 0 .. r
    <2>1. a \in Nat /\ a <= MulDiv(r, q, p)
      BY <1>5
    <2>2. MulDivUp(a, p, q) <= r /\ MulDivUp(a, p, q) \in Nat
      BY <2>1, ThereAndBack, MulDivCeiling
    <2> QED BY <1>3, <2>2
  <1> QED BY <1>4, <1>7, <1>8

(* Whatever maxRedeem and maxWithdraw report, and anything less, meets the *)
(* guard of its call at once, and in an outage any part of the balance may *)
(* leave in kind: the roundings of the conversions never lock a holder in. *)
ExitsOpen ==
    \A h \in Holders :
        /\ Priced => /\ \A s \in 0 .. maxRedeem(h) : MayRedeem(h, s)
                     /\ \A a \in 0 .. maxWithdraw(h) : MayWithdraw(h, a)
        /\ ~oracleLive => \A s \in 1 .. balanceOf[h] : MayRedeemInKind(h, s)

(* DeltaMonVault.sol 416-465, 692-697: for any amounts, prices, rates and  *)
(* number of holders the exits are open in every state: paused or not,     *)
(* with a fresh mark, a stale one or none.                                 *)
THEOREM ExitsAreOpen == Spec => []ExitsOpen
  <1>1. ASSUME TypeInv PROVE ExitsOpen
    <2> SUFFICES ASSUME NEW h \in Holders
                 PROVE  /\ Priced => /\ \A s \in 0 .. maxRedeem(h) : MayRedeem(h, s)
                                     /\ \A a \in 0 .. maxWithdraw(h) : MayWithdraw(h, a)
                        /\ ~oracleLive => \A s \in 1 .. balanceOf[h] : MayRedeemInKind(h, s)
      BY DEF ExitsOpen
    <2>1. maxRedeem(h) \in Nat /\ \A s \in 0 .. maxRedeem(h) : MayLeave(h, s)
      BY <1>1, MaxRedeemIsPayable
    <2>2. \A a \in 0 .. maxWithdraw(h) : MayLeave(h, previewWithdraw(a))
      BY <1>1, <2>1, MaxRedeemIsPayable
    <2> HIDE DEF MayLeave, Priced, maxRedeem, maxWithdraw, previewWithdraw
    <2> QED BY <2>1, <2>2 DEF MayRedeem, MayWithdraw, MayRedeemInKind
  <1> QED BY <1>1, TypeInvariant, PTL
=============================================================================
