---------------------------- MODULE CurveProofs ----------------------------
(***************************************************************************)
(* What the curve and split arithmetic guarantees for all inputs, and how  *)
(* payments change what all wallets hold together.                         *)
(***************************************************************************)
EXTENDS Fees, FiniteSetTheorems, WellFoundedInduction, TLAPS

\* Multiplying by a natural number keeps an order.
LEMMA MulMono ==
    ASSUME NEW a \in Int, NEW b \in Int, NEW c \in Nat, a <= b
    PROVE  a * c <= b * c
  OBVIOUS

\* A positive factor cancels from a strict order.
LEMMA MulCancel ==
    ASSUME NEW a \in Int, NEW b \in Int, NEW c \in Nat \ {0}, c * a < c * b
    PROVE  a < b
  OBVIOUS

\* The defining bounds of integer division, which Move's / computes.
LEMMA DivBounds ==
    ASSUME NEW a \in Nat, NEW b \in Nat \ {0}
    PROVE  /\ a \div b \in Nat
           /\ b * (a \div b) <= a
           /\ a < b * (a \div b) + b
  OBVIOUS

\* Integer division keeps an order.
LEMMA DivMono ==
    ASSUME NEW a \in Nat, NEW b \in Nat, NEW c \in Nat \ {0}, a <= b
    PROVE  a \div c <= b \div c
  <1> DEFINE q == a \div c
             r == b \div c
  <1>1. /\ q \in Nat /\ c * q <= a
        /\ r \in Nat /\ b < c * r + c
    BY DivBounds
  <1> HIDE DEF q, r
  <1>2. c * q < c * (r + 1)
    BY <1>1
  <1>3. q < r + 1
    BY <1>1, <1>2, MulCancel
  <1>4. q <= r
    BY <1>1, <1>3
  <1> QED
    BY <1>4 DEF q, r

\* A ceiling division returns the least multiple count that covers a.
LEMMA CeilDivLeast ==
    ASSUME NEW a \in Nat, NEW b \in Nat \ {0}
    PROVE  /\ CeilDiv(a, b) \in Nat
           /\ a <= b * CeilDiv(a, b)
           /\ \A c \in Nat : a <= b * c => CeilDiv(a, b) <= c
           /\ \A c \in Nat : b * c <= a => c <= CeilDiv(a, b)
  <1> DEFINE q == CeilDiv(a, b)
  <1>1. /\ q \in Nat
        /\ b * q <= a + b - 1
        /\ a + b - 1 < b * q + b
    <2>1. a + b - 1 \in Nat
      OBVIOUS
    <2> QED
      BY <2>1, DivBounds DEF CeilDiv
  <1>2. a <= b * q
    BY <1>1
  <1>3. ASSUME NEW c \in Nat, a <= b * c
        PROVE  q <= c
    <2>1. b * q < b * c + b
      BY <1>1, <1>3
    <2>2. b * q < b * (c + 1)
      BY <2>1, <1>1
    <2> QED
      BY <2>2, <1>1, MulCancel
  <1>4. ASSUME NEW c \in Nat, b * c <= a
        PROVE  c <= q
    <2>1. b * c < b * (q + 1)
      BY <1>1, <1>4
    <2> QED
      BY <2>1, <1>1, MulCancel
  <1> QED
    BY <1>1, <1>2, <1>3, <1>4

\* One less than a ceiling division is too little.
LEMMA CeilDivTight ==
    ASSUME NEW a \in Nat, NEW b \in Nat \ {0}
    PROVE  b * (CeilDiv(a, b) - 1) < a
  <1> DEFINE q == CeilDiv(a, b)
  <1>1. q \in Nat /\ \A c \in Nat : a <= b * c => q <= c
    BY CeilDivLeast
  <1> HIDE DEF q
  <1>2. CASE q = 0
    BY <1>2 DEF q
  <1>3. CASE q # 0
    <2>1. q - 1 \in Nat /\ b * (q - 1) \in Nat
      BY <1>1, <1>3
    <2>2. ~ (q <= q - 1)
      BY <1>1
    <2> QED
      BY <1>1, <2>1, <2>2 DEF q
  <1> QED
    BY <1>2, <1>3

\* A fee of at most the whole never exceeds the amount it is taken from.
LEMMA FeeWithin ==
    ASSUME NEW amount \in Nat, NEW bps \in 0 .. BpsDenominator
    PROVE  FeeOn(amount, bps) \in 0 .. amount
  <1>1. amount * bps \in Nat /\ amount * bps <= amount * BpsDenominator
    BY BpsAssumption, MulMono
  <1>2. /\ FeeOn(amount, bps) \in Nat
        /\ BpsDenominator * FeeOn(amount, bps) <= amount * bps
    BY <1>1, BpsAssumption, DivBounds DEF FeeOn
  <1>3. BpsDenominator * FeeOn(amount, bps) < BpsDenominator * (amount + 1)
    BY <1>1, <1>2, BpsAssumption
  <1> QED
    BY <1>2, <1>3, BpsAssumption, MulCancel

\* A larger share takes no smaller fee.
LEMMA FeeMono ==
    ASSUME NEW amount \in Nat, NEW low \in Nat, NEW high \in Nat, low <= high
    PROVE  FeeOn(amount, low) <= FeeOn(amount, high)
  <1>1. low * amount <= high * amount
    BY MulMono
  <1>2. amount * low \in Nat /\ amount * high \in Nat /\ amount * low <= amount * high
    BY <1>1
  <1> QED
    BY <1>2, BpsAssumption, DivMono DEF FeeOn

\* The three parts of a split are amounts, and they add up exactly.
LEMMA SplitExact ==
    ASSUME NEW total \in Nat,
           NEW s, s.nav \in Nat, s.creator \in Nat, SplitDefined(s)
    PROVE  LET p == ComputeSplit(total, s)
           IN  /\ p.nav \in Nat /\ p.creator \in Nat /\ p.rest \in Nat
               /\ p.nav + p.creator + p.rest = total
  <1> DEFINE nav == FeeOn(total, s.nav)
             cre == FeeOn(total, s.creator)
  <1>1. total * s.nav \in Nat /\ total * s.creator \in Nat
    OBVIOUS
  <1>2. /\ nav \in Nat /\ BpsDenominator * nav <= total * s.nav
        /\ cre \in Nat /\ BpsDenominator * cre <= total * s.creator
    BY <1>1, DivBounds, BpsAssumption DEF FeeOn
  <1>3. (s.nav + s.creator) * total <= BpsDenominator * total
    BY MulMono, BpsAssumption DEF SplitDefined
  <1>4. BpsDenominator * (nav + cre) <= BpsDenominator * total
    BY <1>2, <1>3, BpsAssumption
  <1>5. BpsDenominator * (nav + cre) < BpsDenominator * (total + 1)
    BY <1>4, <1>2, BpsAssumption
  <1>6. nav + cre <= total
    BY <1>5, <1>2, BpsAssumption, MulCancel
  <1> QED
    BY <1>2, <1>6 DEF ComputeSplit

\* A buy gives out a number of tokens, charges at most what was paid, and does
\* not shrink the product of the reserves.
LEMMA BuyKeepsProduct ==
    ASSUME NEW rs \in Nat, NEW rt \in Nat,
           NEW vs \in Nat \ {0}, NEW vt \in Nat \ {0},
           NEW n \in Nat \ {0}, NEW bps \in 0 .. BpsDenominator
    PROVE  LET q == ComputeBuy(rs, rt, vs, vt, n, bps)
           IN  /\ q.out \in Nat
               /\ q.fee \in 0 .. n
               /\ (rs + n - q.fee + vs) * (rt - q.out + vt) >= (rs + vs) * (rt + vt)
  <1> DEFINE fee == FeeOn(n, bps)
             S   == rs + vs
             T   == rt + vt
             d   == S + (n - fee)
             c   == CeilDiv(S * T, d)
             q   == ComputeBuy(rs, rt, vs, vt, n, bps)
  <1>1. fee \in 0 .. n
    BY FeeWithin
  <1>2. S \in Nat \ {0} /\ T \in Nat \ {0} /\ d \in Nat \ {0} /\ S <= d
    BY <1>1
  <1>3. S * T \in Nat /\ S * T <= d * T
    BY <1>2, MulMono
  <1>4. c \in Nat /\ S * T <= d * c /\ c <= T
    <2> HIDE DEF S, T, d
    <2> QED
      BY <1>2, <1>3, CeilDivLeast
  <1>5. q.out = T - c /\ q.fee = fee
    BY DEF ComputeBuy
  <1>6. (rs + n - q.fee + vs) = d /\ (rt - q.out + vt) = c
    BY <1>1, <1>4, <1>5
  <1> HIDE DEF q, c, d, fee
  <1>7. q.out \in Nat
    BY <1>4, <1>5
  <1> QED
    BY <1>1, <1>4, <1>5, <1>6, <1>7 DEF q

\* The gross amount of a sell is an amount, and when the product of the reserves
\* covers the virtual SUI at the new token total, the real SUI covers it.
LEMMA GrossCovered ==
    ASSUME NEW rs \in Nat, NEW rt \in Nat,
           NEW vs \in Nat \ {0}, NEW vt \in Nat \ {0}, NEW n \in Nat \ {0}
    PROVE  LET gross == SellGross(rs, rt, vs, vt, n)
           IN  /\ gross \in Nat
               /\ (rs - gross + vs) * (rt + n + vt) >= (rs + vs) * (rt + vt)
               /\ vs * (rt + n + vt) <= (rs + vs) * (rt + vt) => gross <= rs
  <1> DEFINE S == rs + vs
             T == rt + vt
             d == T + n
             c == CeilDiv(S * T, d)
             gross == SellGross(rs, rt, vs, vt, n)
  <1>1. S \in Nat \ {0} /\ T \in Nat \ {0} /\ d \in Nat \ {0} /\ T <= d
    OBVIOUS
  <1>2. S * T \in Nat /\ S * T <= d * S
    BY <1>1, MulMono
  <1>3. /\ c \in Nat /\ S * T <= d * c /\ c <= S
        /\ d * vs <= S * T => vs <= c
    <2> HIDE DEF S, T, d
    <2> QED
      BY <1>1, <1>2, CeilDivLeast
  <1>4. gross = S - c
    BY DEF SellGross
  <1>5. gross \in Nat
    BY <1>1, <1>3, <1>4
  <1>6. rs - gross + vs = c /\ rt + n + vt = d
    BY <1>3, <1>4
  <1>7. (rs - gross + vs) * (rt + n + vt) >= S * T
    BY <1>3, <1>6, <1>1
  <1>8. vs * (rt + n + vt) <= S * T => gross <= rs
    BY <1>3, <1>4, <1>6, <1>1
  <1> QED
    BY <1>5, <1>7, <1>8

\* The gross amount of a sell is split into payment and fee.
LEMMA SellSplit ==
    ASSUME NEW rs, NEW rt, NEW vs, NEW vt, NEW n,
           SellGross(rs, rt, vs, vt, n) \in Nat, n # 0,
           NEW bps \in 0 .. BpsDenominator
    PROVE  LET q == ComputeSell(rs, rt, vs, vt, n, bps)
           IN  /\ q.out \in Nat /\ q.fee \in Nat
               /\ q.out + q.fee = SellGross(rs, rt, vs, vt, n)
  <1> DEFINE gross == SellGross(rs, rt, vs, vt, n)
             q     == ComputeSell(rs, rt, vs, vt, n, bps)
  <1>1. q.fee = FeeOn(gross, bps) /\ q.out = gross - q.fee
    BY DEF ComputeSell
  <1>2. q.fee \in 0 .. gross
    BY <1>1, FeeWithin
  <1> HIDE DEF gross, q
  <1>3. gross \in Nat
    BY DEF gross
  <1>4. q.out \in Nat /\ q.fee \in Nat /\ q.out + q.fee = gross
    BY <1>1, <1>2, <1>3
  <1> QED
    BY <1>4 DEF q, gross

\* A sell does not shrink the product of the reserves.
LEMMA SellKeepsProduct ==
    ASSUME NEW rs \in Nat, NEW rt \in Nat,
           NEW vs \in Nat \ {0}, NEW vt \in Nat \ {0},
           NEW n \in Nat \ {0}, NEW bps \in 0 .. BpsDenominator
    PROVE  LET q == ComputeSell(rs, rt, vs, vt, n, bps)
           IN  /\ q.out \in Nat /\ q.fee \in Nat
               /\ (rs - (q.out + q.fee) + vs) * (rt + n + vt) >= (rs + vs) * (rt + vt)
  <1> DEFINE gross == SellGross(rs, rt, vs, vt, n)
             q     == ComputeSell(rs, rt, vs, vt, n, bps)
  <1>1. gross \in Nat /\ (rs - gross + vs) * (rt + n + vt) >= (rs + vs) * (rt + vt)
    BY GrossCovered
  <1>2. q.out \in Nat /\ q.fee \in Nat /\ q.out + q.fee = gross
    BY <1>1, SellSplit
  <1> HIDE DEF gross, q
  <1> QED
    BY <1>1, <1>2 DEF q

\* A buy gives out as many tokens as the product of the reserves allows.
LEMMA BuyTight ==
    ASSUME NEW rs \in Nat, NEW rt \in Nat,
           NEW vs \in Nat \ {0}, NEW vt \in Nat \ {0},
           NEW n \in Nat \ {0}, NEW bps \in 0 .. BpsDenominator
    PROVE  LET q == ComputeBuy(rs, rt, vs, vt, n, bps)
           IN  (rs + n - q.fee + vs) * (rt - q.out + vt - 1) < (rs + vs) * (rt + vt)
  <1> DEFINE fee == FeeOn(n, bps)
             S   == rs + vs
             T   == rt + vt
             d   == S + (n - fee)
             c   == CeilDiv(S * T, d)
             q   == ComputeBuy(rs, rt, vs, vt, n, bps)
  <1>1. fee \in 0 .. n
    BY FeeWithin
  <1>2. S \in Nat \ {0} /\ T \in Nat \ {0} /\ d \in Nat \ {0} /\ S * T \in Nat
    BY <1>1
  <1>3. d * (c - 1) < S * T /\ c \in Nat
    <2> HIDE DEF S, T, d
    <2> QED
      BY <1>2, CeilDivTight, CeilDivLeast
  <1>4. q.out = T - c /\ q.fee = fee
    BY DEF ComputeBuy
  <1>5. rs + n - q.fee + vs = d /\ rt - q.out + vt - 1 = c - 1
    BY <1>1, <1>3, <1>4
  <1> HIDE DEF q, c, d
  <1> QED
    BY <1>3, <1>5 DEF q

\* A sell releases as much SUI as the product of the reserves allows.
LEMMA SellTight ==
    ASSUME NEW rs \in Nat, NEW rt \in Nat,
           NEW vs \in Nat \ {0}, NEW vt \in Nat \ {0},
           NEW n \in Nat \ {0}, NEW bps \in 0 .. BpsDenominator
    PROVE  LET q == ComputeSell(rs, rt, vs, vt, n, bps)
           IN  (rs - (q.out + q.fee) + vs - 1) * (rt + n + vt) < (rs + vs) * (rt + vt)
  <1> DEFINE S == rs + vs
             T == rt + vt
             d == T + n
             c == CeilDiv(S * T, d)
             gross == SellGross(rs, rt, vs, vt, n)
             q     == ComputeSell(rs, rt, vs, vt, n, bps)
  <1>1. S \in Nat \ {0} /\ T \in Nat \ {0} /\ d \in Nat \ {0} /\ S * T \in Nat
    OBVIOUS
  <1>2. d * (c - 1) < S * T /\ c \in Nat
    <2> HIDE DEF S, T, d
    <2> QED
      BY <1>1, CeilDivTight, CeilDivLeast
  <1>3. gross = S - c
    BY DEF SellGross
  <1>4. gross \in Nat
    BY GrossCovered
  <1>5. q.out \in Nat /\ q.fee \in Nat /\ q.out + q.fee = gross
    BY <1>4, SellSplit
  <1> HIDE DEF q, c, gross
  <1>6. rs - (q.out + q.fee) + vs - 1 = c - 1 /\ rt + n + vt = d
    BY <1>2, <1>3, <1>5
  <1>7. (c - 1) * d < S * T
    BY <1>1, <1>2
  <1> HIDE DEF d
  <1> QED
    BY <1>6, <1>7 DEF q
-----------------------------------------------------------------------------
(* Adding up.  Total folds over a set, that is, it is a function on the      *)
(* subsets of the holders defined by recursion.  Induction is used in the    *)
(* form of its well-founded order having minimal elements.                   *)

\* A set of naturals with 0 and all successors has them all.
LEMMA NatInductiveSet ==
    ASSUME NEW T \in SUBSET Nat, 0 \in T, \A n \in T : n + 1 \in T
    PROVE  T = Nat
  <1> SUFFICES ASSUME Nat \ T # {}
               PROVE  FALSE
    OBVIOUS
  <1>1. \E x \in Nat \ T : \A y \in Nat \ T : <<y, x>> \notin OpToRel(<, Nat)
    BY NatLessThanWellFounded, WFMin
  <1>2. PICK x \in Nat \ T : \A y \in Nat \ T : ~ (y < x)
    BY <1>1 DEF OpToRel
  <1>3. x - 1 \in Nat /\ x - 1 < x
    BY <1>2
  <1>4. x - 1 \in T
    BY <1>2, <1>3
  <1> QED
    BY <1>2, <1>3, <1>4

\* The element a fold takes out of a set first.
First(s) == CHOOSE x \in s : TRUE

LEMMA FirstIn ==
    ASSUME NEW s, s # {}
    PROVE  First(s) \in s
  BY DEF First

\* What holds of the empty set, and of a set when of the rest after its first
\* element, holds of every subset of a finite set.
LEMMA SubsetInduction ==
    ASSUME NEW D, IsFiniteSet(D), NEW G, {} \in G,
           \A s \in SUBSET D : s # {} /\ s \ {First(s)} \in G => s \in G
    PROVE  SUBSET D \subseteq G
  <1> DEFINE T == (SUBSET D) \ G
  <1> SUFFICES ASSUME T # {}
               PROVE  FALSE
    OBVIOUS
  <1>1. /\ IsWellFoundedOn(StrictSubsetOrdering(D), FiniteSubsetsOf(D))
        /\ FiniteSubsetsOf(D) = SUBSET D
    BY FS_StrictSubsetOrderingWellFounded, FS_FiniteSubsetsOfFinite
  <1>2. \E x \in T : \A y \in T : <<y, x>> \notin StrictSubsetOrdering(D)
    <2>1. T \subseteq SUBSET D
      OBVIOUS
    <2> HIDE DEF T
    <2> QED
      BY <1>1, <2>1, WFMin
  <1>3. PICK s \in T : \A y \in SUBSET s : y # s => y \in G
    BY <1>2 DEF StrictSubsetOrdering
  <1>4. s \in SUBSET D /\ s # {} /\ s \notin G
    BY <1>3
  <1>5. First(s) \in s
    BY <1>4, FirstIn
  <1>6. s \ {First(s)} \in G
    BY <1>3, <1>5
  <1> QED
    BY <1>4, <1>6

\* it adds up f over every set of the collection D.
Adds(it, f, D) ==
    \A s \in D : it[s] = IF s = {} THEN 0 ELSE f[First(s)] + it[s \ {First(s)}]

\* There is such a function on the subsets of a finite set: one for the subsets
\* of up to n elements is continued to those of n + 1.
LEMMA AdderExists ==
    ASSUME NEW D, IsFiniteSet(D), NEW f \in [D -> Int]
    PROVE  \E it \in [SUBSET D -> Int] : Adds(it, f, SUBSET D)
  <1> DEFINE Low(n) == {s \in SUBSET D : Cardinality(s) <= n}
             T == {n \in Nat : \E it \in [Low(n) -> Int] : Adds(it, f, Low(n))}
  <1>1. \A s \in SUBSET D : /\ IsFiniteSet(s)
                            /\ Cardinality(s) \in Nat
                            /\ Cardinality(s) <= Cardinality(D)
    BY FS_Subset, FS_CardinalityType
  <1>2. 0 \in T
    <2>1. Low(0) = {{}}
      BY <1>1, FS_EmptySet
    <2>2. [s \in Low(0) |-> 0] \in [Low(0) -> Int]
      OBVIOUS
    <2>3. Adds([s \in Low(0) |-> 0], f, Low(0))
      BY <2>1 DEF Adds
    <2> QED
      BY <2>2, <2>3
  <1>3. ASSUME NEW n \in T
        PROVE  n + 1 \in T
    <2>1. PICK it \in [Low(n) -> Int] : Adds(it, f, Low(n))
      OBVIOUS
    <2> DEFINE more == [s \in Low(n + 1) |->
                            IF s = {} THEN 0 ELSE f[First(s)] + it[s \ {First(s)}]]
    <2>2. ASSUME NEW s \in Low(n + 1), s # {}
          PROVE  First(s) \in D /\ s \ {First(s)} \in Low(n)
      <3>1. First(s) \in s
        BY <2>2, FirstIn
      <3>2. Cardinality(s \ {First(s)}) = Cardinality(s) - 1
        BY <1>1, <3>1, FS_RemoveElement
      <3> QED
        BY <1>1, <3>1, <3>2
    <2>3. more \in [Low(n + 1) -> Int]
      BY <2>2
    <2>4. ASSUME NEW s \in Low(n)
          PROVE  s \in Low(n + 1) /\ more[s] = it[s]
      <3>1. s \in Low(n + 1)
        BY <1>1
      <3> QED
        BY <3>1, <2>1 DEF Adds
    <2>5. Adds(more, f, Low(n + 1))
      BY <2>2, <2>4 DEF Adds
    <2>6. \E jt \in [Low(n + 1) -> Int] : Adds(jt, f, Low(n + 1))
      <3> HIDE DEF more, Low
      <3> QED
        BY <2>3, <2>5
    <2>7. n + 1 \in Nat
      OBVIOUS
    <2> HIDE DEF Low
    <2> QED
      BY <2>6, <2>7
  <1>4. T = Nat
    <2> HIDE DEF T
    <2>1. T \in SUBSET Nat
      BY DEF T
    <2> QED
      BY <1>2, <1>3, <2>1, NatInductiveSet
  <1>5. Cardinality(D) \in T
    BY <1>4, FS_CardinalityType
  <1>6. Low(Cardinality(D)) = SUBSET D
    BY <1>1
  <1> QED
    BY <1>5, <1>6

\* The total is what such a function gives for all of the holders.
LEMMA TotalAdds ==
    ASSUME NEW D, IsFiniteSet(D), NEW f \in [D -> Int]
    PROVE  \E it \in [SUBSET D -> Int] : Adds(it, f, SUBSET D) /\ Total(f) = it[D]
  <1> DEFINE Adder(it) == it = [s \in SUBSET D |->
                                  IF s = {} THEN 0
                                  ELSE f[CHOOSE x \in s : TRUE]
                                         + it[s \ {CHOOSE x \in s : TRUE}]]
             it == CHOOSE jt : Adder(jt)
  <1>1. Adder(it)
    <2>1. PICK jt \in [SUBSET D -> Int] : Adds(jt, f, SUBSET D)
      BY AdderExists
    <2>2. Adder(jt)
      BY <2>1 DEF Adds, First
    <2> QED
      BY <2>2
  <1>2. Total(f) = it[D]
    <2>1. DOMAIN f = D
      OBVIOUS
    <2> QED
      BY <2>1 DEF Total, MapThenSumSet, MapThenFoldSet
  <1> HIDE DEF it
  <1>3. Adds(it, f, SUBSET D)
    BY <1>1 DEF Adds, First
  <1>4. it \in [SUBSET D -> Int]
    <2> DEFINE G == {s \in SUBSET D : it[s] \in Int}
    <2>1. {} \in G
      <3>1. it[{}] = 0
        BY <1>3 DEF Adds
      <3> QED
        BY <3>1
    <2>2. ASSUME NEW s \in SUBSET D, s # {}, s \ {First(s)} \in G
          PROVE  s \in G
      <3>1. First(s) \in s
        BY <2>2, FirstIn
      <3>2. it[s] = f[First(s)] + it[s \ {First(s)}]
        BY <1>3, <2>2 DEF Adds
      <3> QED
        BY <2>2, <3>1, <3>2
    <2> HIDE DEF G
    <2>3. SUBSET D \subseteq G
      BY <2>1, <2>2, SubsetInduction
    <2> QED
      BY <1>1, <2>3 DEF G
  <1> QED
    BY <1>2, <1>3, <1>4

\* A change of one balance changes the total by as much.
LEMMA TotalUpdate ==
    ASSUME NEW D, IsFiniteSet(D), NEW f \in [D -> Int], NEW a \in D, NEW v \in Int
    PROVE  /\ Total(f) \in Int
           /\ Total([f EXCEPT ![a] = v]) = Total(f) + v - f[a]
  <1> DEFINE g == [f EXCEPT ![a] = v]
  <1>1. g \in [D -> Int]
    OBVIOUS
  <1>2. PICK it \in [SUBSET D -> Int] : Adds(it, f, SUBSET D) /\ Total(f) = it[D]
    BY TotalAdds
  <1>3. PICK jt \in [SUBSET D -> Int] : Adds(jt, g, SUBSET D) /\ Total(g) = jt[D]
    <2> HIDE DEF g
    <2> QED
      BY <1>1, TotalAdds
  <1> DEFINE Off(s) == IF a \in s THEN v - f[a] ELSE 0
             G == {s \in SUBSET D : jt[s] = it[s] + Off(s)}
  <1>4. {} \in G
    <2>1. it[{}] = 0 /\ jt[{}] = 0
      BY <1>2, <1>3 DEF Adds
    <2> QED
      BY <2>1
  <1>5. ASSUME NEW s \in SUBSET D, s # {}, s \ {First(s)} \in G
        PROVE  s \in G
    <2>1. First(s) \in s
      BY <1>5, FirstIn
    <2>2. /\ it[s] = f[First(s)] + it[s \ {First(s)}]
          /\ jt[s] = g[First(s)] + jt[s \ {First(s)}]
      BY <1>2, <1>3, <1>5 DEF Adds
    <2>3. g[First(s)] = IF First(s) = a THEN v ELSE f[First(s)]
      BY <2>1
    <2>4. /\ it[s \ {First(s)}] \in Int /\ it[s] \in Int /\ jt[s] \in Int
          /\ f[First(s)] \in Int /\ f[a] \in Int
      BY <2>1
    <2> QED
      BY <1>5, <2>1, <2>2, <2>3, <2>4
  <1>6. D \in G
    <2> HIDE DEF G
    <2> QED
      BY <1>4, <1>5, SubsetInduction
  <1>7. f[a] \in Int /\ it[D] \in Int
    OBVIOUS
  <1> QED
    BY <1>2, <1>3, <1>6, <1>7

\* Nothing adds up to nothing.
LEMMA TotalZero ==
    ASSUME NEW D, IsFiniteSet(D)
    PROVE  Total([x \in D |-> 0]) = 0
  <1> DEFINE f == [x \in D |-> 0]
  <1>1. PICK it \in [SUBSET D -> Int] : Adds(it, f, SUBSET D) /\ Total(f) = it[D]
    <2>1. f \in [D -> Int]
      OBVIOUS
    <2> HIDE DEF f
    <2> QED
      BY <2>1, TotalAdds
  <1> DEFINE G == {s \in SUBSET D : it[s] = 0}
  <1>2. {} \in G
    <2>1. it[{}] = 0
      BY <1>1 DEF Adds
    <2> QED
      BY <2>1
  <1>3. ASSUME NEW s \in SUBSET D, s # {}, s \ {First(s)} \in G
        PROVE  s \in G
    <2>1. First(s) \in s
      BY <1>3, FirstIn
    <2>2. it[s] = f[First(s)] + it[s \ {First(s)}] /\ f[First(s)] = 0
      BY <1>1, <1>3, <2>1 DEF Adds
    <2> QED
      BY <1>3, <2>2
  <1>4. D \in G
    <2> HIDE DEF G
    <2> QED
      BY <1>2, <1>3, SubsetInduction
  <1> QED
    BY <1>1, <1>4

\* No amount is more than all of them.
LEMMA TotalCovers ==
    ASSUME NEW D, IsFiniteSet(D), NEW f \in [D -> Nat], NEW a \in D
    PROVE  f[a] <= Total(f) /\ Total(f) \in Nat
  <1>1. ASSUME NEW g \in [D -> Nat]
        PROVE  Total(g) \in Nat
    <2>0. g \in [D -> Int]
      BY <1>1
    <2>1. PICK it \in [SUBSET D -> Int] : Adds(it, g, SUBSET D) /\ Total(g) = it[D]
      BY <2>0, TotalAdds
    <2> DEFINE G == {s \in SUBSET D : it[s] \in Nat}
    <2>2. {} \in G
      <3>1. it[{}] = 0
        BY <2>1 DEF Adds
      <3> QED
        BY <3>1
    <2>3. ASSUME NEW s \in SUBSET D, s # {}, s \ {First(s)} \in G
          PROVE  s \in G
      <3>1. First(s) \in s
        BY <2>3, FirstIn
      <3>2. it[s] = g[First(s)] + it[s \ {First(s)}] /\ g[First(s)] \in Nat
        BY <2>1, <2>3, <3>1 DEF Adds
      <3> QED
        BY <2>3, <3>2
    <2>4. D \in G
      <3> HIDE DEF G
      <3> QED
        BY <2>2, <2>3, SubsetInduction
    <2> QED
      BY <2>1, <2>4
  <1>2. PICK z \in Nat : z = 0
    OBVIOUS
  <1>3. /\ [f EXCEPT ![a] = z] \in [D -> Nat] /\ f \in [D -> Int]
        /\ f[a] \in Nat /\ z \in Int
    OBVIOUS
  <1>4. Total([f EXCEPT ![a] = z]) \in Nat /\ Total(f) \in Nat
    BY <1>1, <1>3
  <1>5. Total([f EXCEPT ![a] = z]) = Total(f) + z - f[a]
    BY <1>3, TotalUpdate
  <1> QED
    BY <1>2, <1>3, <1>4, <1>5

\* Coins that arrive add to the total, coins that leave take from it.
LEMMA MoveTotal ==
    ASSUME NEW D, IsFiniteSet(D)
    PROVE  \A w \in [D -> Int], a \in D, n \in Int :
              /\ Total(w) \in Int
              /\ Credit(w, a, n) \in [D -> Int] /\ Total(Credit(w, a, n)) = Total(w) + n
              /\ Debit(w, a, n) \in [D -> Int] /\ Total(Debit(w, a, n)) = Total(w) - n
  <1> TAKE w \in [D -> Int], a \in D, n \in Int
  <1>1. w[a] \in Int /\ w[a] + n \in Int /\ w[a] - n \in Int
    OBVIOUS
  <1>2. Credit(w, a, n) \in [D -> Int] /\ Debit(w, a, n) \in [D -> Int]
    BY <1>1 DEF Credit, Debit
  <1>3. /\ Total(w) \in Int
        /\ Total([w EXCEPT ![a] = w[a] + n]) = Total(w) + (w[a] + n) - w[a]
        /\ Total([w EXCEPT ![a] = w[a] - n]) = Total(w) + (w[a] - n) - w[a]
    BY <1>1, TotalUpdate
  <1>4. /\ Credit(w, a, n) = [w EXCEPT ![a] = w[a] + n]
        /\ Debit(w, a, n) = [w EXCEPT ![a] = w[a] - n]
    BY DEF Credit, Debit
  <1> QED
    BY <1>1, <1>2, <1>3, <1>4

\* A split adds what it pays out to wallets.
LEMMA SplitTotal ==
    ASSUME NEW D, IsFiniteSet(D), NEW w \in [D -> Int], NEW a \in D, NEW b \in D,
           NEW split, split.creator \in Int, split.rest \in Int
    PROVE  /\ Total(w) \in Int
           /\ Total(DistributeSui(w, split, a, b)) = Total(w) + split.creator + split.rest
  <1>1. ASSUME NEW n \in Int, NEW m \in Int
        PROVE  /\ Total(w) \in Int
               /\ Total(Credit(Credit(w, a, n), b, m)) = Total(w) + n + m
    <2> DEFINE u == Credit(w, a, n)
    <2>1. Total(w) \in Int /\ Total(u) = Total(w) + n
      BY MoveTotal, SMT
    <2>2. u \in [D -> Int]
      BY MoveTotal, SMT
    <2> HIDE DEF u
    <2>3. Total(Credit(u, b, m)) = Total(u) + m
      BY <2>2, MoveTotal, SMT
    <2> QED
      BY <2>1, <2>3 DEF u
  <1> QED
    BY <1>1 DEF DistributeSui
=============================================================================
