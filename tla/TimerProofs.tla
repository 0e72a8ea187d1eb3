---------------------------- MODULE TimerProofs ----------------------------
(***************************************************************************)
(* The timing wheel of Timer delivers every timer at its tick and timers   *)
(* of one tick in order, for every size of its blocks.  In this order:     *)
(* division and remainder, the blocks a tick lies in, the slot a timer     *)
(* waits in and how one tick moves it, the lists of the wheel, what        *)
(* add_node, move_list and timer_shift do to them, and the invariant.      *)
(***************************************************************************)
EXTENDS Timer, WellFoundedInduction, TLAPS

-----------------------------------------------------------------------------
(* Quotients and remainders.                                               *)
LEMMA LeastNat ==
  ASSUME NEW S \in SUBSET Nat, S # {}
  PROVE  \E x \in S : \A y \in S : x <= y
<1> DEFINE R == {ss \in Nat \X Nat : ss[1] < ss[2]}
<1>1. IsWellFoundedOn(R, Nat)
  BY NatLessThanWellFounded DEF OpToRel
<1>2. PICK x \in S : \A y \in S : <<y, x>> \notin R
  <2> HIDE DEF R
  <2> QED BY <1>1, WFMin
<1>3. ASSUME NEW y \in S
      PROVE  x <= y
  <2>1. <<y, x>> \in Nat \X Nat /\ x \in Nat /\ y \in Nat
    OBVIOUS
  <2>2. ~ (y < x)
    BY <1>2, <2>1
  <2>3. QED
    BY <2>1, <2>2
<1>4. QED
  BY <1>2, <1>3

LEMMA TimesNat ==
  ASSUME NEW a \in Nat, NEW b \in Nat
  PROVE  a * b \in Nat
BY SMT

LEMMA DivUnique ==
  ASSUME NEW x \in Nat, NEW b \in Nat \ {0}, NEW q \in Nat, NEW d \in Nat, d < b, x = b * q + d
  PROVE  x \div b = q /\ x % b = d
BY Z3

LEMMA DivExists ==
  ASSUME NEW x \in Nat, NEW b \in Nat \ {0}
  PROVE  \E q \in Nat, d \in Nat : d < b /\ x = b * q + d
<1> DEFINE Good(y) == \E q \in Nat, d \in Nat : d < b /\ y = b * q + d
<1>1. SUFFICES ASSUME ~Good(x) PROVE FALSE
  OBVIOUS
<1>2. PICK S : S = {y \in Nat : ~Good(y)}
  OBVIOUS
<1>3. PICK y \in S : \A z \in S : y <= z
  <2>1. S \subseteq Nat /\ S # {}
    BY <1>1, <1>2
  <2>2. QED
    BY <2>1, LeastNat
<1>4. y \in Nat /\ ~Good(y)
  BY <1>2
<1>5. CASE y < b
  <2>1. y = b * 0 + y /\ 0 \in Nat
    BY <1>4
  <2>2. QED
    BY <1>4, <1>5, <2>1
<1>6. CASE ~(y < b)
  <2>1. y - b \in Nat /\ ~(y <= y - b)
    BY <1>4, <1>6
  <2>2. Good(y - b)
    <3> HIDE DEF Good
    <3> QED BY <1>2, <1>3, <2>1
  <2>3. PICK q \in Nat, d \in Nat : d < b /\ y - b = b * q + d
    BY <2>2
  <2>4. b * (q + 1) = b * q + b /\ b * q \in Nat
    OBVIOUS
  <2>5. y = b * (q + 1) + d /\ q + 1 \in Nat
    BY <1>4, <2>3, <2>4
  <2>6. QED
    BY <1>4, <2>3, <2>5
<1>7. QED
  BY <1>5, <1>6

LEMMA DivMod ==
  ASSUME NEW x \in Nat, NEW b \in Nat \ {0}
  PROVE  \E q \in Nat, d \in Nat : q = x \div b /\ d = x % b /\ d < b /\ x = b * q + d
<1>1. PICK q \in Nat, d \in Nat : d < b /\ x = b * q + d
  BY DivExists
<1>2. x \div b = q /\ x % b = d
  BY <1>1, DivUnique
<1>3. QED
  BY <1>1, <1>2, Zenon

LEMMA DivMonotone ==
  ASSUME NEW x \in Nat, NEW y \in Nat, x <= y, NEW b \in Nat \ {0}
  PROVE  x \div b <= y \div b
<1>1. PICK p \in Nat, e \in Nat : p = x \div b /\ e = x % b /\ e < b /\ x = b * p + e
  BY DivMod
<1>2. PICK q \in Nat, d \in Nat : q = y \div b /\ d = y % b /\ d < b /\ y = b * q + d
  BY DivMod
<1>3. SUFFICES ASSUME p >= q + 1 PROVE FALSE
  BY <1>1, <1>2
<1>4. PICK n \in Nat : p = q + 1 + n
  <2>1. p - (q + 1) \in Nat /\ p = q + 1 + (p - (q + 1))
    BY <1>1, <1>2, <1>3
  <2>2. QED
    BY <2>1
<1>5. b * p = b * q + b + b * n /\ b * n \in Nat
  BY <1>2, <1>4
<1>6. QED
  BY <1>1, <1>2, <1>5

(* The quotients by b and by a multiple m * b of it.                       *)
Twice(x, b, m, W) ==
  /\ W \in Nat \ {0}
  /\ x \div b = m * (x \div W) + (x % W) \div b
  /\ (x % W) \div b \in 0 .. m - 1
  /\ x % b = (x % W) % b
  /\ (x \div b) \div m = x \div W
  /\ (x \div b) % m = (x % W) \div b

LEMMA DivTwice ==
  ASSUME NEW x \in Nat, NEW b \in Nat \ {0}, NEW m \in Nat \ {0}, NEW W, W = b * m
  PROVE  Twice(x, b, m, W)
<1>1. W \in Nat \ {0}
  BY SMT
<1>2. PICK Q \in Nat, d \in Nat : Q = x \div W /\ d = x % W /\ d < W /\ x = W * Q + d
  BY <1>1, DivMod
<1>3. PICK q \in Nat, e \in Nat : q = d \div b /\ e = d % b /\ e < b /\ d = b * q + e
  BY <1>2, DivMod
<1>4. q < m
  <2>1. SUFFICES ASSUME q >= m PROVE FALSE
    BY <1>3
  <2>2. PICK n \in Nat : q = m + n
    <3>1. q - m \in Nat /\ q = m + (q - m)
      BY <1>3, <2>1
    <3>2. QED
      BY <3>1
  <2>3. b * q = b * m + b * n /\ b * n \in Nat
    BY <2>2
  <2>4. QED
    BY <1>1, <1>2, <1>3, <2>3
<1>5. PICK p \in Nat : p = m * Q + q
  <2>1. m * Q \in Nat
    BY TimesNat
  <2>2. QED
    BY <2>1
<1>6. x = b * p + e
  <2>1. b * (m * Q + q) = (b * m) * Q + b * q
    OBVIOUS
  <2>2. x = (b * m) * Q + d
    BY <1>2, Zenon
  <2>3. b * p = (b * m) * Q + b * q
    BY <1>5, <2>1, Zenon
  <2>4. PICK u \in Nat, v \in Nat : u = (b * m) * Q /\ v = b * q
    <3>1. (b * m) * Q \in Nat /\ b * q \in Nat
      BY TimesNat
    <3>2. QED
      BY <3>1
  <2>5. x = u + d /\ d = v + e /\ b * p = u + v
    BY <1>3, <2>2, <2>3, <2>4, Zenon
  <2>6. x = (u + v) + e
    BY <2>5
  <2>7. QED
    BY <2>5, <2>6, Zenon
<1>7. x \div b = p /\ x % b = e
  BY <1>3, <1>6, DivUnique, Zenon
<1>8. p \div m = Q /\ p % m = q
  BY <1>4, <1>5, DivUnique, Zenon
<1>9. q \in 0 .. m - 1
  BY <1>4
<1>10. x \div W = Q /\ (x % W) \div b = q /\ (x % W) % b = e
  BY <1>2, <1>3, Zenon
<1>11. QED
  BY <1>1, <1>5, <1>7, <1>8, <1>9, <1>10, Zenon DEF Twice

(* The quotient of the next number.                                        *)
LEMMA DivNext ==
  ASSUME NEW x \in Nat, NEW b \in Nat \ {0}
  PROVE  \/ (x + 1) \div b = x \div b
         \/ (x + 1) \div b = (x \div b) + 1 /\ (x + 1) % b = 0
<1>1. PICK p \in Nat, e \in Nat : p = x \div b /\ e = x % b /\ e < b /\ x = b * p + e
  BY DivMod
<1>2. CASE e + 1 < b
  <2>1. x + 1 \in Nat /\ e + 1 \in Nat /\ x + 1 = b * p + (e + 1)
    BY <1>1
  <2>2. (x + 1) \div b = p
    BY <1>1, <1>2, <2>1, DivUnique
  <2>3. QED
    BY <1>1, <2>2
<1>3. CASE ~(e + 1 < b)
  <2>1. x + 1 \in Nat /\ p + 1 \in Nat /\ 0 \in Nat /\ 0 < b /\ x + 1 = b * (p + 1) + 0
    BY <1>1, <1>3
  <2>2. (x + 1) \div b = p + 1 /\ (x + 1) % b = 0
    <3>1. PICK y : y = x + 1
      OBVIOUS
    <3>2. PICK q : q = p + 1
      OBVIOUS
    <3>3. y \div b = q /\ y % b = 0
      BY <2>1, <3>1, <3>2, DivUnique
    <3>4. QED
      BY <3>1, <3>2, <3>3
  <2>3. QED
    BY <1>1, <2>2
<1>4. QED
  BY <1>2, <1>3

(* The blocks of the levels.                                               *)
LEMMA BlockFacts ==
  /\ Block[0] = TIME_NEAR
  /\ \A l \in 0 .. 4 : Block[l] \in Nat \ {0}
  /\ \A l \in 0 .. 3 : Block[l + 1] = Block[l] * TIME_LEVEL
<1> DEFINE Eqn(s) == s = [l \in 0 .. 4 |-> IF l = 0 THEN TIME_NEAR ELSE s[l - 1] * TIME_LEVEL]
<1>1. Block = CHOOSE s : Eqn(s)
  BY DEF Block
<1>2. PICK b1, b2, b3, b4 : /\ b1 = TIME_NEAR * TIME_LEVEL /\ b2 = b1 * TIME_LEVEL
                            /\ b3 = b2 * TIME_LEVEL /\ b4 = b3 * TIME_LEVEL
  OBVIOUS
<1>3. PICK f : f = [l \in 0 .. 4 |-> IF l = 0 THEN TIME_NEAR ELSE IF l = 1 THEN b1
                                     ELSE IF l = 2 THEN b2 ELSE IF l = 3 THEN b3 ELSE b4]
  OBVIOUS
<1>4. f[0] = TIME_NEAR /\ f[1] = b1 /\ f[2] = b2 /\ f[3] = b3 /\ f[4] = b4
  BY <1>3
<1>5. \A l \in 0 .. 4 : l = 0 \/ l = 1 \/ l = 2 \/ l = 3 \/ l = 4
  OBVIOUS
<1>6. \A l \in 0 .. 4 : f[l] = IF l = 0 THEN TIME_NEAR ELSE f[l - 1] * TIME_LEVEL
  BY <1>2, <1>4, <1>5
<1>7. Eqn(f)
  <2>1. f = [l \in 0 .. 4 |-> f[l]]
    BY <1>3
  <2>2. QED
    BY <1>6, <2>1
<1>8. Eqn(Block)
  <2> HIDE DEF Eqn
  <2> QED BY <1>1, <1>7
<1>9. \A l \in 0 .. 4 : Block[l] = IF l = 0 THEN TIME_NEAR ELSE Block[l - 1] * TIME_LEVEL
  BY <1>8
<1>10. \A l \in 0 .. 3 : l + 1 \in 0 .. 4 /\ l + 1 # 0 /\ (l + 1) - 1 = l
  OBVIOUS
<1>11. Block[0] = TIME_NEAR /\ \A l \in 0 .. 3 : Block[l + 1] = Block[l] * TIME_LEVEL
  BY <1>9, <1>10
<1>12. \A a \in Nat \ {0} : a * TIME_LEVEL \in Nat \ {0}
  BY SizeAssumption, SMT
<1>13. /\ Block[0] \in Nat \ {0} /\ Block[1] \in Nat \ {0} /\ Block[2] \in Nat \ {0}
       /\ Block[3] \in Nat \ {0} /\ Block[4] \in Nat \ {0}
  <2>1. Block[1] = Block[0] * TIME_LEVEL /\ Block[2] = Block[1] * TIME_LEVEL
        /\ Block[3] = Block[2] * TIME_LEVEL /\ Block[4] = Block[3] * TIME_LEVEL
    BY <1>9
  <2>2. QED
    BY <1>11, <1>12, <2>1, SizeAssumption
<1>14. QED
  BY <1>5, <1>11, <1>13

-----------------------------------------------------------------------------
(* A time as the wheel sees it: the block it is in on every level, and the *)
(* index of that block in the block one level up.                          *)
Quot(x, l) == x \div Block[l]
Index(x, l) == Quot(x, l) % TIME_LEVEL

LEMMA LevelSize == TIME_LEVEL \in Nat \ {0} /\ TIME_LEVEL >= 2 /\ TIME_NEAR \in Nat \ {0}
BY SizeAssumption

LEMMA QuotNat ==
  ASSUME NEW x \in Nat, NEW l \in 0 .. 4
  PROVE  Quot(x, l) \in Nat
<1>1. Block[l] \in Nat \ {0}
  BY BlockFacts
<1>2. QED
  BY <1>1, DivMod, Zenon DEF Quot

(* The block on one level is the block above and the index in it.          *)
LEMMA QuotUp ==
  ASSUME NEW x \in Nat, NEW l \in 0 .. 3
  PROVE  /\ Index(x, l) \in 0 .. TIME_LEVEL - 1
         /\ Quot(x, l) = TIME_LEVEL * Quot(x, l + 1) + Index(x, l)
         /\ Quot(x, l + 1) = Quot(x, l) \div TIME_LEVEL
<1>1. PICK b, W : b = Block[l] /\ W = Block[l + 1]
  OBVIOUS
<1>2. b \in Nat \ {0} /\ W = b * TIME_LEVEL
  <2>1. l \in 0 .. 4
    OBVIOUS
  <2>2. QED
    BY <1>1, <2>1, BlockFacts, Zenon
<1>3. /\ x \div b = TIME_LEVEL * (x \div W) + (x % W) \div b
      /\ (x % W) \div b \in 0 .. TIME_LEVEL - 1
      /\ (x \div b) \div TIME_LEVEL = x \div W
      /\ (x \div b) % TIME_LEVEL = (x % W) \div b
  <2>1. Twice(x, b, TIME_LEVEL, W)
    BY <1>2, LevelSize, DivTwice, Zenon
  <2>2. QED
    BY <2>1, Zenon DEF Twice
<1>4. QED
  BY <1>1, <1>3, Zenon DEF Quot, Index

LEMMA QuotSame ==
  ASSUME NEW x \in Nat, NEW y \in Nat, NEW l \in 0 .. 3, Quot(x, l) = Quot(y, l)
  PROVE  Quot(x, l + 1) = Quot(y, l + 1)
BY QuotUp, Zenon

LEMMA QuotMonotone ==
  ASSUME NEW x \in Nat, NEW y \in Nat, x <= y, NEW l \in 0 .. 4
  PROVE  Quot(x, l) <= Quot(y, l)
<1>1. Block[l] \in Nat \ {0}
  BY BlockFacts
<1>2. QED
  BY <1>1, DivMonotone, Zenon DEF Quot

LEMMA QuotNext ==
  ASSUME NEW x \in Nat, NEW l \in 0 .. 4
  PROVE  \/ Quot(x + 1, l) = Quot(x, l)
         \/ Quot(x + 1, l) = Quot(x, l) + 1 /\ (x + 1) % Block[l] = 0
<1>1. Block[l] \in Nat \ {0}
  BY BlockFacts
<1>2. QED
  BY <1>1, DivNext, Zenon DEF Quot

LEMMA ZeroDiv ==
  ASSUME NEW b \in Nat \ {0}
  PROVE  0 \div b = 0 /\ 0 % b = 0
BY Z3

(* A time that begins a block begins the blocks below, each at index 0.    *)
LEMMA StartDown ==
  ASSUME NEW x \in Nat, NEW l \in 0 .. 3, x % Block[l + 1] = 0
  PROVE  x % Block[l] = 0 /\ Index(x, l) = 0
<1>1. PICK b, W : b = Block[l] /\ W = Block[l + 1]
  OBVIOUS
<1>2. b \in Nat \ {0} /\ W = b * TIME_LEVEL
  <2>1. l \in 0 .. 4
    OBVIOUS
  <2>2. QED
    BY <1>1, <2>1, BlockFacts, Zenon
<1>3. x % b = (x % W) % b /\ (x \div b) % TIME_LEVEL = (x % W) \div b
  <2>1. Twice(x, b, TIME_LEVEL, W)
    BY <1>2, LevelSize, DivTwice, Zenon
  <2>2. QED
    BY <2>1, Zenon DEF Twice
<1>4. QED
  BY <1>1, <1>2, <1>3, ZeroDiv, Zenon DEF Quot, Index

LEMMA StartUp ==
  ASSUME NEW x \in Nat, NEW l \in 0 .. 3, x % Block[l] = 0, Index(x, l) = 0
  PROVE  x % Block[l + 1] = 0
<1>1. PICK b \in Nat \ {0}, W \in Nat \ {0} : b = Block[l] /\ W = Block[l + 1]
  <2>1. l \in 0 .. 4 /\ l + 1 \in 0 .. 4
    OBVIOUS
  <2>2. QED
    BY <2>1, BlockFacts
<1>2. W = b * TIME_LEVEL
  BY <1>1, BlockFacts, Zenon
<1>3. /\ x % b = (x % W) % b /\ (x \div b) % TIME_LEVEL = (x % W) \div b
  <2>1. Twice(x, b, TIME_LEVEL, W)
    BY <1>2, LevelSize, DivTwice, Zenon
  <2>2. QED
    BY <2>1, Zenon DEF Twice
<1>4. PICK y \in Nat : y = x % W
  BY DivMod, Zenon
<1>5. y % b = 0 /\ y \div b = 0
  BY <1>1, <1>3, <1>4, Zenon DEF Quot, Index
<1>6. PICK q \in Nat, d \in Nat : q = y \div b /\ d = y % b /\ d < b /\ y = b * q + d
  BY DivMod, Zenon
<1>7. q = 0 /\ d = 0 /\ y = b * q + d
  BY <1>5, <1>6, Zenon
<1>8. y = 0
  BY <1>7
<1>9. QED
  BY <1>1, <1>4, <1>8, Zenon

-----------------------------------------------------------------------------
(* The clock wraps after a whole number of the blocks of every level.      *)
LEMMA WrapBlocks ==
  ASSUME NEW l \in 0 .. 3
  PROVE  \E m \in Nat \ {0} : WRAP = Block[l] * (TIME_LEVEL * m)
<1> DEFINE Good(k) == \E m \in Nat \ {0} : WRAP = Block[k] * (TIME_LEVEL * m)
<1>1. TIME_LEVEL \in Nat \ {0} /\ TIME_LEVEL * 1 = TIME_LEVEL
  BY LevelSize
<1>2. Good(3)
  <2>1. WRAP = Block[3] * TIME_LEVEL
    <3>1. 3 \in 0 .. 3 /\ 3 + 1 = 4
      OBVIOUS
    <3>2. QED
      BY <3>1, BlockFacts, Zenon DEF WRAP
  <2>2. WRAP = Block[3] * (TIME_LEVEL * 1) /\ 1 \in Nat \ {0}
    BY <1>1, <2>1
  <2>3. QED
    BY <2>2
<1>3. ASSUME NEW k \in 0 .. 2, Good(k + 1) PROVE Good(k)
  <2>1. PICK m \in Nat \ {0} : WRAP = Block[k + 1] * (TIME_LEVEL * m)
    BY <1>3
  <2>2. PICK b \in Nat \ {0} : b = Block[k] /\ Block[k + 1] = b * TIME_LEVEL
    <3>1. k \in 0 .. 3 /\ k \in 0 .. 4
      OBVIOUS
    <3>2. QED
      BY <3>1, BlockFacts
  <2>3. \A a \in Nat, c \in Nat, d \in Nat : (a * c) * (c * d) = a * (c * (c * d))
    BY Z3
  <2>4. (b * TIME_LEVEL) * (TIME_LEVEL * m) = b * (TIME_LEVEL * (TIME_LEVEL * m))
    BY <1>1, <2>3
  <2>5. TIME_LEVEL * m \in Nat \ {0}
    BY <1>1
  <2>6. WRAP = Block[k] * (TIME_LEVEL * (TIME_LEVEL * m))
    BY <2>1, <2>2, <2>4, Zenon
  <2>7. QED
    BY <2>5, <2>6
<1>4. Good(2) /\ Good(1) /\ Good(0)
  <2>1. \A k \in 0 .. 2 : Good(k + 1) => Good(k)
    BY <1>3
  <2> HIDE DEF Good
  <2>2. (Good(2 + 1) => Good(2)) /\ (Good(1 + 1) => Good(1)) /\ (Good(0 + 1) => Good(0))
    BY <2>1
  <2>3. 2 + 1 = 3 /\ 1 + 1 = 2 /\ 0 + 1 = 1
    OBVIOUS
  <2>4. QED
    BY <1>2, <2>2, <2>3
<1>5. l = 0 \/ l = 1 \/ l = 2 \/ l = 3
  OBVIOUS
<1>6. QED
  <2> HIDE DEF Good
  <2>1. Good(l)
    BY <1>2, <1>4, <1>5
  <2>2. QED
    BY <2>1 DEF Good

LEMMA WrapNat == WRAP \in Nat \ {0}
BY BlockFacts DEF WRAP

(* The remainders of a time and its index on every level are those of the  *)
(* clock.                                                                  *)
LEMMA WrapIndex ==
  ASSUME NEW x \in Nat, NEW l \in 0 .. 3
  PROVE  x % WRAP \in Nat /\ Index(x % WRAP, l) = Index(x, l) /\ (x % WRAP) % Block[l] = x % Block[l]
<1>1. PICK m \in Nat \ {0} : WRAP = Block[l] * (TIME_LEVEL * m)
  BY WrapBlocks
<1>2. PICK M : M = TIME_LEVEL * m
  OBVIOUS
<1>3. Block[l] \in Nat \ {0}
  BY BlockFacts
<1>4. M \in Nat \ {0}
  BY <1>2, LevelSize
<1>5. /\ x % Block[l] = (x % WRAP) % Block[l]
      /\ (x \div Block[l]) % M = (x % WRAP) \div Block[l]
  <2>1. Twice(x, Block[l], M, WRAP)
    BY <1>1, <1>2, <1>3, <1>4, DivTwice, Zenon
  <2>2. QED
    BY <2>1, Zenon DEF Twice
<1>6. PICK q \in Nat : q = x \div Block[l]
  BY <1>3, DivMod, Zenon
<1>7. q % TIME_LEVEL = (q % M) % TIME_LEVEL
  <2>1. Twice(q, TIME_LEVEL, m, M)
    BY <1>2, LevelSize, DivTwice, Zenon
  <2>2. QED
    BY <2>1, Zenon DEF Twice
<1>8. x % WRAP \in Nat
  BY WrapNat, DivMod, Zenon
<1>9. QED
  BY <1>5, <1>6, <1>7, <1>8, Zenon DEF Index, Quot

(* A timer is set for less than half of the clock, so for less than all    *)
(* the blocks of the last level but one.                                   *)
Soon(D, T) == T <= D /\ D < T + Block[3] * (TIME_LEVEL - 1)

LEMMA BlockBelow ==
  ASSUME NEW l \in 0 .. 3
  PROVE  Block[l] <= Block[3]
<1>1. \A a \in Nat \ {0} : a <= a * TIME_LEVEL
  <2>1. \A a \in Nat \ {0}, n \in Nat \ {0} : a <= a * n
    BY Z3
  <2>2. QED
    BY <2>1, LevelSize
<1>2. /\ Block[0] \in Nat \ {0} /\ Block[1] \in Nat \ {0} /\ Block[2] \in Nat \ {0}
      /\ Block[3] \in Nat \ {0}
  BY BlockFacts
<1>3. Block[1] = Block[0] * TIME_LEVEL /\ Block[2] = Block[1] * TIME_LEVEL
      /\ Block[3] = Block[2] * TIME_LEVEL
  <2>1. 0 \in 0 .. 3 /\ 1 \in 0 .. 3 /\ 2 \in 0 .. 3 /\ 0 + 1 = 1 /\ 1 + 1 = 2 /\ 2 + 1 = 3
    OBVIOUS
  <2>2. QED
    BY <2>1, BlockFacts, Zenon
<1>4. Block[0] <= Block[1] /\ Block[1] <= Block[2] /\ Block[2] <= Block[3]
  BY <1>1, <1>2, <1>3, Zenon
<1>5. l = 0 \/ l = 1 \/ l = 2 \/ l = 3
  OBVIOUS
<1>6. QED
  BY <1>2, <1>4, <1>5

(* Two such times are in the same block if the clock says so.              *)
LEMMA WrapSame ==
  ASSUME NEW D \in Nat, NEW T \in Nat, Soon(D, T), NEW l \in 0 .. 3
  PROVE  Quot(D % WRAP, l) = Quot(T % WRAP, l) <=> Quot(D, l) = Quot(T, l)
<1>1. PICK b \in Nat \ {0} : b = Block[l]
  BY BlockFacts
<1>2. PICK M \in Nat \ {0} : WRAP = b * M
  <2>1. PICK m \in Nat \ {0} : WRAP = Block[l] * (TIME_LEVEL * m)
    BY WrapBlocks
  <2>2. TIME_LEVEL * m \in Nat \ {0}
    BY LevelSize
  <2>3. QED
    BY <1>1, <2>1, <2>2
<1>3. PICK W \in Nat \ {0} : W = WRAP
  BY WrapNat
<1>4. PICK Qd \in Nat, d \in Nat : Qd = D \div W /\ d = D % W /\ d < W /\ D = W * Qd + d
  BY DivMod, Zenon
<1>5. PICK Qt \in Nat, u \in Nat : Qt = T \div W /\ u = T % W /\ u < W /\ T = W * Qt + u
  BY DivMod, Zenon
<1>6. PICK qd \in Nat, e \in Nat : qd = d \div b /\ e = d % b /\ e < b /\ d = b * qd + e
  BY DivMod, Zenon
<1>7. PICK qt \in Nat, f \in Nat : qt = u \div b /\ f = u % b /\ f < b /\ u = b * qt + f
  BY DivMod, Zenon
<1>8. Quot(D % WRAP, l) = qd /\ Quot(T % WRAP, l) = qt
  BY <1>1, <1>3, <1>4, <1>5, <1>6, <1>7, Zenon DEF Quot
<1>9. Quot(D, l) = M * Qd + qd /\ qd \in 0 .. M - 1 /\ Quot(T, l) = M * Qt + qt /\ qt \in 0 .. M - 1
  <2>1. Twice(D, b, M, W) /\ Twice(T, b, M, W)
    BY <1>2, <1>3, DivTwice, Zenon
  <2>2. QED
    BY <1>1, <1>4, <1>5, <1>6, <1>7, <2>1, Zenon DEF Twice, Quot
<1>10. Qt <= Qd
  <2>1. T <= D
    BY DEF Soon
  <2>2. QED
    BY <1>4, <1>5, <2>1, DivMonotone, Zenon
<1>11. CASE Qd = Qt
  <2>1. PICK p \in Nat : p = M * Qd
    BY TimesNat
  <2>2. Quot(D, l) = p + qd /\ Quot(T, l) = p + qt
    BY <1>9, <1>11, <2>1, Zenon
  <2>3. QED
    BY <1>8, <2>2
<1>12. CASE Qd > Qt
  <2>1. PICK n \in Nat : Qd = Qt + 1 + n
    <3>1. Qd - (Qt + 1) \in Nat /\ Qd = Qt + 1 + (Qd - (Qt + 1))
      BY <1>12
    <3>2. QED
      BY <3>1
  <2>2. Quot(D, l) # Quot(T, l)
    <3>1. M * (Qt + 1 + n) = M * Qt + M + M * n
      OBVIOUS
    <3>2. PICK p \in Nat, o \in Nat : p = M * Qt /\ o = M * n
      BY TimesNat
    <3>3. Quot(D, l) = (p + M + o) + qd /\ Quot(T, l) = p + qt
      BY <1>9, <2>1, <3>1, <3>2, Zenon
    <3>4. QED
      BY <1>9, <3>3
  <2>3. qd # qt
    <3>1. SUFFICES ASSUME qd = qt PROVE FALSE
      OBVIOUS
    <3>2. W * (Qt + 1 + n) = W * Qt + W + W * n
      OBVIOUS
    <3>3. PICK p \in Nat, o \in Nat, v \in Nat : p = W * Qt /\ o = W * n /\ v = b * qt
      BY TimesNat
    <3>4. D = (p + W + o) + (v + e) /\ T = p + (v + f)
      BY <1>4, <1>5, <1>6, <1>7, <2>1, <3>1, <3>2, <3>3, Zenon
    <3>5. PICK c \in Nat \ {0} : c = Block[3]
      BY BlockFacts
    <3>6. b <= c
      BY <1>1, <3>5, BlockBelow
    <3>7. W = c * TIME_LEVEL
      <4>1. 3 \in 0 .. 3 /\ 3 + 1 = 4
        OBVIOUS
      <4>2. QED
        BY <1>3, <3>5, <4>1, BlockFacts, Zenon DEF WRAP
    <3>8. c * (TIME_LEVEL - 1) = c * TIME_LEVEL - c
      BY LevelSize
    <3>9. D < T + (W - c)
      BY <3>5, <3>7, <3>8, Zenon DEF Soon
    <3>10. QED
      BY <1>6, <1>7, <3>4, <3>6, <3>9
  <2>4. QED
    BY <1>8, <2>2, <2>3
<1>13. QED
  BY <1>10, <1>11, <1>12

-----------------------------------------------------------------------------
(* The list in which a timer due at D waits at time T: the fourth "level"  *)
(* is near.                                                                *)
AtLevel(D, T, l) == Quot(D, l) # Quot(T, l) /\ (l = 3 \/ Quot(D, l + 1) = Quot(T, l + 1))
Slot(D, T) ==
  IF Quot(D, 0) = Quot(T, 0) THEN <<4, D % TIME_NEAR>>
  ELSE LET l == CHOOSE k \in 0 .. 3 : AtLevel(D, T, k) IN <<l, Index(D, l)>>

LEMMA SameUp ==
  ASSUME NEW D \in Nat, NEW T \in Nat
  PROVE  /\ Quot(D, 0) = Quot(T, 0) => Quot(D, 1) = Quot(T, 1)
         /\ Quot(D, 1) = Quot(T, 1) => Quot(D, 2) = Quot(T, 2)
         /\ Quot(D, 2) = Quot(T, 2) => Quot(D, 3) = Quot(T, 3)
<1>1. 0 \in 0 .. 3 /\ 1 \in 0 .. 3 /\ 2 \in 0 .. 3 /\ 0 + 1 = 1 /\ 1 + 1 = 2 /\ 2 + 1 = 3
  OBVIOUS
<1>2. /\ Quot(D, 0) = Quot(T, 0) => Quot(D, 0 + 1) = Quot(T, 0 + 1)
      /\ Quot(D, 1) = Quot(T, 1) => Quot(D, 1 + 1) = Quot(T, 1 + 1)
      /\ Quot(D, 2) = Quot(T, 2) => Quot(D, 2 + 1) = Quot(T, 2 + 1)
  BY <1>1, QuotSame, Zenon
<1>3. QED
  BY <1>1, <1>2

LEMMA LevelIs ==
  ASSUME NEW D \in Nat, NEW T \in Nat, NEW l \in 0 .. 3, AtLevel(D, T, l)
  PROVE  Quot(D, 0) # Quot(T, 0) /\ Slot(D, T) = <<l, Index(D, l)>>
<1>1. \A k \in 0 .. 3 : k = 0 \/ k = 1 \/ k = 2 \/ k = 3
  OBVIOUS
<1>2. Quot(D, 0) # Quot(T, 0)
  BY <1>1, SameUp DEF AtLevel
<1>3. \A k \in 0 .. 3 : AtLevel(D, T, k) => k = l
  BY <1>1, SameUp DEF AtLevel
<1>4. (CHOOSE k \in 0 .. 3 : AtLevel(D, T, k)) = l
  BY <1>3
<1>5. QED
  BY <1>2, <1>4 DEF Slot

LEMMA LevelExists ==
  ASSUME NEW D \in Nat, NEW T \in Nat, Quot(D, 0) # Quot(T, 0)
  PROVE  \E l \in 0 .. 3 : AtLevel(D, T, l)
<1>1. 0 \in 0 .. 3 /\ 1 \in 0 .. 3 /\ 2 \in 0 .. 3 /\ 3 \in 0 .. 3 /\ 0 + 1 = 1 /\ 1 + 1 = 2 /\ 2 + 1 = 3
  OBVIOUS
<1>2. CASE Quot(D, 1) = Quot(T, 1)
  <2>1. AtLevel(D, T, 0)
    BY <1>1, <1>2 DEF AtLevel
  <2>2. QED
    BY <1>1, <2>1
<1>3. CASE Quot(D, 1) # Quot(T, 1) /\ Quot(D, 2) = Quot(T, 2)
  <2>1. AtLevel(D, T, 1)
    BY <1>1, <1>3 DEF AtLevel
  <2>2. QED
    BY <1>1, <2>1
<1>4. CASE Quot(D, 2) # Quot(T, 2) /\ Quot(D, 3) = Quot(T, 3)
  <2>1. AtLevel(D, T, 2)
    BY <1>1, <1>4 DEF AtLevel
  <2>2. QED
    BY <1>1, <2>1
<1>5. CASE Quot(D, 3) # Quot(T, 3)
  <2>1. AtLevel(D, T, 3)
    BY <1>5 DEF AtLevel
  <2>2. QED
    BY <1>1, <2>1
<1>6. QED
  BY <1>2, <1>3, <1>4, <1>5

(* The lists of the wheel.                                                 *)
Slots == ({4} \X (0 .. TIME_NEAR - 1)) \cup ((0 .. 3) \X (0 .. TIME_LEVEL - 1))

LEMMA SlotIn ==
  ASSUME NEW D \in Nat, NEW T \in Nat
  PROVE  /\ Slot(D, T) \in Slots
         /\ Quot(D, 0) = Quot(T, 0) => Slot(D, T) = <<4, D % TIME_NEAR>> /\ D % TIME_NEAR \in 0 .. TIME_NEAR - 1
<1>1. CASE Quot(D, 0) = Quot(T, 0)
  <2>1. Slot(D, T) = <<4, D % TIME_NEAR>>
    BY <1>1 DEF Slot
  <2>2. PICK d \in Nat : d = D % TIME_NEAR /\ d < TIME_NEAR
    BY LevelSize, DivMod, Zenon
  <2>3. d \in 0 .. TIME_NEAR - 1
    BY <2>2, LevelSize
  <2>4. QED
    BY <1>1, <2>1, <2>2, <2>3 DEF Slots
<1>2. CASE Quot(D, 0) # Quot(T, 0)
  <2>1. PICK l \in 0 .. 3 : AtLevel(D, T, l)
    BY <1>2, LevelExists
  <2>2. Slot(D, T) = <<l, Index(D, l)>> /\ Index(D, l) \in 0 .. TIME_LEVEL - 1
    BY <2>1, LevelIs, QuotUp
  <2>3. QED
    BY <1>2, <2>2 DEF Slots
<1>3. QED
  BY <1>1, <1>2

(* A time whose list is the one of the current tick is the current tick.   *)
LEMMA SlotNow ==
  ASSUME NEW D \in Nat, NEW T \in Nat
  PROVE  Slot(D, T) = <<4, T % TIME_NEAR>> <=> D = T
<1>1. PICK b \in Nat \ {0} : b = TIME_NEAR /\ b = Block[0]
  BY LevelSize, BlockFacts
<1>2. PICK q \in Nat, d \in Nat : q = D \div b /\ d = D % b /\ d < b /\ D = b * q + d
  BY DivMod, Zenon
<1>3. PICK p \in Nat, e \in Nat : p = T \div b /\ e = T % b /\ e < b /\ T = b * p + e
  BY DivMod, Zenon
<1>4. Quot(D, 0) = q /\ Quot(T, 0) = p /\ D % TIME_NEAR = d /\ T % TIME_NEAR = e
  BY <1>1, <1>2, <1>3, Zenon DEF Quot
<1>5. CASE q = p
  <2>1. Slot(D, T) = <<4, d>>
    BY <1>4, <1>5 DEF Slot
  <2>2. d = e <=> D = T
    <3>1. PICK v \in Nat : v = b * q
      BY TimesNat
    <3>2. D = v + d /\ T = v + e
      BY <1>2, <1>3, <1>5, <3>1, Zenon
    <3>3. QED
      BY <3>2
  <2>3. QED
    BY <1>4, <2>1, <2>2
<1>6. CASE q # p
  <2>1. PICK l \in 0 .. 3 : AtLevel(D, T, l)
    BY <1>4, <1>6, LevelExists
  <2>2. Slot(D, T) = <<l, Index(D, l)>>
    BY <2>1, LevelIs
  <2>3. D # T
    BY <1>4, <1>6
  <2>4. QED
    BY <2>2, <2>3
<1>7. QED
  BY <1>5, <1>6

-----------------------------------------------------------------------------
(* What a tick changes.                                                    *)
Start(S, l) == S % Block[l] = 0 /\ Index(S, l) # 0

LEMMA StartAlone ==
  ASSUME NEW S \in Nat, NEW l \in 0 .. 3, NEW k \in 0 .. 3, Start(S, l)
  PROVE  S % WRAP # 0 /\ (Start(S, k) => k = l)
<1>1. 0 \in 0 .. 3 /\ 1 \in 0 .. 3 /\ 2 \in 0 .. 3 /\ 3 \in 0 .. 3
      /\ 0 + 1 = 1 /\ 1 + 1 = 2 /\ 2 + 1 = 3 /\ 3 + 1 = 4
  OBVIOUS
<1>2. \A j \in 0 .. 3 : S % Block[j + 1] = 0 => S % Block[j] = 0 /\ Index(S, j) = 0
  BY StartDown, Zenon
<1>3. /\ S % Block[4] = 0 => S % Block[3] = 0 /\ Index(S, 3) = 0
      /\ S % Block[3] = 0 => S % Block[2] = 0 /\ Index(S, 2) = 0
      /\ S % Block[2] = 0 => S % Block[1] = 0 /\ Index(S, 1) = 0
      /\ S % Block[1] = 0 => S % Block[0] = 0 /\ Index(S, 0) = 0
  <2>1. /\ S % Block[3 + 1] = 0 => S % Block[3] = 0 /\ Index(S, 3) = 0
        /\ S % Block[2 + 1] = 0 => S % Block[2] = 0 /\ Index(S, 2) = 0
        /\ S % Block[1 + 1] = 0 => S % Block[1] = 0 /\ Index(S, 1) = 0
        /\ S % Block[0 + 1] = 0 => S % Block[0] = 0 /\ Index(S, 0) = 0
    BY <1>1, <1>2, Zenon
  <2>2. QED
    BY <1>1, <2>1
<1>4. \A j \in 0 .. 3 : j = 0 \/ j = 1 \/ j = 2 \/ j = 3
  OBVIOUS
<1>5. l = 0 \/ l = 1 \/ l = 2 \/ l = 3
  OBVIOUS
<1>6. k = 0 \/ k = 1 \/ k = 2 \/ k = 3
  OBVIOUS
<1>7. S % WRAP # 0
  BY <1>3, <1>5, Zenon DEF WRAP, Start
<1>8. ASSUME Start(S, k) PROVE k = l
  BY <1>3, <1>5, <1>6, <1>8, ZenonT(60) DEF Start
<1>9. QED
  BY <1>7, <1>8

(* A timer not due yet keeps its list, unless the new tick begins its      *)
(* block, and then it is in the list that timer_shift moves.               *)
LEMMA SlotStep ==
  ASSUME NEW T \in Nat, NEW S \in Nat, S = T + 1, NEW D \in Nat, D > T, Soon(D, T)
  PROVE  \/ Slot(D, S) = Slot(D, T)
         \/ \E l \in 0 .. 3 : /\ Slot(D, T) = <<l, Index(S, l)>> /\ S % Block[l] = 0
                              /\ Index(S, l) # 0 \/ (l = 3 /\ S % WRAP = 0)
<1>1. T <= S /\ S <= D
  OBVIOUS
<1>2. ASSUME NEW l \in 0 .. 4
      PROVE  /\ Quot(T, l) \in Nat /\ Quot(S, l) \in Nat /\ Quot(D, l) \in Nat
             /\ Quot(T, l) <= Quot(S, l) /\ Quot(S, l) <= Quot(D, l)
  BY <1>1, QuotNat, QuotMonotone, Zenon
<1>3. CASE Quot(D, 0) = Quot(T, 0)
  <2>1. 0 \in 0 .. 4
    OBVIOUS
  <2>2. Quot(D, 0) = Quot(S, 0)
    BY <1>2, <1>3, <2>1
  <2>3. QED
    BY <1>3, <2>2 DEF Slot
<1>4. CASE Quot(D, 0) # Quot(T, 0)
  <2>1. PICK l \in 0 .. 3 : AtLevel(D, T, l)
    BY <1>4, LevelExists
  <2>2. Slot(D, T) = <<l, Index(D, l)>>
    BY <2>1, LevelIs
  <2>3. l \in 0 .. 4 /\ l + 1 \in 0 .. 4
    OBVIOUS
  <2>4. l # 3 => Quot(D, l + 1) = Quot(T, l + 1) /\ Quot(S, l + 1) = Quot(T, l + 1)
    BY <1>2, <2>1, <2>3 DEF AtLevel
  <2>5. CASE Quot(S, l) = Quot(D, l)
    <3>1. Index(D, l) = Index(S, l)
      BY <2>5 DEF Index
    <3>2. Quot(S, l) # Quot(T, l)
      BY <2>1, <2>5 DEF AtLevel
    <3>3. S % Block[l] = 0
      BY <2>3, <3>2, QuotNext
    <3>4. CASE Index(S, l) # 0
      BY <2>2, <3>1, <3>3, <3>4
    <3>5. CASE Index(S, l) = 0 /\ l = 3
      <4>1. S % Block[3 + 1] = 0
        BY <3>3, <3>5, StartUp
      <4>2. S % WRAP = 0
        BY <4>1 DEF WRAP
      <4>3. QED
        BY <2>2, <3>1, <3>3, <3>5, <4>2
    <3>6. CASE Index(S, l) = 0 /\ l # 3
      <4>1. PICK q \in Nat : q = Quot(T, l + 1) /\ q = Quot(S, l + 1)
        BY <1>2, <2>3, <2>4, <3>6
      <4>2. /\ Index(T, l) \in 0 .. TIME_LEVEL - 1
            /\ Quot(T, l) = TIME_LEVEL * Quot(T, l + 1) + Index(T, l)
            /\ Quot(S, l) = TIME_LEVEL * Quot(S, l + 1) + Index(S, l)
        BY QuotUp, Zenon
      <4>3. PICK p \in Nat : p = TIME_LEVEL * q
        BY LevelSize, TimesNat
      <4>4. Quot(T, l) = p + Index(T, l) /\ Quot(S, l) = p + 0
        BY <3>6, <4>1, <4>2, <4>3, Zenon
      <4>5. Quot(S, l) <= Quot(T, l)
        BY <4>2, <4>4, LevelSize
      <4>6. QED
        BY <1>2, <2>3, <3>2, <4>5
    <3>7. QED
      BY <3>4, <3>5, <3>6
  <2>6. CASE Quot(S, l) # Quot(D, l)
    <3>1. AtLevel(D, S, l)
      BY <2>4, <2>6 DEF AtLevel
    <3>2. QED
      BY <2>2, <3>1, LevelIs
  <2>7. QED
    BY <2>5, <2>6
<1>5. QED
  BY <1>3, <1>4

(* timer_shift moves no list, and no timer has to move, or the one list    *)
(* whose timers may have to.                                               *)
ShiftNone(w, T, S) ==
  /\ timer_shift(w, S % WRAP) = w
  /\ \A D \in Nat : D > T /\ Soon(D, T) => Slot(D, S) = Slot(D, T)
ShiftOne(w, T, S, l, i) ==
  /\ timer_shift(w, S % WRAP) = move_list(w, S % WRAP, l, i)
  /\ \A D \in Nat : D > T /\ Soon(D, T) /\ Slot(D, T) # <<l, i>> => Slot(D, S) = Slot(D, T)

LEMMA ShiftMoves ==
  ASSUME NEW T \in Nat, NEW S \in Nat, S = T + 1, NEW w
  PROVE  \/ ShiftNone(w, T, S)
         \/ \E l \in 0 .. 3, i \in 0 .. TIME_LEVEL - 1 : ShiftOne(w, T, S, l, i)
<1>1. PICK ct : ct = S % WRAP
  OBVIOUS
<1>2. \A l \in 0 .. 3 : ct % Block[l] = S % Block[l] /\ (ct \div Block[l]) % TIME_LEVEL = Index(S, l)
  BY <1>1, WrapIndex, Zenon DEF Index, Quot
<1> DEFINE starts == {l \in 0 .. 3 : ct % Block[l] = 0 /\ (ct \div Block[l]) % TIME_LEVEL # 0}
<1>4. starts = {l \in 0 .. 3 : Start(S, l)}
  BY <1>2, Zenon DEF Start
<1>5. timer_shift(w, ct) =
        IF ct = 0 THEN move_list(w, ct, 3, 0)
        ELSE IF starts = {} THEN w
        ELSE LET l == CHOOSE i \in starts : \A j \in starts : i <= j
             IN  move_list(w, ct, l, (ct \div Block[l]) % TIME_LEVEL)
  BY Zenon DEF timer_shift
<1> HIDE DEF starts
<1>6. CASE ct = 0
  <2>1. timer_shift(w, ct) = move_list(w, ct, 3, 0)
    BY <1>5, <1>6, Zenon
  <2>2. 3 \in 0 .. 3 /\ 0 \in 0 .. TIME_LEVEL - 1
    BY LevelSize
  <2>3. Index(S, 3) = 0
    <3>1. 3 \in 0 .. 3 /\ 3 + 1 = 4
      OBVIOUS
    <3>2. S % Block[3 + 1] = 0
      BY <1>1, <1>6, <3>1, Zenon DEF WRAP
    <3>3. QED
      BY <3>1, <3>2, StartDown, Zenon
  <2>4. ASSUME NEW D \in Nat, D > T, Soon(D, T), Slot(D, T) # <<3, 0>> PROVE Slot(D, S) = Slot(D, T)
    <3>1. SUFFICES ASSUME NEW l \in 0 .. 3, Slot(D, T) = <<l, Index(S, l)>>, S % Block[l] = 0,
                          Index(S, l) # 0 \/ (l = 3 /\ S % WRAP = 0)
                   PROVE  FALSE
      BY <2>4, SlotStep, Zenon
    <3>2. CASE Index(S, l) # 0
      <4>1. Start(S, l)
        BY <3>1, <3>2 DEF Start
      <4>2. QED
        BY <1>1, <1>6, <4>1, StartAlone, Zenon
    <3>3. CASE l = 3
      BY <2>3, <2>4, <3>1, <3>3
    <3>4. QED
      BY <3>1, <3>2, <3>3
  <2>5. QED
    <3>1. ShiftOne(w, T, S, 3, 0)
      BY <1>1, <2>1, <2>4, Zenon DEF ShiftOne
    <3>2. QED
      BY <2>2, <3>1, Zenon
<1>7. CASE ct # 0 /\ starts = {}
  <2>1. timer_shift(w, ct) = w
    BY <1>5, <1>7, Zenon
  <2>2. ASSUME NEW D \in Nat, D > T, Soon(D, T) PROVE Slot(D, S) = Slot(D, T)
    BY <1>1, <1>4, <1>7, <2>2, SlotStep DEF Start
  <2>3. QED
    BY <1>1, <2>1, <2>2, Zenon DEF ShiftNone
<1>8. CASE ct # 0 /\ starts # {}
  <2>1. PICK l \in 0 .. 3 : l \in starts /\ Start(S, l)
    BY <1>4, <1>8
  <2>2. starts = {l}
    BY <1>4, <2>1, StartAlone, Zenon
  <2>3. (CHOOSE i \in starts : \A j \in starts : i <= j) = l
    <3>1. l <= l /\ \A i \in starts : i = l
      BY <2>2
    <3>2. QED
      BY <2>1, <3>1
  <2>4. timer_shift(w, ct) = move_list(w, ct, l, Index(S, l))
    <3>1. PICK k : k = CHOOSE i \in starts : \A j \in starts : i <= j
      OBVIOUS
    <3>2. timer_shift(w, ct) = move_list(w, ct, k, (ct \div Block[k]) % TIME_LEVEL)
      BY <1>5, <1>8, <3>1, Zenon
    <3>3. QED
      BY <1>2, <2>3, <3>1, <3>2, Zenon
  <2>5. Index(S, l) \in 0 .. TIME_LEVEL - 1
    BY QuotUp
  <2>6. ASSUME NEW D \in Nat, D > T, Soon(D, T), Slot(D, T) # <<l, Index(S, l)>>
        PROVE  Slot(D, S) = Slot(D, T)
    <3>1. SUFFICES ASSUME NEW k \in 0 .. 3, Slot(D, T) = <<k, Index(S, k)>>, S % Block[k] = 0,
                          Index(S, k) # 0 \/ (k = 3 /\ S % WRAP = 0)
                   PROVE  FALSE
      BY <2>6, SlotStep, ZenonT(60)
    <3>2. Start(S, k)
      BY <1>1, <1>8, <3>1 DEF Start
    <3>3. k = l
      BY <2>1, <3>2, StartAlone, Zenon
    <3>4. QED
      BY <2>6, <3>1, <3>3
  <2>7. QED
    <3>1. ShiftOne(w, T, S, l, Index(S, l))
      BY <1>1, <2>4, <2>6, Zenon DEF ShiftOne
    <3>2. QED
      BY <2>5, <3>1, Zenon
<1>9. QED
  BY <1>6, <1>7, <1>8

-----------------------------------------------------------------------------
(* The wheel as a set of lists.                                            *)
Node == [id : Timer, expire : Nat]
WheelType == [near : [0 .. TIME_NEAR - 1 -> Seq(Node)],
              t : [0 .. 3 -> [0 .. TIME_LEVEL - 1 -> Seq(Node)]]]
ListAt(w, s) == IF s[1] = 4 THEN w.near[s[2]] ELSE w.t[s[1]][s[2]]

LEMMA ListAtSeq ==
  ASSUME NEW w \in WheelType, NEW s \in Slots
  PROVE  ListAt(w, s) \in Seq(Node)
<1>1. /\ w.t \in [0 .. 3 -> [0 .. TIME_LEVEL - 1 -> Seq(Node)]]
      /\ w.near \in [0 .. TIME_NEAR - 1 -> Seq(Node)]
  BY DEF WheelType
<1>2. CASE s[1] = 4
  <2>1. s[2] \in 0 .. TIME_NEAR - 1
    BY <1>2 DEF Slots
  <2>2. QED
    BY <1>1, <1>2, <2>1 DEF ListAt
<1>3. CASE s[1] # 4
  <2>1. s[1] \in 0 .. 3 /\ s[2] \in 0 .. TIME_LEVEL - 1
    BY <1>3 DEF Slots
  <2>2. QED
    BY <1>1, <1>3, <2>1 DEF ListAt
<1>4. QED
  BY <1>2, <1>3

(* The wheel v is w with another list at one place.                        *)
Put(v, w, at, list) ==
  /\ v \in WheelType
  /\ \A s \in Slots : ListAt(v, s) = IF s = at THEN list ELSE ListAt(w, s)

LEMMA AddNear ==
  ASSUME NEW w \in WheelType, NEW i \in 0 .. TIME_NEAR - 1, NEW list \in Seq(Node), NEW v,
         v = [w EXCEPT !.near[i] = list]
  PROVE  Put(v, w, <<4, i>>, list)
<1>1. w.near \in [0 .. TIME_NEAR - 1 -> Seq(Node)]
  BY DEF WheelType
<1>2. v = [near |-> [w.near EXCEPT ![i] = list], t |-> w.t]
  BY DEF WheelType
<1>3. v.near = [w.near EXCEPT ![i] = list] /\ v.t = w.t
  BY <1>2
<1>4. v.near \in [0 .. TIME_NEAR - 1 -> Seq(Node)]
  BY <1>1, <1>3
<1>5. v \in WheelType
  BY <1>2, <1>3, <1>4 DEF WheelType
<1>6. ASSUME NEW s \in Slots
      PROVE  ListAt(v, s) = IF s = <<4, i>> THEN list ELSE ListAt(w, s)
  <2>1. CASE s[1] = 4
    <3>1. s = <<4, s[2]>> /\ s[2] \in 0 .. TIME_NEAR - 1
      BY <2>1 DEF Slots
    <3>2. v.near[s[2]] = IF s[2] = i THEN list ELSE w.near[s[2]]
      BY <1>1, <1>3, <3>1
    <3>3. s = <<4, i>> <=> s[2] = i
      BY <3>1
    <3>4. ListAt(v, s) = v.near[s[2]] /\ ListAt(w, s) = w.near[s[2]]
      BY <2>1 DEF ListAt
    <3>5. QED
      BY <3>2, <3>3, <3>4
  <2>2. CASE s[1] # 4
    <3>1. s # <<4, i>>
      BY <2>2
    <3>2. QED
      BY <1>3, <2>2, <3>1 DEF ListAt
  <2>3. QED
    BY <2>1, <2>2
<1>7. QED
  BY <1>5, <1>6 DEF Put

LEMMA AddLevel ==
  ASSUME NEW w \in WheelType, NEW l \in 0 .. 3, NEW i \in 0 .. TIME_LEVEL - 1, NEW list \in Seq(Node), NEW v,
         v = [w EXCEPT !.t[l][i] = list]
  PROVE  Put(v, w, <<l, i>>, list)
<1>1. w.t \in [0 .. 3 -> [0 .. TIME_LEVEL - 1 -> Seq(Node)]] /\ w.near \in [0 .. TIME_NEAR - 1 -> Seq(Node)]
  BY DEF WheelType
<1>2. PICK row : row = [w.t[l] EXCEPT ![i] = list]
  OBVIOUS
<1>3. row \in [0 .. TIME_LEVEL - 1 -> Seq(Node)]
  BY <1>1, <1>2
<1>4. v = [near |-> w.near, t |-> [w.t EXCEPT ![l] = row]]
  BY <1>2 DEF WheelType
<1>5. v.t = [w.t EXCEPT ![l] = row] /\ v.near = w.near
  BY <1>4
<1>6. v.t \in [0 .. 3 -> [0 .. TIME_LEVEL - 1 -> Seq(Node)]]
  BY <1>1, <1>3, <1>5, SMTT(30)
<1>7. v \in WheelType
  BY <1>1, <1>4, <1>5, <1>6 DEF WheelType
<1>8. ASSUME NEW s \in Slots
      PROVE  ListAt(v, s) = IF s = <<l, i>> THEN list ELSE ListAt(w, s)
  <2>1. CASE s[1] = 4
    <3>1. s # <<l, i>>
      BY <2>1
    <3>2. QED
      BY <1>5, <2>1, <3>1 DEF ListAt
  <2>2. CASE s[1] # 4
    <3>1. s = <<s[1], s[2]>> /\ s[1] \in 0 .. 3 /\ s[2] \in 0 .. TIME_LEVEL - 1
      BY <2>2 DEF Slots
    <3>2. v.t[s[1]] = IF s[1] = l THEN row ELSE w.t[s[1]]
      BY <1>1, <1>5, <3>1
    <3>3. row[s[2]] = IF s[2] = i THEN list ELSE w.t[l][s[2]]
      BY <1>1, <1>2, <3>1
    <3>4. ListAt(v, s) = v.t[s[1]][s[2]] /\ ListAt(w, s) = w.t[s[1]][s[2]]
      BY <2>2 DEF ListAt
    <3>5. s = <<l, i>> <=> s[1] = l /\ s[2] = i
      BY <3>1
    <3>6. QED
      BY <3>2, <3>3, <3>4, <3>5
  <2>3. QED
    BY <2>1, <2>2
<1>9. QED
  BY <1>7, <1>8 DEF Put

(* add_node puts a timer where it belongs.                                 *)
LEMMA AddNode ==
  ASSUME NEW w \in WheelType, NEW D \in Nat, NEW T \in Nat, Soon(D, T),
         NEW node \in Node, node.expire = D % WRAP, NEW v, v = add_node(w, T % WRAP, node)
  PROVE  Put(v, w, Slot(D, T), Append(ListAt(w, Slot(D, T)), node))
<1>1. PICK e, now : e = node.expire /\ e = D % WRAP /\ now = T % WRAP
  OBVIOUS
<1>2. \A l \in 0 .. 3 : SameBlock(e, now, Block[l]) <=> Quot(D, l) = Quot(T, l)
  <2>1. ASSUME NEW l \in 0 .. 3 PROVE SameBlock(e, now, Block[l]) <=> Quot(D, l) = Quot(T, l)
    <3>1. SameBlock(e, now, Block[l]) <=> Quot(e, l) = Quot(now, l)
      BY DEF SameBlock, Quot
    <3>2. Quot(D % WRAP, l) = Quot(T % WRAP, l) <=> Quot(D, l) = Quot(T, l)
      BY WrapSame
    <3>3. QED
      BY <1>1, <3>1, <3>2, Zenon
  <2>2. QED
    BY <2>1
<1>3. 0 \in 0 .. 3 /\ Block[0] = TIME_NEAR
  BY BlockFacts
<1>4. SameBlock(e, now, TIME_NEAR) <=> Quot(D, 0) = Quot(T, 0)
  BY <1>2, <1>3, Zenon
<1>5. e % TIME_NEAR = D % TIME_NEAR
  BY <1>1, <1>3, WrapIndex, Zenon
<1>6. CASE Quot(D, 0) = Quot(T, 0)
  <2>1. PICK i \in 0 .. TIME_NEAR - 1 : i = D % TIME_NEAR /\ Slot(D, T) = <<4, i>>
    BY <1>6, SlotIn, Zenon
  <2>2. PICK list : list = Append(w.near[i], node)
    OBVIOUS
  <2>3. v = [w EXCEPT !.near[i] = list]
    <3>1. v = [w EXCEPT !.near[D % TIME_NEAR] = Append(@, node)]
      BY <1>1, <1>4, <1>5, <1>6, Zenon DEF add_node
    <3>2. v = [w EXCEPT !.near[i] = Append(@, node)]
      BY <2>1, <3>1, Zenon
    <3>3. QED
      BY <2>2, <3>2
  <2>4. list \in Seq(Node) /\ ListAt(w, <<4, i>>) = w.near[i]
    <3>1. w.near[i] \in Seq(Node)
      BY DEF WheelType
    <3>2. QED
      BY <2>2, <3>1 DEF ListAt
  <2>5. Put(v, w, <<4, i>>, list)
    BY <2>3, <2>4, AddNear, Zenon
  <2>6. QED
    BY <2>1, <2>2, <2>4, <2>5, Zenon
<1>7. CASE Quot(D, 0) # Quot(T, 0)
  <2> DEFINE fits == {l \in 0 .. 2 : SameBlock(node.expire, T % WRAP, Block[l + 1])}
             lev  == IF fits = {} THEN 3 ELSE CHOOSE i \in fits : \A j \in fits : i <= j
  <2>1. \A k : k \in fits <=> k \in 0 .. 2 /\ SameBlock(e, now, Block[k + 1])
    BY <1>1, Zenon
  <2>2. v = [w EXCEPT !.t[lev][(node.expire \div Block[lev]) % TIME_LEVEL] = Append(@, node)]
    <3>1. ~SameBlock(node.expire, T % WRAP, TIME_NEAR)
      BY <1>1, <1>4, <1>7, Zenon
    <3>2. QED
      BY <3>1, ZenonT(60) DEF add_node
  <2> HIDE DEF fits
  <2>21. PICK l : l = lev
    OBVIOUS
  <2>22. l = IF fits = {} THEN 3 ELSE CHOOSE i \in fits : \A j \in fits : i <= j
    BY <2>21
  <2> HIDE DEF lev
  <2>3. v = [w EXCEPT !.t[l][(e \div Block[l]) % TIME_LEVEL] = Append(@, node)]
    BY <1>1, <2>2, <2>21, Zenon
  <2>4. l \in 0 .. 3 /\ AtLevel(D, T, l)
    <3>1. \A k \in 0 .. 2 : k \in fits <=> Quot(D, k + 1) = Quot(T, k + 1)
      <4>1. \A k \in 0 .. 2 : k + 1 \in 0 .. 3
        OBVIOUS
      <4>2. QED
        BY <1>2, <2>1, <4>1, Zenon
    <3>2. 0 \in 0 .. 2 /\ 1 \in 0 .. 2 /\ 2 \in 0 .. 2 /\ 0 + 1 = 1 /\ 1 + 1 = 2 /\ 2 + 1 = 3
      OBVIOUS
    <3>3. (0 \in fits <=> Quot(D, 1) = Quot(T, 1)) /\ (1 \in fits <=> Quot(D, 2) = Quot(T, 2))
          /\ (2 \in fits <=> Quot(D, 3) = Quot(T, 3))
      <4>1. (0 \in fits <=> Quot(D, 0 + 1) = Quot(T, 0 + 1)) /\ (1 \in fits <=> Quot(D, 1 + 1) = Quot(T, 1 + 1))
            /\ (2 \in fits <=> Quot(D, 2 + 1) = Quot(T, 2 + 1))
        BY <3>1, <3>2, Zenon
      <4>2. QED
        BY <3>2, <4>1
    <3>4. fits \subseteq 0 .. 2 /\ \A k \in fits : k = 0 \/ k = 1 \/ k = 2
      BY <2>1
    <3>5. CASE fits = {}
      BY <2>22, <3>3, <3>5 DEF AtLevel
    <3>6. CASE fits # {}
      <4>1. \E i \in fits : \A j \in fits : i <= j
        <5>1. CASE 0 \in fits
          BY <3>4, <5>1
        <5>2. CASE 0 \notin fits /\ 1 \in fits
          BY <3>4, <5>2
        <5>3. CASE 0 \notin fits /\ 1 \notin fits
          <6>1. PICK i \in fits : TRUE
            BY <3>6
          <6>2. i = 2 /\ \A j \in fits : j = 2
            BY <3>4, <5>3
          <6>3. QED
            BY <6>2
        <5>4. QED
          BY <5>1, <5>2, <5>3
      <4>2. l \in fits /\ \A j \in fits : l <= j
        BY <2>22, <3>6, <4>1
      <4>3. CASE l = 0
        BY <1>7, <3>2, <3>3, <4>2, <4>3 DEF AtLevel
      <4>4. CASE l = 1
        <5>1. 0 \notin fits
          BY <4>2, <4>4
        <5>2. QED
          BY <3>2, <3>3, <4>2, <4>4, <5>1 DEF AtLevel
      <4>5. CASE l = 2
        <5>1. 1 \notin fits
          BY <4>2, <4>5
        <5>2. QED
          BY <3>2, <3>3, <4>2, <4>5, <5>1 DEF AtLevel
      <4>6. QED
        BY <3>4, <4>2, <4>3, <4>4, <4>5
    <3>7. QED
      BY <3>5, <3>6
  <2>5. Slot(D, T) = <<l, Index(D, l)>> /\ Index(D, l) \in 0 .. TIME_LEVEL - 1
    BY <2>4, LevelIs, QuotUp, Zenon
  <2>6. (e \div Block[l]) % TIME_LEVEL = Index(D, l)
    BY <1>1, <2>4, WrapIndex, Zenon DEF Index, Quot
  <2>7. PICK i \in 0 .. TIME_LEVEL - 1 : i = Index(D, l)
    BY <2>5
  <2>8. PICK list : list = Append(w.t[l][i], node)
    OBVIOUS
  <2>9. list \in Seq(Node)
    <3>1. w.t[l][i] \in Seq(Node)
      BY <2>4, ZenonT(60) DEF WheelType
    <3>2. QED
      BY <2>8, <3>1
  <2>10. v = [w EXCEPT !.t[l][i] = list]
    <3>1. v = [w EXCEPT !.t[l][i] = Append(@, node)]
      BY <2>3, <2>6, <2>7, Zenon
    <3>2. QED
      BY <2>8, <3>1
  <2>11. Put(v, w, <<l, i>>, list)
    BY <2>4, <2>9, <2>10, AddLevel, Zenon
  <2>12. ListAt(w, <<l, i>>) = w.t[l][i]
    BY <2>4 DEF ListAt
  <2>13. QED
    BY <2>5, <2>7, <2>8, <2>11, <2>12, Zenon
<1>8. QED
  BY <1>6, <1>7

-----------------------------------------------------------------------------
(* The wheel w holds the timers of P, due at d, at time T, each once and   *)
(* in its list, those due at the same tick in the order o.                 *)
NodeOK(n, s, T, d, P) == n.id \in P /\ n.expire = d[n.id] % WRAP /\ Slot(d[n.id], T) = s
PairOK(m, n, d, o) == m.id # n.id /\ (d[m.id] = d[n.id] => <<m.id, n.id>> \in o)
ListOK(L, s, T, d, P, o) ==
  /\ L \in Seq(Node)
  /\ \A i \in 1 .. Len(L) : NodeOK(L[i], s, T, d, P)
  /\ \A i, j \in 1 .. Len(L) : i < j => PairOK(L[i], L[j], d, o)
Found(L, x) == \E i \in 1 .. Len(L) : L[i].id = x
Placed(w, T, d, P, o) ==
  /\ w \in WheelType
  /\ \A s \in Slots : ListOK(ListAt(w, s), s, T, d, P, o)
  /\ \A x \in P : Found(ListAt(w, Slot(d[x], T)), x)

Appended(L, n, s, T, d, P, o) ==
  /\ ListOK(Append(L, n), s, T, d, P \cup {n.id}, o)
  /\ Found(Append(L, n), n.id)
  /\ \A x : Found(L, x) => Found(Append(L, n), x)

LEMMA AppendOK ==
  ASSUME NEW L, NEW s, NEW T, NEW d, NEW P, NEW o, ListOK(L, s, T, d, P, o),
         NEW n \in Node, n.id \notin P, n.expire = d[n.id] % WRAP, Slot(d[n.id], T) = s,
         \A y \in P : d[y] = d[n.id] => <<y, n.id>> \in o
  PROVE  Appended(L, n, s, T, d, P, o)
<1>1. PICK A : A = Append(L, n)
  OBVIOUS
<1>2. L \in Seq(Node) /\ Len(L) \in Nat
  BY DEF ListOK
<1>3. A \in Seq(Node) /\ Len(A) = Len(L) + 1 /\ A[Len(L) + 1] = n
      /\ \A i \in 1 .. Len(L) : A[i] = L[i]
  BY <1>1, <1>2
<1>4. \A i \in 1 .. Len(A) : i \in 1 .. Len(L) \/ i = Len(L) + 1
  BY <1>2, <1>3
<1>5. \A i \in 1 .. Len(L) : i \in 1 .. Len(A) /\ Len(L) + 1 \in 1 .. Len(A)
  BY <1>2, <1>3
<1>6. \A i \in 1 .. Len(L) : NodeOK(L[i], s, T, d, P)
  BY DEF ListOK
<1>7. \A i \in 1 .. Len(A) : NodeOK(A[i], s, T, d, P \cup {n.id})
  BY <1>3, <1>4, <1>6, Zenon DEF NodeOK
<1>8. ASSUME NEW i \in 1 .. Len(A), NEW j \in 1 .. Len(A), i < j PROVE PairOK(A[i], A[j], d, o)
  <2>1. i \in 1 .. Len(L)
    BY <1>2, <1>3, <1>8
  <2>2. CASE j \in 1 .. Len(L)
    BY <1>3, <1>8, <2>1, <2>2, Zenon DEF ListOK
  <2>3. CASE j = Len(L) + 1
    <3>1. A[i] = L[i] /\ A[j] = n /\ L[i].id \in P
      BY <1>3, <1>6, <2>1, <2>3, Zenon DEF NodeOK
    <3>2. QED
      BY <3>1, Zenon DEF PairOK
  <2>4. QED
    BY <1>4, <2>2, <2>3
<1>9. ListOK(A, s, T, d, P \cup {n.id}, o)
  BY <1>3, <1>7, <1>8 DEF ListOK
<1>10. Found(A, n.id)
  <2>1. Len(L) + 1 \in 1 .. Len(A)
    BY <1>2, <1>3
  <2>2. QED
    BY <1>3, <2>1, Zenon DEF Found
<1>11. ASSUME NEW x, Found(L, x) PROVE Found(A, x)
  BY <1>3, <1>5, <1>11, Zenon DEF Found
<1>12. QED
  BY <1>1, <1>9, <1>10, <1>11 DEF Appended

LEMMA ListMore ==
  ASSUME NEW L, NEW s, NEW T, NEW d, NEW P, NEW o, ListOK(L, s, T, d, P, o), NEW x
  PROVE  ListOK(L, s, T, d, P \cup {x}, o)
BY Zenon DEF ListOK, NodeOK

LEMMA PlacedAdd ==
  ASSUME NEW w, NEW T \in Nat, NEW d \in [Timer -> Nat], NEW P \in SUBSET Timer, NEW o,
         Placed(w, T, d, P, o),
         NEW n \in Node, n.id \notin P, n.expire = d[n.id] % WRAP, Soon(d[n.id], T),
         \A y \in P : d[y] = d[n.id] => <<y, n.id>> \in o,
         NEW v, v = add_node(w, T % WRAP, n)
  PROVE  Placed(v, T, d, P \cup {n.id}, o)
<1>1. n.id \in Timer /\ d[n.id] \in Nat
  BY DEF Node
<1>2. PICK at : at = Slot(d[n.id], T)
  OBVIOUS
<1>3. PICK L : L = ListAt(w, at)
  OBVIOUS
<1>4. w \in WheelType /\ at \in Slots
  BY <1>1, <1>2, SlotIn DEF Placed
<1>5. Put(v, w, at, Append(L, n))
  BY <1>1, <1>2, <1>3, <1>4, AddNode, Zenon
<1>6. ListOK(L, at, T, d, P, o)
  BY <1>3, <1>4 DEF Placed
<1>7. /\ ListOK(Append(L, n), at, T, d, P \cup {n.id}, o)
      /\ Found(Append(L, n), n.id)
      /\ \A x : Found(L, x) => Found(Append(L, n), x)
  <2>1. Appended(L, n, at, T, d, P, o)
    BY <1>2, <1>6, AppendOK, ZenonT(60)
  <2>2. QED
    BY <2>1, Zenon DEF Appended
<1>8. ASSUME NEW s \in Slots PROVE ListOK(ListAt(v, s), s, T, d, P \cup {n.id}, o)
  <2>1. CASE s = at
    BY <1>5, <1>7, <2>1, Zenon DEF Put
  <2>2. CASE s # at
    <3>1. ListAt(v, s) = ListAt(w, s)
      BY <1>5, <2>2, Zenon DEF Put
    <3>2. ListOK(ListAt(w, s), s, T, d, P, o)
      BY DEF Placed
    <3>3. QED
      BY <3>1, <3>2, ListMore, Zenon
  <2>3. QED
    BY <2>1, <2>2
<1>9. ASSUME NEW x \in P \cup {n.id} PROVE Found(ListAt(v, Slot(d[x], T)), x)
  <2>1. CASE x = n.id
    <3>1. ListAt(v, at) = Append(L, n)
      BY <1>4, <1>5, Zenon DEF Put
    <3>2. QED
      BY <1>2, <1>7, <2>1, <3>1, Zenon
  <2>2. CASE x \in P
    <3>1. Slot(d[x], T) \in Slots
      <4>1. d[x] \in Nat
        BY <2>2
      <4>2. QED
        BY <4>1, SlotIn
    <3>2. Found(ListAt(w, Slot(d[x], T)), x)
      BY <2>2 DEF Placed
    <3>3. CASE Slot(d[x], T) = at
      <4>1. ListAt(v, at) = Append(L, n)
        BY <1>4, <1>5, Zenon DEF Put
      <4>2. QED
        BY <1>3, <1>7, <3>2, <3>3, <4>1, Zenon
    <3>4. CASE Slot(d[x], T) # at
      <4>1. ListAt(v, Slot(d[x], T)) = ListAt(w, Slot(d[x], T))
        BY <1>5, <3>1, <3>4, Zenon DEF Put
      <4>2. QED
        BY <3>2, <4>1, Zenon
    <3>5. QED
      BY <3>3, <3>4
  <2>3. QED
    BY <2>1, <2>2
<1>10. v \in WheelType
  BY <1>5 DEF Put
<1>11. QED
  BY <1>8, <1>9, <1>10 DEF Placed

-----------------------------------------------------------------------------
(* move_list.                                                              *)
Steps(g, j, w0, now, list) ==
  g = [k \in 0 .. j |-> IF k = 0 THEN w0 ELSE add_node(g[k - 1], now, list[k])]

LEMMA StepsExist ==
  ASSUME NEW w0, NEW now, NEW list, NEW j \in Nat
  PROVE  \E g : Steps(g, j, w0, now, list)
<1>1. SUFFICES ASSUME ~\E g : Steps(g, j, w0, now, list) PROVE FALSE
  OBVIOUS
<1>2. PICK B : B = {m \in Nat : ~\E g : Steps(g, m, w0, now, list)}
  OBVIOUS
<1>3. PICK m \in B : \A y \in B : m <= y
  <2>1. B \subseteq Nat /\ B # {}
    BY <1>1, <1>2
  <2>2. QED
    BY <2>1, LeastNat
<1>4. m \in Nat /\ ~\E g : Steps(g, m, w0, now, list)
  BY <1>2
<1>5. CASE m = 0
  <2>1. PICK g : g = [k \in 0 .. 0 |-> w0]
    OBVIOUS
  <2>2. \A k \in 0 .. 0 : k = 0
    OBVIOUS
  <2>3. g = [k \in 0 .. 0 |-> IF k = 0 THEN w0 ELSE add_node(g[k - 1], now, list[k])]
    BY <2>1, <2>2
  <2>4. QED
    BY <1>4, <1>5, <2>3, Zenon DEF Steps
<1>6. CASE m # 0
  <2>1. m - 1 \in Nat /\ ~(m <= m - 1)
    BY <1>4, <1>6
  <2>2. m - 1 \notin B
    BY <1>3, <2>1
  <2>3. PICK g : Steps(g, m - 1, w0, now, list)
    BY <1>2, <2>1, <2>2
  <2>4. PICK h : h = [k \in 0 .. m |-> IF k = m THEN add_node(g[m - 1], now, list[m]) ELSE g[k]]
    OBVIOUS
  <2>5. ASSUME NEW k \in 0 .. m
        PROVE  h[k] = IF k = 0 THEN w0 ELSE add_node(h[k - 1], now, list[k])
    <3>1. CASE k = m
      <4>1. h[m] = add_node(g[m - 1], now, list[m])
        BY <1>4, <2>4
      <4>2. h[m - 1] = g[m - 1]
        BY <1>4, <1>6, <2>4
      <4>3. QED
        BY <1>6, <3>1, <4>1, <4>2
    <3>2. CASE k # m
      <4>1. k \in 0 .. m - 1
        BY <1>4, <3>2
      <4>2. h[k] = g[k]
        BY <2>4, <3>2
      <4>3. g[k] = IF k = 0 THEN w0 ELSE add_node(g[k - 1], now, list[k])
        BY <2>3, <4>1 DEF Steps
      <4>4. k # 0 => h[k - 1] = g[k - 1]
        BY <1>4, <2>4, <3>2
      <4>5. QED
        BY <4>2, <4>3, <4>4
    <3>3. QED
      BY <3>1, <3>2
  <2>6. h = [k \in 0 .. m |-> h[k]]
    BY <2>4
  <2>7. Steps(h, m, w0, now, list)
    BY <2>5, <2>6 DEF Steps
  <2>8. QED
    BY <1>4, <2>7
<1>7. QED
  BY <1>5, <1>6

Moves(g, w, now, l, i, list, w0) ==
  /\ move_list(w, now, l, i) = g[Len(list)]
  /\ g[0] = w0
  /\ \A k \in 1 .. Len(list) : g[k] = add_node(g[k - 1], now, list[k])

LEMMA MoveSteps ==
  ASSUME NEW w, NEW now, NEW l, NEW i, NEW list, list = w.t[l][i], Len(list) \in Nat, NEW w0,
         w0 = [w EXCEPT !.t[l][i] = <<>>]
  PROVE  \E g : Moves(g, w, now, l, i, list, w0)
<1> DEFINE lst == w.t[l][i]
           Eqn(g) == g = [k \in 0 .. Len(lst) |-> IF k = 0 THEN [w EXCEPT !.t[l][i] = <<>>]
                                                  ELSE add_node(g[k - 1], now, lst[k])]
<1>1. move_list(w, now, l, i) = (CHOOSE g : Eqn(g))[Len(lst)]
  BY DEF move_list
<1>2. \E g : Eqn(g)
  <2>1. PICK g : Steps(g, Len(list), w0, now, list)
    BY StepsExist
  <2>2. Eqn(g)
    BY <2>1, Zenon DEF Steps
  <2>3. QED
    BY <2>2
<1>3. PICK g : g = (CHOOSE h : Eqn(h)) /\ Eqn(g)
  BY <1>2
<1>4. g = [k \in 0 .. Len(list) |-> IF k = 0 THEN w0 ELSE add_node(g[k - 1], now, list[k])]
  BY <1>3, Zenon
<1>5. g[0] = w0
  BY <1>4
<1>6. \A k \in 1 .. Len(list) : g[k] = add_node(g[k - 1], now, list[k])
  BY <1>4, SMTT(30)
<1>7. move_list(w, now, l, i) = g[Len(list)]
  BY <1>1, <1>3, Zenon
<1>8. QED
  BY <1>5, <1>6, <1>7, Zenon DEF Moves

Keeps(T, S, at) == \A D \in Nat : D > T /\ Soon(D, T) /\ Slot(D, T) # at => Slot(D, S) = Slot(D, T)

(* A timer that keeps its list over a tick is still placed.                *)
LEMMA ListKept ==
  ASSUME NEW L, NEW s, NEW T \in Nat, NEW S, NEW d \in [Timer -> Nat], NEW P \in SUBSET Timer, NEW o,
         ListOK(L, s, T, d, P, o), NEW at, s # at, Keeps(T, S, at),
         \A x \in P : d[x] > T /\ Soon(d[x], T),
         NEW Q, \A x \in P : x \in Q \/ Slot(d[x], T) = at
  PROVE  ListOK(L, s, S, d, Q, o)
<1>1. ASSUME NEW i \in 1 .. Len(L) PROVE NodeOK(L[i], s, S, d, Q)
  <2>1. NodeOK(L[i], s, T, d, P)
    BY DEF ListOK
  <2>2. PICK x : x = L[i].id
    OBVIOUS
  <2>3. x \in P /\ L[i].expire = d[x] % WRAP /\ Slot(d[x], T) = s
    BY <2>1, <2>2, Zenon DEF NodeOK
  <2>4. d[x] \in Nat /\ d[x] > T /\ Soon(d[x], T)
    BY <2>3
  <2>5. Slot(d[x], S) = s /\ x \in Q
    BY <2>3, <2>4, Zenon DEF Keeps
  <2>6. QED
    BY <2>2, <2>3, <2>5, Zenon DEF NodeOK
<1>2. QED
  BY <1>1, Zenon DEF ListOK

LEMMA MovePlaced ==
  ASSUME NEW w, NEW T \in Nat, NEW S \in Nat, S = T + 1, NEW d \in [Timer -> Nat],
         NEW P \in SUBSET Timer, NEW o, Placed(w, T, d, P, o),
         \A x \in P : d[x] > T /\ Soon(d[x], T),
         NEW l \in 0 .. 3, NEW i \in 0 .. TIME_LEVEL - 1, Keeps(T, S, <<l, i>>)
  PROVE  Placed(move_list(w, S % WRAP, l, i), S, d, P, o)
<1>1. PICK at : at = <<l, i>> /\ at \in Slots
  BY DEF Slots
<1>2. PICK list : list = ListAt(w, at) /\ list = w.t[l][i]
  BY <1>1 DEF ListAt
<1>3. ListOK(list, at, T, d, P, o) /\ list \in Seq(Node) /\ Len(list) \in Nat /\ w \in WheelType
  <2>1. ListOK(list, at, T, d, P, o) /\ w \in WheelType
    BY <1>1, <1>2 DEF Placed
  <2>2. list \in Seq(Node)
    BY <2>1 DEF ListOK
  <2>3. QED
    BY <2>1, <2>2
<1>4. PICK w0 : w0 = [w EXCEPT !.t[l][i] = <<>>]
  OBVIOUS
<1>5. Put(w0, w, at, <<>>)
  <2>1. <<>> \in Seq(Node)
    OBVIOUS
  <2>2. QED
    BY <1>1, <1>3, <1>4, <2>1, AddLevel, Zenon
<1>61. PICK g : Moves(g, w, S % WRAP, l, i, list, w0)
  BY <1>2, <1>3, <1>4, MoveSteps, Zenon
<1>6. /\ move_list(w, S % WRAP, l, i) = g[Len(list)]
      /\ g[0] = w0
      /\ \A k \in 1 .. Len(list) : g[k] = add_node(g[k - 1], S % WRAP, list[k])
  BY <1>61, Zenon DEF Moves
<1> DEFINE Ids(k) == {list[j].id : j \in 1 .. k}
           PK(k) == (P \ Ids(Len(list))) \cup Ids(k)
<1>7. \A j \in 1 .. Len(list) : NodeOK(list[j], at, T, d, P)
  BY <1>3 DEF ListOK
<1>8. \A x \in P : Slot(d[x], T) = at => x \in Ids(Len(list))
  BY <1>2, Zenon DEF Placed, Found
<1>9. \A x \in Ids(Len(list)) : x \in P /\ Slot(d[x], T) = at
  BY <1>7, Zenon DEF NodeOK
<1>10. Placed(w0, S, d, PK(0), o)
  <2>1. PK(0) = P \ Ids(Len(list))
    <3>1. 1 .. 0 = {}
      OBVIOUS
    <3>2. QED
      BY <3>1
  <2>2. PICK Q : Q = PK(0)
    OBVIOUS
  <2>3. \A x : x \in Q <=> x \in P /\ Slot(d[x], T) # at
    BY <1>8, <1>9, <2>1, <2>2, Zenon
  <2>4. ASSUME NEW s \in Slots PROVE ListOK(ListAt(w0, s), s, S, d, Q, o)
    <3>1. CASE s = at
      <4>1. ListAt(w0, s) = <<>>
        BY <1>5, <3>1, Zenon DEF Put
      <4>2. <<>> \in Seq(Node) /\ 1 .. Len(<<>>) = {}
        OBVIOUS
      <4>3. QED
        BY <4>1, <4>2, Zenon DEF ListOK
    <3>2. CASE s # at
      <4>1. ListAt(w0, s) = ListAt(w, s)
        BY <1>5, <3>2, Zenon DEF Put
      <4>2. ListOK(ListAt(w, s), s, T, d, P, o)
        BY DEF Placed
      <4>3. ListOK(ListAt(w, s), s, S, d, Q, o)
        BY <1>1, <2>3, <3>2, <4>2, ListKept, ZenonT(60)
      <4>4. QED
        BY <4>1, <4>3, Zenon
    <3>3. QED
      BY <3>1, <3>2
  <2>5. ASSUME NEW x \in Q PROVE Found(ListAt(w0, Slot(d[x], S)), x)
    <3>1. x \in P /\ Slot(d[x], T) # at
      BY <2>3
    <3>2. d[x] \in Nat /\ d[x] > T /\ Soon(d[x], T)
      BY <3>1
    <3>3. Slot(d[x], S) = Slot(d[x], T)
      BY <1>1, <3>1, <3>2, Zenon DEF Keeps
    <3>4. Slot(d[x], T) \in Slots
      BY <3>2, SlotIn
    <3>5. ListAt(w0, Slot(d[x], T)) = ListAt(w, Slot(d[x], T))
      BY <1>5, <3>1, <3>4, Zenon DEF Put
    <3>6. Found(ListAt(w, Slot(d[x], T)), x)
      BY <3>1 DEF Placed
    <3>7. QED
      BY <3>3, <3>5, <3>6, Zenon
  <2>6. w0 \in WheelType
    BY <1>5 DEF Put
  <2>7. QED
    BY <2>2, <2>4, <2>5, <2>6 DEF Placed
<1>11. ASSUME NEW k \in 1 .. Len(list), Placed(g[k - 1], S, d, PK(k - 1), o)
       PROVE  Placed(g[k], S, d, PK(k), o)
  <2>1. PICK n : n = list[k]
    OBVIOUS
  <2>2. n \in Node /\ NodeOK(n, at, T, d, P)
    BY <1>3, <1>7, <2>1
  <2>3. n.id \in P /\ n.expire = d[n.id] % WRAP /\ Slot(d[n.id], T) = at /\ n.id \in Ids(Len(list))
    BY <2>1, <2>2, Zenon DEF NodeOK
  <2>4. k - 1 \in Nat /\ \A j \in 1 .. k - 1 : j \in 1 .. Len(list) /\ j < k
    BY <1>3
  <2>5. \A j \in 1 .. k - 1 : PairOK(list[j], n, d, o)
    BY <1>3, <2>1, <2>4, Zenon DEF ListOK
  <2>6. PICK Q : Q = PK(k - 1)
    OBVIOUS
  <2>7. Q \in SUBSET Timer
    <3>1. \A x \in Ids(k - 1) : x \in Ids(Len(list))
      BY <2>4, Zenon
    <3>2. QED
      BY <1>9, <2>6, <3>1, Zenon
  <2>8. n.id \notin Q
    <3>1. n.id \notin Ids(k - 1)
      BY <2>5, Zenon DEF PairOK
    <3>2. QED
      BY <2>3, <2>6, <3>1, Zenon
  <2>9. ASSUME NEW y \in Q, d[y] = d[n.id] PROVE <<y, n.id>> \in o
    <3>1. CASE y \in Ids(k - 1)
      BY <2>5, <2>9, <3>1, Zenon DEF PairOK
    <3>2. CASE y \in P \ Ids(Len(list))
      BY <1>8, <2>3, <2>9, <3>2, Zenon
    <3>3. QED
      BY <2>6, <3>1, <3>2, Zenon
  <2>10. Soon(d[n.id], S)
    <3>1. PICK D \in Nat : D = d[n.id]
      BY <2>3
    <3>2. D > T /\ T <= D /\ D < T + Block[3] * (TIME_LEVEL - 1)
      BY <2>3, <3>1, Zenon DEF Soon
    <3>3. PICK c \in Nat : c = Block[3] * (TIME_LEVEL - 1)
      <4>1. Block[3] \in Nat /\ TIME_LEVEL - 1 \in Nat
        BY BlockFacts, LevelSize
      <4>2. QED
        BY <4>1, TimesNat
    <3>4. D < T + c
      BY <3>2, <3>3, Zenon
    <3>5. S <= D /\ D < S + c
      BY <3>2, <3>4
    <3>6. QED
      BY <3>1, <3>3, <3>5, Zenon DEF Soon
  <2>11. g[k] = add_node(g[k - 1], S % WRAP, n)
    BY <1>6, <2>1, Zenon
  <2>12. Placed(g[k], S, d, Q \cup {n.id}, o)
    <3>1. Placed(g[k - 1], S, d, Q, o)
      BY <1>11, <2>6, Zenon
    <3>2. QED
      BY <2>2, <2>3, <2>7, <2>8, <2>9, <2>10, <2>11, <3>1, PlacedAdd, ZenonT(60)
  <2>13. PK(k) = Q \cup {n.id}
    <3>1. \A j \in 1 .. k : j \in 1 .. k - 1 \/ j = k
      OBVIOUS
    <3>2. \A j \in 1 .. k - 1 : j \in 1 .. k
      OBVIOUS
    <3>3. k \in 1 .. k
      OBVIOUS
    <3>4. Ids(k) = Ids(k - 1) \cup {n.id}
      BY <2>1, <3>1, <3>2, <3>3, Zenon
    <3>5. QED
      BY <2>6, <3>4, Zenon
  <2>14. QED
    BY <2>12, <2>13, Zenon
<1>12. Placed(g[Len(list)], S, d, PK(Len(list)), o)
  <2>1. SUFFICES ASSUME ~Placed(g[Len(list)], S, d, PK(Len(list)), o) PROVE FALSE
    OBVIOUS
  <2> HIDE DEF PK, Ids
  <2>2. PICK B : B = {k \in 0 .. Len(list) : ~Placed(g[k], S, d, PK(k), o)}
    OBVIOUS
  <2>3. B \subseteq Nat /\ B # {}
    <3>1. Len(list) \in 0 .. Len(list) /\ 0 .. Len(list) \subseteq Nat
      BY <1>3
    <3>2. QED
      BY <2>1, <2>2, <3>1
  <2>4. PICK k \in B : \A y \in B : k <= y
    BY <2>3, LeastNat
  <2>5. k \in 0 .. Len(list) /\ ~Placed(g[k], S, d, PK(k), o)
    BY <2>2
  <2>6. k # 0
    BY <1>6, <1>10, <2>5
  <2>7. k \in 1 .. Len(list) /\ k - 1 \in 0 .. Len(list) /\ ~(k <= k - 1)
    BY <1>3, <2>5, <2>6
  <2>8. k - 1 \notin B
    BY <2>4, <2>7
  <2>9. Placed(g[k - 1], S, d, PK(k - 1), o)
    BY <2>2, <2>7, <2>8
  <2>10. QED
    BY <1>11, <2>5, <2>7, <2>9
<1>13. PK(Len(list)) = P
  BY <1>9, Zenon
<1>14. QED
  BY <1>6, <1>12, <1>13, Zenon

(* A tick leaves every timer in its list.                                  *)
LEMMA ShiftPlaced ==
  ASSUME NEW w, NEW T \in Nat, NEW S \in Nat, S = T + 1, NEW d \in [Timer -> Nat],
         NEW P \in SUBSET Timer, NEW o, Placed(w, T, d, P, o),
         \A x \in P : d[x] > T /\ Soon(d[x], T)
  PROVE  Placed(timer_shift(w, S % WRAP), S, d, P, o)
<1>1. CASE ShiftNone(w, T, S)
  <2>1. PICK at : at \notin Slots /\ \A x \in P : Slot(d[x], T) # at
    <3>1. PICK at : at \notin Slots \cup {Slot(d[x], T) : x \in P}
      BY NoSetContainsEverything
    <3>2. QED
      BY <3>1
  <2>2. Keeps(T, S, at)
    BY <1>1, Zenon DEF Keeps, ShiftNone
  <2>3. ASSUME NEW s \in Slots PROVE ListOK(ListAt(w, s), s, S, d, P, o)
    <3>1. ListOK(ListAt(w, s), s, T, d, P, o)
      BY DEF Placed
    <3>2. s # at
      BY <2>1
    <3>3. QED
      BY <2>2, <3>1, <3>2, ListKept, ZenonT(60)
  <2>4. ASSUME NEW x \in P PROVE Found(ListAt(w, Slot(d[x], S)), x)
    <3>1. d[x] \in Nat /\ d[x] > T /\ Soon(d[x], T)
      OBVIOUS
    <3>2. Slot(d[x], S) = Slot(d[x], T)
      BY <1>1, <3>1, Zenon DEF ShiftNone
    <3>3. Found(ListAt(w, Slot(d[x], T)), x)
      BY DEF Placed
    <3>4. QED
      BY <3>2, <3>3, Zenon
  <2>5. Placed(w, S, d, P, o)
    BY <2>3, <2>4 DEF Placed
  <2>6. QED
    BY <1>1, <2>5, Zenon DEF ShiftNone
<1>2. CASE \E l \in 0 .. 3, i \in 0 .. TIME_LEVEL - 1 : ShiftOne(w, T, S, l, i)
  <2>1. PICK l \in 0 .. 3, i \in 0 .. TIME_LEVEL - 1 :
             /\ timer_shift(w, S % WRAP) = move_list(w, S % WRAP, l, i)
             /\ Keeps(T, S, <<l, i>>)
    BY <1>2, Zenon DEF Keeps, ShiftOne
  <2>2. Placed(move_list(w, S % WRAP, l, i), S, d, P, o)
    BY <2>1, MovePlaced, ZenonT(60)
  <2>3. QED
    BY <2>1, <2>2, Zenon
<1>3. QED
  BY <1>1, <1>2, ShiftMoves, Zenon

-----------------------------------------------------------------------------
(* Adding to a wrapped clock.                                              *)
LEMMA WrapAdd ==
  ASSUME NEW T \in Nat, NEW k \in Nat
  PROVE  (T % WRAP) \in 0 .. WRAP - 1 /\ ((T % WRAP) + k) % WRAP = (T + k) % WRAP
<1>1. PICK W \in Nat \ {0} : W = WRAP
  BY WrapNat
<1>2. PICK q \in Nat, d \in Nat : q = T \div W /\ d = T % W /\ d < W /\ T = W * q + d
  BY DivMod, Zenon
<1>3. PICK x \in Nat : x = d + k
  <2>1. d + k \in Nat
    OBVIOUS
  <2>2. QED
    BY <2>1
<1>4. PICK p \in Nat, e \in Nat : p = x \div W /\ e = x % W /\ e < W /\ x = W * p + e
  BY DivMod, Zenon
<1>5. PICK y \in Nat : y = T + k
  OBVIOUS
<1>6. y = W * (q + p) + e
  <2>1. W * (q + p) = W * q + W * p
    OBVIOUS
  <2>2. PICK u \in Nat, v \in Nat : u = W * q /\ v = W * p
    BY TimesNat
  <2>3. T = u + d /\ x = v + e /\ W * (q + p) = u + v
    BY <1>2, <1>4, <2>1, <2>2, Zenon
  <2>4. y = (u + v) + e
    BY <1>3, <1>5, <2>3
  <2>5. QED
    BY <2>3, <2>4, Zenon
<1>7. y % W = e
  <2>1. q + p \in Nat
    OBVIOUS
  <2>2. QED
    BY <1>4, <1>6, <2>1, DivUnique, Zenon
<1>8. d \in 0 .. W - 1
  BY <1>2
<1>9. QED
  BY <1>1, <1>2, <1>3, <1>4, <1>5, <1>7, <1>8, Zenon

LEMMA NearIndex ==
  ASSUME NEW T \in Nat
  PROVE  (T % WRAP) % TIME_NEAR = T % TIME_NEAR /\ T % TIME_NEAR \in 0 .. TIME_NEAR - 1
<1>1. 0 \in 0 .. 3 /\ Block[0] = TIME_NEAR
  BY BlockFacts
<1>2. PICK d \in Nat : d = T % TIME_NEAR /\ d < TIME_NEAR
  BY LevelSize, DivMod, Zenon
<1>3. d \in 0 .. TIME_NEAR - 1
  BY <1>2, LevelSize
<1>4. QED
  BY <1>1, <1>2, <1>3, WrapIndex, Zenon

(* A delay is less than half of the clock.                                 *)
LEMMA DelaySoon ==
  ASSUME NEW T \in Nat, NEW delay \in Delay
  PROVE  delay \in Nat /\ delay >= 1 /\ T + delay \in Nat /\ Soon(T + delay, T)
<1>1. PICK W \in Nat \ {0} : W = WRAP
  BY WrapNat
<1>2. PICK c \in Nat \ {0} : c = Block[3]
  BY BlockFacts
<1>3. W = c * TIME_LEVEL
  <2>1. 3 \in 0 .. 3 /\ 3 + 1 = 4
    OBVIOUS
  <2>2. QED
    BY <1>1, <1>2, <2>1, BlockFacts, Zenon DEF WRAP
<1>4. PICK n \in Nat : TIME_LEVEL = n + 2
  <2>1. TIME_LEVEL - 2 \in Nat /\ TIME_LEVEL = (TIME_LEVEL - 2) + 2
    BY LevelSize
  <2>2. QED
    BY <2>1
<1>5. PICK u \in Nat : u = c * n
  BY TimesNat
<1>6. W = u + 2 * c
  <2>1. c * (n + 2) = c * n + 2 * c
    OBVIOUS
  <2>2. QED
    BY <1>3, <1>4, <1>5, <2>1, Zenon
<1>7. Block[3] * (TIME_LEVEL - 1) = u + c
  <2>1. c * (n + 1) = c * n + c
    OBVIOUS
  <2>2. TIME_LEVEL - 1 = n + 1
    BY <1>4
  <2>3. QED
    BY <1>2, <1>5, <2>1, <2>2, Zenon
<1>8. delay \in 1 .. (W \div 2 - 1)
  BY <1>1, DelayAssumption, Zenon
<1>9. PICK h \in Nat, e \in Nat : h = W \div 2 /\ e < 2 /\ W = 2 * h + e
  <2>1. PICK two \in Nat \ {0} : two = 2
    OBVIOUS
  <2>2. PICK h \in Nat, e \in Nat : h = W \div two /\ e = W % two /\ e < two /\ W = two * h + e
    BY DivMod, Zenon
  <2>3. h = W \div 2 /\ e < 2 /\ W = 2 * h + e
    BY <2>1, <2>2, Zenon
  <2>4. QED
    BY <2>3
<1>10. delay \in 1 .. (h - 1)
  BY <1>8, <1>9, Zenon
<1>11. delay \in Nat /\ delay >= 1 /\ delay < u + c
  BY <1>6, <1>9, <1>10
<1>12. T <= T + delay /\ T + delay < T + (u + c)
  BY <1>11
<1>13. T + delay \in Nat
  BY <1>11
<1>14. QED
  BY <1>7, <1>11, <1>12, <1>13, Zenon DEF Soon

LEMMA SoonNext ==
  ASSUME NEW T \in Nat, NEW S \in Nat, S = T + 1, NEW D \in Nat, D > T, Soon(D, T)
  PROVE  Soon(D, S)
<1>1. PICK c \in Nat : c = Block[3] * (TIME_LEVEL - 1)
  <2>1. Block[3] \in Nat /\ TIME_LEVEL - 1 \in Nat
    BY BlockFacts, LevelSize
  <2>2. QED
    BY <2>1, TimesNat
<1>2. D < T + c
  BY <1>1, Zenon DEF Soon
<1>3. S <= D /\ D < S + c
  BY <1>2
<1>4. QED
  BY <1>1, <1>3, Zenon DEF Soon

(* The wheel does not depend on the due times of other timers.             *)
LEMMA PlacedAgree ==
  ASSUME NEW w, NEW T, NEW d, NEW P, NEW o, Placed(w, T, d, P, o), NEW d2, NEW o2,
         \A x \in P : d2[x] = d[x],
         \A x, y \in P : <<x, y>> \in o => <<x, y>> \in o2
  PROVE  Placed(w, T, d2, P, o2)
<1>1. ASSUME NEW s \in Slots PROVE ListOK(ListAt(w, s), s, T, d2, P, o2)
  <2>1. PICK L : L = ListAt(w, s)
    OBVIOUS
  <2>2. ListOK(L, s, T, d, P, o)
    BY <2>1 DEF Placed
  <2>3. \A i \in 1 .. Len(L) : NodeOK(L[i], s, T, d, P)
    BY <2>2 DEF ListOK
  <2>4. \A i \in 1 .. Len(L) : NodeOK(L[i], s, T, d2, P)
    BY <2>3, Zenon DEF NodeOK
  <2>5. ASSUME NEW i \in 1 .. Len(L), NEW j \in 1 .. Len(L), i < j PROVE PairOK(L[i], L[j], d2, o2)
    <3>1. PairOK(L[i], L[j], d, o)
      BY <2>2, <2>5, Zenon DEF ListOK
    <3>2. L[i].id \in P /\ L[j].id \in P
      BY <2>3, Zenon DEF NodeOK
    <3>3. QED
      BY <3>1, <3>2, Zenon DEF PairOK
  <2>6. QED
    BY <2>1, <2>2, <2>4, <2>5, Zenon DEF ListOK
<1>2. ASSUME NEW x \in P PROVE Found(ListAt(w, Slot(d2[x], T)), x)
  <2>1. Found(ListAt(w, Slot(d[x], T)), x)
    BY DEF Placed
  <2>2. QED
    BY <2>1, Zenon
<1>3. QED
  BY <1>1, <1>2, Zenon DEF Placed

(* A list of the wheel taken out.                                          *)
LEMMA PlacedCut ==
  ASSUME NEW w, NEW T, NEW d, NEW P, NEW o, Placed(w, T, d, P, o), NEW at, NEW v, Put(v, w, at, <<>>),
         NEW Q, \A x : x \in Q <=> x \in P /\ Slot(d[x], T) # at,
         \A x \in P : Slot(d[x], T) \in Slots
  PROVE  Placed(v, T, d, Q, o)
<1>1. ASSUME NEW s \in Slots PROVE ListOK(ListAt(v, s), s, T, d, Q, o)
  <2>1. CASE s = at
    <3>1. ListAt(v, s) = <<>>
      BY <2>1, Zenon DEF Put
    <3>2. <<>> \in Seq(Node) /\ 1 .. Len(<<>>) = {}
      OBVIOUS
    <3>3. QED
      BY <3>1, <3>2, Zenon DEF ListOK
  <2>2. CASE s # at
    <3>1. PICK L : L = ListAt(v, s) /\ L = ListAt(w, s)
      BY <2>2, Zenon DEF Put
    <3>2. ListOK(L, s, T, d, P, o)
      BY <3>1, Zenon DEF Placed
    <3>3. \A i \in 1 .. Len(L) : NodeOK(L[i], s, T, d, P)
      BY <3>2 DEF ListOK
    <3>4. \A i \in 1 .. Len(L) : NodeOK(L[i], s, T, d, Q)
      BY <2>2, <3>3, Zenon DEF NodeOK
    <3>5. QED
      BY <3>1, <3>2, <3>4, Zenon DEF ListOK
  <2>3. QED
    BY <2>1, <2>2
<1>2. ASSUME NEW x \in Q PROVE Found(ListAt(v, Slot(d[x], T)), x)
  <2>1. x \in P /\ Slot(d[x], T) # at
    OBVIOUS
  <2>2. Slot(d[x], T) \in Slots
    BY <2>1
  <2>3. ListAt(v, Slot(d[x], T)) = ListAt(w, Slot(d[x], T))
    BY <2>1, <2>2, Zenon DEF Put
  <2>4. Found(ListAt(w, Slot(d[x], T)), x)
    BY <2>1, Zenon DEF Placed
  <2>5. QED
    BY <2>3, <2>4, Zenon
<1>3. v \in WheelType
  BY DEF Put
<1>4. QED
  BY <1>1, <1>2, <1>3, Zenon DEF Placed

-----------------------------------------------------------------------------
(* The inductive invariant.  The clock is the tick modulo the wrap, every  *)
(* set timer is in the list of its slot or in the list being dispatched,   *)
(* and no timer's tick has passed: before the shift, not even reached.     *)
Pending(d) == {x \in Timer : d[x] # 0}
Ids(list) == {list[i].id : i \in 1 .. Len(list)}

CurrentOK(list, T, d, o) ==
  /\ list \in Seq(Node)
  /\ \A i \in 1 .. Len(list) : d[list[i].id] # 0 /\ d[list[i].id] = T
  /\ \A i, j \in 1 .. Len(list) :
       i < j => list[i].id # list[j].id /\ <<list[i].id, list[j].id>> \in o

DueOK(T, d, s) ==
  \A x \in Timer : d[x] # 0 => Soon(d[x], T) /\ (s \in {"idle", "execute"} => d[x] > T)

TimerInv ==
  /\ ticks \in Nat /\ time = ticks % WRAP
  /\ todo \in 0 .. MaxDiff
  /\ due \in [Timer -> 0 .. MaxTicks]
  /\ pc \in {"idle", "execute", "shifted", "dispatch"}
  /\ current # <<>> <=> pc = "dispatch"
  /\ CurrentOK(current, ticks, due, older)
  /\ DueOK(ticks, due, pc)
  /\ Placed(Wheel, ticks, due, Pending(due) \ Ids(current), older)

LEMMA DueNat ==
  ASSUME NEW d \in [Timer -> 0 .. MaxTicks]
  PROVE  d \in [Timer -> Nat]
BY BoundAssumption

(* The list of the current tick holds exactly the timers due now.          *)
NearFacts(T, d, P, o, i, L) ==
  /\ i \in 0 .. TIME_NEAR - 1
  /\ ListOK(L, <<4, i>>, T, d, P, o)
  /\ \A x \in P : x \in Ids(L) <=> Slot(d[x], T) = <<4, i>>
  /\ \A x \in P : x \in Ids(L) <=> d[x] = T
  /\ Ids(L) \subseteq P

LEMMA NearSlot ==
  ASSUME NEW i \in 0 .. TIME_NEAR - 1
  PROVE  <<4, i>> \in Slots
BY DEF Slots

LEMMA NearNow ==
  ASSUME NEW w, NEW T \in Nat, NEW d \in [Timer -> Nat], NEW P \in SUBSET Timer, NEW o,
         Placed(w, T, d, P, o), NEW i, i = T % TIME_NEAR, NEW L, L = w.near[i]
  PROVE  NearFacts(T, d, P, o, i, L)
<1>1. i \in 0 .. TIME_NEAR - 1
  <2>1. T % TIME_NEAR \in 0 .. TIME_NEAR - 1
    BY NearIndex
  <2>2. QED
    BY <2>1, Zenon
<1>2. PICK at : at = <<4, i>> /\ at \in Slots
  BY <1>1, NearSlot, Zenon
<1>3. L = ListAt(w, at)
  BY <1>2 DEF ListAt
<1>4. ListOK(L, at, T, d, P, o)
  BY <1>2, <1>3 DEF Placed
<1>5. \A x \in P : Slot(d[x], T) = at <=> d[x] = T
  <2>1. ASSUME NEW x \in P PROVE Slot(d[x], T) = at <=> d[x] = T
    <3>1. d[x] \in Nat
      OBVIOUS
    <3>2. QED
      BY <1>2, <3>1, SlotNow, Zenon
  <2>2. QED
    BY <2>1
<1>6. ASSUME NEW x \in Ids(L) PROVE x \in P /\ Slot(d[x], T) = at
  <2>1. PICK j \in 1 .. Len(L) : x = L[j].id
    BY DEF Ids
  <2>2. NodeOK(L[j], at, T, d, P)
    BY <1>4 DEF ListOK
  <2>3. QED
    BY <2>1, <2>2, Zenon DEF NodeOK
<1>7. ASSUME NEW x \in P, Slot(d[x], T) = at PROVE x \in Ids(L)
  <2>1. Found(L, x)
    BY <1>3, <1>7, Zenon DEF Placed
  <2>2. QED
    BY <2>1 DEF Found, Ids
<1>8. QED
  BY <1>1, <1>2, <1>3, <1>4, <1>5, <1>6, <1>7, Zenon DEF NearFacts

(* timer_execute cuts that list off.                                       *)
LEMMA CutCurrent ==
  ASSUME NEW w, NEW T \in Nat, NEW d \in [Timer -> Nat], NEW o, NEW P \in SUBSET Timer, P = Pending(d),
         Placed(w, T, d, P, o), NEW i, i = T % TIME_NEAR, NEW L, L = w.near[i],
         NEW v, v = [w EXCEPT !.near[i] = <<>>]
  PROVE  CurrentOK(L, T, d, o) /\ Placed(v, T, d, P \ Ids(L), o)
<1>1. PICK at : at = <<4, i>>
  OBVIOUS
<1>2. /\ i \in 0 .. TIME_NEAR - 1
      /\ ListOK(L, at, T, d, P, o)
      /\ \A x \in P : x \in Ids(L) <=> Slot(d[x], T) = at
      /\ \A x \in P : x \in Ids(L) <=> d[x] = T
      /\ Ids(L) \subseteq P
  <2>1. NearFacts(T, d, P, o, i, L)
    BY NearNow, Zenon
  <2>2. QED
    BY <1>1, <2>1, Zenon DEF NearFacts
<1>3. L \in Seq(Node) /\ \A j \in 1 .. Len(L) : L[j].id \in P /\ d[L[j].id] = T /\ d[L[j].id] # 0
  <2>1. L \in Seq(Node)
    BY <1>2 DEF ListOK
  <2>2. \A j \in 1 .. Len(L) : L[j].id \in Ids(L)
    BY Zenon DEF Ids
  <2>3. \A x \in P : d[x] # 0
    BY Zenon DEF Pending
  <2>4. QED
    BY <1>2, <2>1, <2>2, <2>3, Zenon
<1>4. ASSUME NEW j \in 1 .. Len(L), NEW k \in 1 .. Len(L), j < k
      PROVE  L[j].id # L[k].id /\ <<L[j].id, L[k].id>> \in o
  <2>1. PairOK(L[j], L[k], d, o)
    BY <1>2, <1>4, Zenon DEF ListOK
  <2>2. QED
    BY <1>3, <2>1, Zenon DEF PairOK
<1>5. CurrentOK(L, T, d, o)
  BY <1>3, <1>4, Zenon DEF CurrentOK
<1>6. Placed(v, T, d, P \ Ids(L), o)
  <2>1. w \in WheelType /\ <<>> \in Seq(Node)
    BY DEF Placed
  <2>2. Put(v, w, at, <<>>)
    BY <1>1, <1>2, <2>1, AddNear, Zenon
  <2>3. ASSUME NEW x \in P PROVE Slot(d[x], T) \in Slots
    <3>1. d[x] \in Nat
      OBVIOUS
    <3>2. QED
      BY <3>1, SlotIn
  <2>4. PICK Q : Q = P \ Ids(L)
    OBVIOUS
  <2>5. \A x : x \in Q <=> x \in P /\ Slot(d[x], T) # at
    BY <1>2, <2>4, Zenon
  <2>6. Placed(v, T, d, Q, o)
    BY <2>2, <2>3, <2>5, PlacedCut, Zenon
  <2>7. QED
    BY <2>4, <2>6
<1>7. QED
  BY <1>5, <1>6

(* An empty list of the current tick: nothing set is due now.              *)
LEMMA NoneNow ==
  ASSUME NEW w, NEW T \in Nat, NEW d \in [Timer -> Nat], NEW P \in SUBSET Timer, NEW o,
         Placed(w, T, d, P, o), w.near[T % TIME_NEAR] = <<>>, NEW x \in P
  PROVE  d[x] # T
<1>1. PICK L : L = w.near[T % TIME_NEAR] /\ L = <<>>
  OBVIOUS
<1>2. x \in Ids(L) <=> d[x] = T
  <2>1. PICK i : i = T % TIME_NEAR
    OBVIOUS
  <2>2. NearFacts(T, d, P, o, i, L)
    BY <1>1, <2>1, NearNow, Zenon
  <2>3. QED
    BY <2>2, Zenon DEF NearFacts
<1>3. x \notin Ids(L)
  BY <1>1 DEF Ids
<1>4. QED
  BY <1>2, <1>3

-----------------------------------------------------------------------------
(* The empty wheel.                                                        *)
LEMMA InitPlaced ==
  Init => TimerInv
<1>1. SUFFICES ASSUME Init PROVE TimerInv
  OBVIOUS
<1>2. PICK w : w = Wheel
  OBVIOUS
<1>3. w = [near |-> [i \in 0 .. TIME_NEAR - 1 |-> <<>>],
           t |-> [l \in 0 .. 3 |-> [i \in 0 .. TIME_LEVEL - 1 |-> <<>>]]]
  BY <1>1, <1>2 DEF Init, Wheel
<1>4. w \in WheelType
  BY <1>3 DEF WheelType
<1>5. ASSUME NEW s \in Slots PROVE ListAt(w, s) = <<>>
  <2>1. w.near = [i \in 0 .. TIME_NEAR - 1 |-> <<>>]
    BY <1>3
  <2>2. w.t = [l \in 0 .. 3 |-> [i \in 0 .. TIME_LEVEL - 1 |-> <<>>]]
    BY <1>3
  <2>3. CASE s[1] = 4
    <3>1. s[2] \in 0 .. TIME_NEAR - 1
      BY <2>3 DEF Slots
    <3>2. QED
      BY <2>1, <2>3, <3>1 DEF ListAt
  <2>4. CASE s[1] # 4
    <3>1. s[1] \in 0 .. 3 /\ s[2] \in 0 .. TIME_LEVEL - 1
      BY <2>4 DEF Slots
    <3>2. QED
      BY <2>2, <2>4, <3>1 DEF ListAt
  <2>5. QED
    BY <2>3, <2>4
<1>6. \A s \in Slots : ListOK(ListAt(w, s), s, ticks, due, {}, older)
  <2>1. <<>> \in Seq(Node) /\ 1 .. Len(<<>>) = {}
    OBVIOUS
  <2>2. QED
    BY <1>5, <2>1, Zenon DEF ListOK
<1>7. Placed(w, ticks, due, {}, older)
  BY <1>4, <1>6, Zenon DEF Placed
<1>8. Pending(due) = {}
  BY <1>1 DEF Init, Pending
<1>9. Placed(Wheel, ticks, due, Pending(due) \ Ids(current), older)
  <2>1. Pending(due) \ Ids(current) = {}
    BY <1>8, Zenon
  <2>2. QED
    BY <1>2, <1>7, <2>1, Zenon
<1>10. CurrentOK(current, ticks, due, older)
  BY <1>1 DEF Init, CurrentOK
<1>11. DueOK(ticks, due, pc)
  BY <1>8, Zenon DEF DueOK, Pending
<1>12. time = ticks % WRAP
  <2>1. PICK W \in Nat \ {0} : W = WRAP
    BY WrapNat
  <2>2. 0 % W = 0
    OBVIOUS
  <2>3. QED
    BY <1>1, <2>1, <2>2, Zenon DEF Init
<1>13. ticks \in Nat /\ todo \in 0 .. MaxDiff /\ due \in [Timer -> 0 .. MaxTicks]
       /\ pc = "idle" /\ current = <<>>
  BY <1>1, BoundAssumption DEF Init
<1>14. QED
  BY <1>9, <1>10, <1>11, <1>12, <1>13 DEF TimerInv

(* A service sets a timer.                                                 *)
LEMMA AddStep ==
  ASSUME TimerInv, NEW x \in Timer, NEW delay \in Delay, timer_add(x, delay)
  PROVE  TimerInv'
<1>1. PICK T \in Nat : T = ticks
  BY DEF TimerInv
<1>2. PICK D : D = T + delay
  OBVIOUS
<1>3. delay \in Nat /\ delay >= 1 /\ D \in Nat /\ Soon(D, T)
  BY <1>2, DelaySoon, Zenon
<1>4. D > T /\ D # 0
  BY <1>2, <1>3
<1>5. PICK d : d = due
  OBVIOUS
<1>6. PICK e : e = due'
  OBVIOUS
<1>7. d \in [Timer -> 0 .. MaxTicks] /\ d[x] = 0 /\ e = [d EXCEPT ![x] = D]
  BY <1>1, <1>2, <1>5, <1>6 DEF TimerInv, timer_add
<1>8. D \in 0 .. MaxTicks
  <2>1. ticks + todo + delay <= MaxTicks /\ todo \in Nat
    BY DEF timer_add, TimerInv
  <2>2. QED
    BY <1>1, <1>2, <1>3, <2>1, BoundAssumption
<1>9. e \in [Timer -> 0 .. MaxTicks] /\ e[x] = D /\ \A y \in Timer : y # x => e[y] = d[y]
  BY <1>7, <1>8
<1>10. e \in [Timer -> Nat]
  BY <1>9, DueNat
<1>11. PICK o : o = older
  OBVIOUS
<1>12. PICK o2 : o2 = older'
  OBVIOUS
<1>13. (\A p \in o : p \in o2) /\ \A y \in Pending(d) : <<y, x>> \in o2
  BY <1>5, <1>11, <1>12, Zenon DEF timer_add, Pending
<1>14. PICK c : c = current
  OBVIOUS
<1>15. c = current' /\ CurrentOK(c, T, d, o) /\ DueOK(T, d, pc)
  BY <1>1, <1>5, <1>11, <1>14 DEF timer_add, TimerInv
<1>16. PICK P \in SUBSET Timer : P = Pending(d) \ Ids(c)
  BY DEF Pending
<1>17. \A i \in 1 .. Len(c) : c[i].id \in Timer /\ c[i].id # x
  <2>1. c \in Seq(Node) /\ \A i \in 1 .. Len(c) : d[c[i].id] # 0
    BY <1>15 DEF CurrentOK
  <2>2. \A i \in 1 .. Len(c) : c[i] \in Node
    BY <2>1
  <2>3. \A n \in Node : n.id \in Timer
    BY DEF Node
  <2>4. QED
    BY <1>7, <2>1, <2>2, <2>3, Zenon
<1>18. CurrentOK(c, T, e, o2)
  <2>1. \A i \in 1 .. Len(c) : e[c[i].id] = d[c[i].id]
    BY <1>9, <1>17, Zenon
  <2>2. QED
    BY <1>13, <1>15, <2>1, ZenonT(60) DEF CurrentOK
<1>19. DueOK(T, e, pc)
  BY <1>3, <1>4, <1>9, <1>15, Zenon DEF DueOK
<1>20. x \notin P /\ Pending(e) \ Ids(c) = P \cup {x}
  <2>1. x \notin Pending(d)
    BY <1>7, Zenon DEF Pending
  <2>2. \A y : y \in Pending(e) <=> y \in Pending(d) \/ y = x
    <3>1. \A y : y \in Pending(e) <=> y \in Timer /\ e[y] # 0
      BY DEF Pending
    <3>2. \A y : y \in Pending(d) <=> y \in Timer /\ d[y] # 0
      BY DEF Pending
    <3>3. QED
      BY <1>4, <1>9, <3>1, <3>2, Zenon
  <2>3. x \notin Ids(c)
    BY <1>17, Zenon DEF Ids
  <2>4. \A y : y \in Pending(e) \ Ids(c) <=> y \in P \cup {x}
    BY <1>16, <2>2, <2>3, Zenon
  <2>5. Pending(e) \ Ids(c) = P \cup {x}
    BY <2>4, Zenon
  <2>6. QED
    BY <1>16, <2>1, <2>5, Zenon
<1>21. PICK w : w = Wheel
  OBVIOUS
<1>22. Placed(w, T, d, P, o)
  BY <1>1, <1>5, <1>11, <1>14, <1>16, <1>21 DEF TimerInv
<1>23. Placed(w, T, e, P, o2)
  <2>1. \A y \in P : e[y] = d[y]
    BY <1>9, <1>20, Zenon
  <2>2. \A y, z \in P : <<y, z>> \in o => <<y, z>> \in o2
    BY <1>13, Zenon
  <2>3. QED
    BY <1>22, <2>1, <2>2, PlacedAgree, Zenon
<1>24. PICK n : n = [id |-> x, expire |-> (time + delay) % WRAP]
  OBVIOUS
<1>25. n.id = x /\ n.expire = D % WRAP /\ n \in Node
  <2>1. time = T % WRAP
    BY <1>1 DEF TimerInv
  <2>2. (time + delay) % WRAP = D % WRAP
    BY <1>2, <1>3, <2>1, WrapAdd, Zenon
  <2>3. D % WRAP \in Nat
    BY <1>3, WrapNat, DivMod
  <2>4. QED
    BY <1>24, <2>2, <2>3 DEF Node
<1>26. PICK v : v = add_node(w, T % WRAP, n)
  OBVIOUS
<1>27. Placed(v, T, e, P \cup {x}, o2)
  <2>1. \A y \in P : e[y] = e[n.id] => <<y, n.id>> \in o2
    BY <1>13, <1>16, <1>25, Zenon
  <2>2. n.id \notin P /\ n.expire = e[n.id] % WRAP /\ Soon(e[n.id], T)
    BY <1>3, <1>9, <1>20, <1>25, Zenon
  <2>3. Placed(v, T, e, P \cup {n.id}, o2)
    BY <1>10, <1>23, <1>25, <1>26, <2>1, <2>2, PlacedAdd, Zenon
  <2>4. QED
    BY <1>25, <2>3, Zenon
<1>28. v = Wheel'
  <2>1. v \in WheelType
    BY <1>27 DEF Placed
  <2>2. time = T % WRAP
    BY <1>1 DEF TimerInv
  <2>3. SetWheel(v)
    BY <1>21, <1>24, <1>26, <2>2, Zenon DEF timer_add
  <2>4. near' = v.near /\ t' = v.t
    BY <2>3, Zenon DEF SetWheel
  <2>5. QED
    BY <2>1, <2>4 DEF WheelType, Wheel
<1>29. Placed(Wheel', T, e, Pending(e) \ Ids(c), o2)
  BY <1>20, <1>27, <1>28, Zenon
<1>30. /\ ticks' = T /\ time' = ticks' % WRAP /\ todo' \in 0 .. MaxDiff /\ pc' = pc
       /\ pc \in {"idle", "execute", "shifted", "dispatch"}
       /\ current' # <<>> <=> pc' = "dispatch"
  BY <1>1 DEF TimerInv, timer_add
<1>31. QED
  BY <1>1, <1>6, <1>9, <1>12, <1>15, <1>18, <1>19, <1>29, <1>30 DEF TimerInv

-----------------------------------------------------------------------------
(* The wheel is in order at a state that satisfies the invariant.          *)
LEMMA WheelNow ==
  ASSUME TimerInv
  PROVE  /\ ticks \in Nat /\ time = ticks % WRAP /\ due \in [Timer -> Nat]
         /\ time % TIME_NEAR = ticks % TIME_NEAR
         /\ near \in [0 .. TIME_NEAR - 1 -> Seq(Node)]
         /\ Wheel.near = near /\ Wheel.t = t
<1>1. ticks \in Nat /\ time = ticks % WRAP /\ due \in [Timer -> Nat]
  BY DueNat DEF TimerInv
<1>2. time % TIME_NEAR = ticks % TIME_NEAR
  BY <1>1, NearIndex, Zenon
<1>3. Wheel.near = near /\ Wheel.t = t
  BY DEF Wheel
<1>4. Wheel \in WheelType
  BY DEF TimerInv, Placed
<1>5. QED
  BY <1>1, <1>2, <1>3, <1>4 DEF WheelType

(* Before the shift, the list of the current tick is empty.                *)
LEMMA ExecuteFindsNothing ==
  ASSUME TimerInv, pc = "execute"
  PROVE  near[time % TIME_NEAR] = <<>>
<1>1. PICK T \in Nat : T = ticks
  BY WheelNow
<1>2. PICK d \in [Timer -> Nat] : d = due
  BY WheelNow
<1>3. PICK P \in SUBSET Timer : P = Pending(d) \ Ids(current)
  BY DEF Pending
<1>4. PICK w : w = Wheel
  OBVIOUS
<1>5. PICK o : o = older
  OBVIOUS
<1>6. Placed(w, T, d, P, o) /\ DueOK(T, d, "execute")
  BY <1>1, <1>2, <1>3, <1>4, <1>5 DEF TimerInv
<1>7. PICK i : i = T % TIME_NEAR
  OBVIOUS
<1>8. PICK L : L = w.near[i]
  OBVIOUS
<1>9. NearFacts(T, d, P, o, i, L)
  BY <1>6, <1>7, <1>8, NearNow, Zenon
<1>10. L = near[time % TIME_NEAR]
  BY <1>1, <1>4, <1>7, <1>8, WheelNow, Zenon
<1>11. SUFFICES ASSUME L # <<>> PROVE FALSE
  BY <1>10
<1>12. L \in Seq(Node)
  BY <1>9, Zenon DEF NearFacts, ListOK
<1>13. 1 \in 1 .. Len(L)
  BY <1>11, <1>12
<1>14. PICK x : x = L[1].id
  OBVIOUS
<1>15. x \in Ids(L)
  BY <1>13, <1>14, Zenon DEF Ids
<1>16. x \in P /\ d[x] = T
  BY <1>9, <1>15, Zenon DEF NearFacts
<1>17. d[x] > T
  BY <1>3, <1>6, <1>16, Zenon DEF DueOK, Pending
<1>18. QED
  BY <1>16, <1>17

LEMMA ExecuteStep ==
  ASSUME TimerInv, timer_execute
  PROVE  TimerInv'
<1>1. PICK T \in Nat : T = ticks
  BY WheelNow
<1>2. PICK d \in [Timer -> Nat] : d = due
  BY WheelNow
<1>3. PICK P \in SUBSET Timer : P = Pending(d)
  BY DEF Pending
<1>4. PICK w : w = Wheel
  OBVIOUS
<1>5. PICK o : o = older
  OBVIOUS
<1>6. pc = "shifted"
  BY ExecuteFindsNothing DEF timer_execute
<1>7. current = <<>>
  BY <1>6 DEF TimerInv
<1>8. Placed(w, T, d, P, o) /\ DueOK(T, d, "shifted")
  <2>1. Ids(current) = {}
    BY <1>7 DEF Ids
  <2>2. Pending(d) \ Ids(current) = P
    BY <1>3, <2>1, Zenon
  <2>3. Placed(w, T, d, Pending(d) \ Ids(current), o) /\ DueOK(T, d, "shifted")
    BY <1>1, <1>2, <1>4, <1>5, <1>6 DEF TimerInv
  <2>4. QED
    BY <2>2, <2>3, Zenon
<1>9. PICK i : i = T % TIME_NEAR
  OBVIOUS
<1>10. PICK L : L = w.near[i]
  OBVIOUS
<1>11. PICK v : v = [w EXCEPT !.near[i] = <<>>]
  OBVIOUS
<1>12. CurrentOK(L, T, d, o) /\ Placed(v, T, d, P \ Ids(L), o)
  BY <1>3, <1>8, <1>9, <1>10, <1>11, CutCurrent, Zenon
<1>13. i = time % TIME_NEAR /\ L = near[i] /\ w.near = near /\ w.t = t
  BY <1>1, <1>4, <1>9, <1>10, WheelNow, Zenon
<1>14. v = Wheel'
  <2>1. w = [near |-> near, t |-> t]
    BY <1>4 DEF Wheel
  <2>2. v = [near |-> [near EXCEPT ![i] = <<>>], t |-> t]
    BY <1>11, <2>1
  <2>3. near' = [near EXCEPT ![i] = <<>>] /\ t' = t
    BY <1>13 DEF timer_execute
  <2>4. QED
    BY <2>2, <2>3 DEF Wheel
<1>15. L = current' /\ L # <<>> /\ pc' = "dispatch"
  BY <1>6, <1>13 DEF timer_execute
<1>16. ticks' = T /\ time' = ticks' % WRAP /\ todo' \in 0 .. MaxDiff /\ due' = d /\ older' = o
       /\ due' \in [Timer -> 0 .. MaxTicks]
  BY <1>1, <1>2, <1>5 DEF timer_execute, TimerInv
<1>17. DueOK(T, d, "dispatch")
  BY <1>8 DEF DueOK
<1>18. Placed(Wheel', T, d, Pending(d) \ Ids(L), o)
  BY <1>3, <1>12, <1>14, Zenon
<1>19. QED
  BY <1>1, <1>12, <1>15, <1>16, <1>17, <1>18 DEF TimerInv

(* The oldest timer of the list is delivered.                              *)
LEMMA DispatchStep ==
  ASSUME TimerInv, dispatch_list
  PROVE  TimerInv'
<1>1. PICK T \in Nat : T = ticks
  BY WheelNow
<1>2. PICK d : d = due
  OBVIOUS
<1>3. PICK e : e = due'
  OBVIOUS
<1>4. PICK o : o = older
  OBVIOUS
<1>5. PICK o2 : o2 = older'
  OBVIOUS
<1>6. pc = "dispatch" /\ current # <<>>
  BY DEF TimerInv, dispatch_list
<1>7. PICK c : c = current
  OBVIOUS
<1>8. CurrentOK(c, T, d, o) /\ DueOK(T, d, "dispatch") /\ d \in [Timer -> 0 .. MaxTicks] /\ d \in [Timer -> Nat]
  BY <1>1, <1>2, <1>4, <1>6, <1>7, WheelNow DEF TimerInv
<1>9. c \in Seq(Node) /\ c # <<>> /\ Len(c) \in Nat /\ Len(c) >= 1 /\ 1 \in 1 .. Len(c)
  BY <1>6, <1>7, <1>8 DEF CurrentOK
<1>10. PICK u : u = Tail(c)
  OBVIOUS
<1>11. u \in Seq(Node) /\ Len(u) = Len(c) - 1 /\ \A i \in 1 .. Len(u) : i + 1 \in 1 .. Len(c) /\ u[i] = c[i + 1]
  BY <1>9, <1>10
<1>12. \A i \in 1 .. Len(c) : c[i].id \in Timer
  <2>1. \A i \in 1 .. Len(c) : c[i] \in Node
    BY <1>9
  <2>2. \A n \in Node : n.id \in Timer
    BY DEF Node
  <2>3. QED
    BY <2>1, <2>2, Zenon
<1>13. PICK x \in Timer : x = c[1].id
  BY <1>9, <1>12
<1>14. e = [d EXCEPT ![x] = 0] /\ o2 = {p \in o : x \notin {p[1], p[2]}} /\ u = current'
  BY <1>2, <1>3, <1>4, <1>5, <1>7, <1>10, <1>13 DEF dispatch_list
<1>15. e \in [Timer -> 0 .. MaxTicks] /\ e[x] = 0 /\ \A y \in Timer : y # x => e[y] = d[y]
  BY <1>8, <1>14, BoundAssumption
<1>16. \A y, z : y # x /\ z # x /\ <<y, z>> \in o => <<y, z>> \in o2
  BY <1>14
<1>17. \A i \in 1 .. Len(u) : u[i].id \in Timer /\ u[i].id # x
  <2>1. ASSUME NEW i \in 1 .. Len(u) PROVE u[i].id \in Timer /\ u[i].id # x
    <3>1. 1 < i + 1 /\ i + 1 \in 1 .. Len(c) /\ u[i] = c[i + 1]
      BY <1>11
    <3>2. c[1].id # c[i + 1].id
      BY <1>8, <1>9, <3>1, Zenon DEF CurrentOK
    <3>3. QED
      BY <1>12, <1>13, <3>1, <3>2, Zenon
  <2>2. QED
    BY <2>1
<1>18. CurrentOK(u, T, e, o2)
  <2>1. ASSUME NEW i \in 1 .. Len(u) PROVE e[u[i].id] # 0 /\ e[u[i].id] = T
    <3>1. i + 1 \in 1 .. Len(c) /\ u[i] = c[i + 1]
      BY <1>11
    <3>2. d[u[i].id] # 0 /\ d[u[i].id] = T
      BY <1>8, <3>1, Zenon DEF CurrentOK
    <3>3. QED
      BY <1>15, <1>17, <3>2, Zenon
  <2>2. ASSUME NEW i \in 1 .. Len(u), NEW j \in 1 .. Len(u), i < j
        PROVE  u[i].id # u[j].id /\ <<u[i].id, u[j].id>> \in o2
    <3>1. i + 1 \in 1 .. Len(c) /\ u[i] = c[i + 1] /\ j + 1 \in 1 .. Len(c) /\ u[j] = c[j + 1]
      BY <1>11
    <3>2. i + 1 < j + 1
      BY <2>2
    <3>3. u[i].id # u[j].id /\ <<u[i].id, u[j].id>> \in o
      BY <1>8, <3>1, <3>2, Zenon DEF CurrentOK
    <3>4. QED
      BY <1>16, <1>17, <3>3, Zenon
  <2>3. QED
    BY <1>11, <2>1, <2>2, Zenon DEF CurrentOK
<1>19. DueOK(T, e, "dispatch") /\ DueOK(T, e, "shifted")
  <2>1. "dispatch" \notin {"idle", "execute"} /\ "shifted" \notin {"idle", "execute"}
    OBVIOUS
  <2>2. QED
    BY <1>8, <1>15, <2>1, Zenon DEF DueOK
<1>20. PICK P \in SUBSET Timer : P = Pending(d) \ Ids(c)
  BY DEF Pending
<1>21. x \notin P /\ Pending(e) \ Ids(u) = P
  <2>1. x \in Ids(c)
    BY <1>9, <1>13, Zenon DEF Ids
  <2>2. \A y : y \in Pending(e) <=> y \in Pending(d) /\ y # x
    <3>1. \A y : y \in Pending(e) <=> y \in Timer /\ e[y] # 0
      BY DEF Pending
    <3>2. \A y : y \in Pending(d) <=> y \in Timer /\ d[y] # 0
      BY DEF Pending
    <3>3. QED
      BY <1>15, <3>1, <3>2, Zenon
  <2>3. \A y : y # x => (y \in Ids(u) <=> y \in Ids(c))
    <3>1. ASSUME NEW y \in Ids(u) PROVE y \in Ids(c)
      <4>1. PICK i \in 1 .. Len(u) : y = u[i].id
        BY DEF Ids
      <4>2. i + 1 \in 1 .. Len(c) /\ u[i] = c[i + 1]
        BY <1>11
      <4>3. QED
        BY <4>1, <4>2, Zenon DEF Ids
    <3>2. ASSUME NEW y \in Ids(c), y # x PROVE y \in Ids(u)
      <4>1. PICK i \in 1 .. Len(c) : y = c[i].id
        BY DEF Ids
      <4>2. i # 1
        BY <1>13, <3>2, <4>1
      <4>3. PICK k \in 1 .. Len(u) : i = k + 1
        <5>1. i - 1 \in 1 .. Len(u) /\ i = (i - 1) + 1
          BY <1>9, <1>11, <4>2
        <5>2. QED
          BY <5>1
      <4>4. y = u[k].id
        BY <1>11, <4>1, <4>3, Zenon
      <4>5. QED
        BY <4>4, Zenon DEF Ids
    <3>3. QED
      BY <3>1, <3>2, Zenon
  <2>4. \A y : y \in Pending(e) \ Ids(u) <=> y \in P
    BY <1>20, <2>1, <2>2, <2>3, Zenon
  <2>5. Pending(e) \ Ids(u) = P
    BY <2>4, Zenon
  <2>6. QED
    BY <1>20, <2>1, <2>5, Zenon
<1>22. PICK w : w = Wheel
  OBVIOUS
<1>23. w = Wheel'
  BY <1>22 DEF Wheel, dispatch_list
<1>24. Placed(w, T, d, P, o)
  BY <1>1, <1>2, <1>4, <1>7, <1>20, <1>22 DEF TimerInv
<1>25. Placed(w, T, e, P, o2)
  <2>1. \A y \in P : e[y] = d[y]
    BY <1>15, <1>21, Zenon
  <2>2. \A y, z \in P : <<y, z>> \in o => <<y, z>> \in o2
    BY <1>16, <1>21, Zenon
  <2>3. QED
    BY <1>24, <2>1, <2>2, PlacedAgree, Zenon
<1>26. Placed(Wheel', T, e, Pending(e) \ Ids(u), o2)
  BY <1>21, <1>23, <1>25, Zenon
<1>27. u # <<>> <=> Len(c) > 1
  BY <1>9, <1>11
<1>28. /\ ticks' = T /\ time' = ticks' % WRAP /\ todo' \in 0 .. MaxDiff
       /\ pc' = IF Len(c) > 1 THEN "dispatch" ELSE "shifted"
  BY <1>1, <1>6, <1>7 DEF dispatch_list, TimerInv
<1>29. DueOK(T, e, pc') /\ pc' \in {"shifted", "dispatch"} /\ (u # <<>> <=> pc' = "dispatch")
  BY <1>19, <1>27, <1>28
<1>30. QED
  BY <1>1, <1>3, <1>5, <1>14, <1>15, <1>18, <1>26, <1>28, <1>29 DEF TimerInv

-----------------------------------------------------------------------------
(* The clock advances and one list cascades.                               *)
LEMMA ShiftStep ==
  ASSUME TimerInv, Shift
  PROVE  TimerInv'
<1>1. PICK T \in Nat : T = ticks
  BY WheelNow
<1>2. PICK S \in Nat : S = T + 1
  OBVIOUS
<1>3. PICK d \in [Timer -> Nat] : d = due
  BY WheelNow
<1>4. PICK o : o = older
  OBVIOUS
<1>5. PICK P \in SUBSET Timer : P = Pending(d) \ Ids(current)
  BY DEF Pending
<1>6. PICK w : w = Wheel
  OBVIOUS
<1>7. Placed(w, T, d, P, o) /\ DueOK(T, d, "execute")
  BY <1>1, <1>3, <1>4, <1>5, <1>6 DEF TimerInv, Shift
<1>8. \A x \in P : d[x] > T /\ Soon(d[x], T)
  BY <1>5, <1>7, Zenon DEF DueOK, Pending
<1>9. PICK v : v = timer_shift(w, S % WRAP)
  OBVIOUS
<1>10. Placed(v, S, d, P, o)
  BY <1>2, <1>7, <1>8, <1>9, ShiftPlaced, Zenon
<1>11. (time + 1) % WRAP = S % WRAP
  <2>1. time = T % WRAP
    BY <1>1, WheelNow, Zenon
  <2>2. 1 \in Nat
    OBVIOUS
  <2>3. QED
    BY <1>2, <2>1, <2>2, WrapAdd, Zenon
<1>12. v = Wheel'
  <2>1. v \in WheelType
    BY <1>10 DEF Placed
  <2>2. SetWheel(v)
    BY <1>6, <1>9, <1>11, Zenon DEF Shift
  <2>3. near' = v.near /\ t' = v.t
    BY <2>2, Zenon DEF SetWheel
  <2>4. QED
    BY <2>1, <2>3 DEF WheelType, Wheel
<1>13. DueOK(S, d, "shifted")
  <2>1. ASSUME NEW x \in Timer, d[x] # 0 PROVE Soon(d[x], S)
    <3>1. PICK D \in Nat : D = d[x]
      OBVIOUS
    <3>2. D > T /\ Soon(D, T)
      BY <1>7, <2>1, <3>1, Zenon DEF DueOK
    <3>3. Soon(D, S)
      BY <1>2, <3>2, SoonNext, Zenon
    <3>4. QED
      BY <3>1, <3>3
  <2>2. "shifted" \notin {"idle", "execute"}
    OBVIOUS
  <2>3. QED
    BY <2>1, <2>2, Zenon DEF DueOK
<1>14. /\ ticks' = S /\ time' = S % WRAP /\ todo' \in 0 .. MaxDiff /\ due' = d /\ older' = o
       /\ due' \in [Timer -> 0 .. MaxTicks] /\ pc' = "shifted" /\ current' = current /\ current = <<>>
  <2>1. time' = S % WRAP
    BY <1>11, Zenon DEF Shift
  <2>2. QED
    BY <1>1, <1>2, <1>3, <1>4, <2>1 DEF Shift, TimerInv
<1>15. CurrentOK(current', S, d, o)
  BY <1>14 DEF CurrentOK
<1>16. Placed(Wheel', S, d, Pending(d) \ Ids(current'), o)
  BY <1>5, <1>10, <1>12, <1>14, Zenon
<1>17. QED
  BY <1>13, <1>14, <1>15, <1>16 DEF TimerInv

(* The update ends when nothing is due at the new tick.                    *)
LEMMA DoneStep ==
  ASSUME TimerInv, UpdateDone
  PROVE  TimerInv'
<1>1. PICK T \in Nat : T = ticks
  BY WheelNow
<1>2. PICK d \in [Timer -> Nat] : d = due
  BY WheelNow
<1>3. PICK o : o = older
  OBVIOUS
<1>4. current = <<>>
  BY DEF TimerInv, UpdateDone
<1>5. PICK P \in SUBSET Timer : P = Pending(d) \ Ids(current)
  BY DEF Pending
<1>6. P = Pending(d)
  <2>1. Ids(current) = {}
    BY <1>4 DEF Ids
  <2>2. QED
    BY <1>5, <2>1, Zenon
<1>7. PICK w : w = Wheel
  OBVIOUS
<1>8. Placed(w, T, d, P, o) /\ DueOK(T, d, "shifted")
  BY <1>1, <1>2, <1>3, <1>5, <1>7 DEF TimerInv, UpdateDone
<1>9. w.near[T % TIME_NEAR] = <<>>
  BY <1>1, <1>7, WheelNow, Zenon DEF UpdateDone
<1>10. DueOK(T, d, "idle")
  <2>1. ASSUME NEW x \in Timer, d[x] # 0 PROVE Soon(d[x], T) /\ d[x] > T
    <3>1. Soon(d[x], T)
      BY <1>8, <2>1, Zenon DEF DueOK
    <3>2. x \in P
      BY <1>6, <2>1, Zenon DEF Pending
    <3>3. d[x] # T
      BY <1>8, <1>9, <3>2, NoneNow, Zenon
    <3>4. T <= d[x]
      BY <3>1, Zenon DEF Soon
    <3>5. QED
      BY <3>1, <3>3, <3>4
  <2>2. QED
    BY <2>1, Zenon DEF DueOK
<1>11. Wheel' = w
  BY <1>7 DEF Wheel, UpdateDone
<1>12. QED
  BY <1>1, <1>2, <1>3, <1>4, <1>5, <1>8, <1>10, <1>11 DEF TimerInv, UpdateDone

(* The steps that leave the wheel alone.                                   *)
LEMMA PassStep ==
  ASSUME TimerInv,
         UNCHANGED <<time, near, t, current, ticks, due, older>>,
         todo' \in 0 .. MaxDiff,
         pc' = pc \/ (pc = "idle" /\ pc' = "execute")
  PROVE  TimerInv'
<1>1. Wheel' = Wheel
  BY DEF Wheel
<1>2. DueOK(ticks, due, pc')
  BY DEF TimerInv, DueOK
<1>3. (pc' \in {"idle", "execute", "shifted", "dispatch"}) /\ (pc' = "dispatch" <=> pc = "dispatch")
  BY DEF TimerInv
<1>4. QED
  BY <1>1, <1>2, <1>3 DEF TimerInv

(* Every step of the timer thread and of the services keeps the wheel in   *)
(* order, whatever the sizes of its blocks and the delays asked for.       *)
THEOREM WheelInOrder == Spec => []TimerInv
<1>1. Init => TimerInv
  BY InitPlaced
<1>2. TimerInv /\ [Next]_vars => TimerInv'
  <2>1. SUFFICES ASSUME TimerInv, [Next]_vars PROVE TimerInv'
    OBVIOUS
  <2>2. CASE \E x \in Timer, d \in Delay : timer_add(x, d)
    BY <2>1, <2>2, AddStep
  <2>3. CASE skynet_updatetime
    <3>1. todo' \in 0 .. MaxDiff /\ pc' = pc
      BY <2>3, BoundAssumption DEF skynet_updatetime
    <3>2. QED
      BY <2>1, <2>3, <3>1, PassStep DEF skynet_updatetime
  <2>4. CASE timer_update
    <3>1. todo' \in 0 .. MaxDiff /\ pc = "idle" /\ pc' = "execute"
      BY <2>1, <2>4, BoundAssumption DEF timer_update, TimerInv
    <3>2. QED
      BY <2>1, <2>4, <3>1, PassStep DEF timer_update
  <2>5. CASE timer_execute
    BY <2>1, <2>5, ExecuteStep
  <2>6. CASE dispatch_list
    BY <2>1, <2>6, DispatchStep
  <2>7. CASE Shift
    BY <2>1, <2>7, ShiftStep
  <2>8. CASE UpdateDone
    BY <2>1, <2>8, DoneStep
  <2>9. CASE UNCHANGED vars
    <3>1. todo' \in 0 .. MaxDiff /\ pc' = pc
      BY <2>1, <2>9 DEF vars, TimerInv
    <3>2. QED
      BY <2>1, <2>9, <3>1, PassStep DEF vars
  <2>10. QED
    BY <2>1, <2>2, <2>3, <2>4, <2>5, <2>6, <2>7, <2>8, <2>9 DEF Next
<1>3. QED
  BY <1>1, <1>2, PTL DEF Spec

-----------------------------------------------------------------------------
(* The lists of the wheel are the lists of the slots.                      *)
LEMMA ListOfSlot ==
  ASSUME TimerInv, NEW list \in Lists
  PROVE  list = current \/ \E s \in Slots : list = ListAt(Wheel, s)
<1>1. near \in [0 .. TIME_NEAR - 1 -> Seq(Node)] /\ Wheel.near = near /\ Wheel.t = t
  BY WheelNow
<1>2. CASE list \in {near[i] : i \in DOMAIN near}
  <2>1. PICK i \in 0 .. TIME_NEAR - 1 : list = near[i]
    BY <1>1, <1>2
  <2>2. <<4, i>> \in Slots
    BY NearSlot
  <2>3. ListAt(Wheel, <<4, i>>) = near[i]
    BY <1>1 DEF ListAt
  <2>4. QED
    BY <2>1, <2>2, <2>3
<1>3. CASE list \in {t[l][i] : l \in 0 .. 3, i \in 0 .. TIME_LEVEL - 1}
  <2>1. PICK l \in 0 .. 3, i \in 0 .. TIME_LEVEL - 1 : list = t[l][i]
    BY <1>3
  <2>2. <<l, i>> \in Slots
    BY DEF Slots
  <2>3. ListAt(Wheel, <<l, i>>) = t[l][i]
    BY <1>1 DEF ListAt
  <2>4. QED
    BY <2>1, <2>2, <2>3
<1>4. QED
  BY <1>2, <1>3 DEF Lists

LEMMA SlotOfList ==
  ASSUME TimerInv, NEW s \in Slots
  PROVE  ListAt(Wheel, s) \in Lists
<1>1. near \in [0 .. TIME_NEAR - 1 -> Seq(Node)] /\ Wheel.near = near /\ Wheel.t = t
  BY WheelNow
<1>2. CASE s[1] = 4
  <2>1. PICK i \in 0 .. TIME_NEAR - 1 : i = s[2]
    BY <1>2 DEF Slots
  <2>2. ListAt(Wheel, s) = near[i]
    BY <1>1, <1>2, <2>1 DEF ListAt
  <2>3. QED
    BY <1>1, <2>2 DEF Lists
<1>3. CASE s[1] # 4
  <2>1. PICK l \in 0 .. 3, i \in 0 .. TIME_LEVEL - 1 : l = s[1] /\ i = s[2]
    BY <1>3 DEF Slots
  <2>2. ListAt(Wheel, s) = t[l][i]
    BY <1>1, <1>3, <2>1 DEF ListAt
  <2>3. QED
    BY <2>2 DEF Lists
<1>4. QED
  BY <1>2, <1>3

LEMMA InvOnTime ==
  TimerInv => FiresOnTime
<1>1. SUFFICES ASSUME TimerInv PROVE FiresOnTime
  OBVIOUS
<1>2. PICK T \in Nat : T = ticks
  BY <1>1, WheelNow
<1>3. PICK d \in [Timer -> Nat] : d = due
  BY <1>1, WheelNow
<1>4. PICK c : c = current
  OBVIOUS
<1>5. PICK P \in SUBSET Timer : P = Pending(d) \ Ids(c)
  BY DEF Pending
<1>6. PICK w : w = Wheel
  OBVIOUS
<1>7. PICK o : o = older
  OBVIOUS
<1>8. CurrentOK(c, T, d, o) /\ DueOK(T, d, pc) /\ Placed(w, T, d, P, o)
  BY <1>1, <1>2, <1>3, <1>4, <1>5, <1>6, <1>7 DEF TimerInv
<1>9. c \in Seq(Node) /\ DOMAIN c = 1 .. Len(c)
  BY <1>8 DEF CurrentOK
<1>10. \A i \in DOMAIN c : c[i].id \in Timer /\ d[c[i].id] # 0 /\ d[c[i].id] = T
  <2>1. \A i \in 1 .. Len(c) : c[i] \in Node
    BY <1>9
  <2>2. \A n \in Node : n.id \in Timer
    BY DEF Node
  <2>3. QED
    BY <1>8, <1>9, <2>1, <2>2, Zenon DEF CurrentOK
<1>11. ASSUME NEW list \in Lists, NEW i \in DOMAIN list PROVE list[i].id \in Timer /\ d[list[i].id] # 0
  <2>1. CASE list = current
    BY <1>4, <1>10, <1>11, <2>1, Zenon
  <2>2. CASE \E s \in Slots : list = ListAt(Wheel, s)
    <3>1. PICK s \in Slots : list = ListAt(w, s)
      BY <1>6, <2>2
    <3>2. ListOK(list, s, T, d, P, o)
      BY <1>8, <3>1, Zenon DEF Placed
    <3>3. list \in Seq(Node)
      BY <3>2 DEF ListOK
    <3>4. i \in 1 .. Len(list)
      BY <3>3
    <3>5. list[i].id \in P
      BY <3>2, <3>4, Zenon DEF ListOK, NodeOK
    <3>6. QED
      BY <1>5, <3>5, Zenon DEF Pending
  <2>3. QED
    BY <1>1, <2>1, <2>2, ListOfSlot
<1>12. time \in 0 .. WRAP - 1 /\ time = ticks % WRAP
  BY <1>1, WheelNow, WrapAdd, Zenon
<1>13. TypeOK
  <2>1. todo \in 0 .. MaxDiff /\ due \in [Timer -> 0 .. MaxTicks]
    BY <1>1 DEF TimerInv
  <2>2. QED
    BY <1>3, <1>11, <1>12, <2>1, Zenon DEF TypeOK
<1>14. ASSUME NEW x \in Timer, d[x] # 0
       PROVE  \E list \in Lists : \E i \in DOMAIN list : list[i].id = x
  <2>1. CASE x \in Ids(c)
    <3>1. PICK i \in DOMAIN c : c[i].id = x
      BY <1>9, <2>1 DEF Ids
    <3>2. c \in Lists
      BY <1>4 DEF Lists
    <3>3. QED
      BY <3>1, <3>2
  <2>2. CASE x \notin Ids(c)
    <3>1. x \in P
      BY <1>5, <1>14, <2>2, Zenon DEF Pending
    <3>2. PICK s : s = Slot(d[x], T)
      OBVIOUS
    <3>3. s \in Slots
      <4>1. d[x] \in Nat
        OBVIOUS
      <4>2. QED
        BY <3>2, <4>1, SlotIn, Zenon
    <3>4. PICK L : L = ListAt(w, s)
      OBVIOUS
    <3>5. Found(L, x) /\ ListOK(L, s, T, d, P, o)
      BY <1>8, <3>1, <3>2, <3>3, <3>4, Zenon DEF Placed
    <3>6. L \in Seq(Node)
      BY <3>5 DEF ListOK
    <3>7. PICK i \in 1 .. Len(L) : L[i].id = x
      BY <3>5 DEF Found
    <3>8. i \in DOMAIN L
      BY <3>6
    <3>9. L \in Lists
      BY <1>1, <1>6, <3>3, <3>4, SlotOfList
    <3>10. QED
      BY <3>7, <3>8, <3>9
  <2>3. QED
    BY <2>1, <2>2
<1>15. ASSUME NEW x \in Timer, d[x] # 0
       PROVE  d[x] >= T /\ (pc = "idle" => d[x] > T)
  <2>1. Soon(d[x], T) /\ (pc = "idle" => d[x] > T)
    BY <1>8, <1>15, Zenon DEF DueOK
  <2>2. T <= d[x]
    BY <2>1, Zenon DEF Soon
  <2>3. QED
    BY <2>1, <2>2
<1>16. QED
  BY <1>2, <1>3, <1>4, <1>10, <1>13, <1>14, <1>15, Zenon DEF FiresOnTime

(* A timer is delivered exactly at the tick it was set for, and until then *)
(* it is in the wheel: for every TIME_NEAR and TIME_LEVEL, through every   *)
(* cascade of timer_shift and every wrap of the clock, with services that  *)
(* set timers while dispatch_list has given the lock away.                 *)
THEOREM TimersFireOnTime == Spec => []FiresOnTime
<1>1. QED
  BY WheelInOrder, InvOnTime, PTL

(* Timers of one tick are delivered in the order in which they were set,   *)
(* whichever lists of the wheel they have waited in.                       *)
THEOREM SameTickKeepsOrder == Spec => []SameTickInOrder
<1>1. TimerInv => SameTickInOrder
  <2>1. SUFFICES ASSUME TimerInv PROVE SameTickInOrder
    OBVIOUS
  <2>2. CurrentOK(current, ticks, due, older)
    BY <2>1 DEF TimerInv
  <2>3. current \in Seq(Node) /\ DOMAIN current = 1 .. Len(current)
    BY <2>2 DEF CurrentOK
  <2>4. QED
    BY <2>2, <2>3, Zenon DEF CurrentOK, SameTickInOrder
<1>2. QED
  BY <1>1, WheelInOrder, PTL
=============================================================================
