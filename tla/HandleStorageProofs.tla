------------------------- MODULE HandleStorageProofs -------------------------
(***************************************************************************)
(* Proofs about skynet-src/skynet_handle.c: a launched service is found by *)
(* its handle through every growth of the table and wrap of the index,     *)
(* skynet_handle_retireall misses nobody, and skynet_handle_findname finds *)
(* exactly the names given, for every size of table and handle space.      *)
(***************************************************************************)
EXTENDS HandleStorage, FiniteSetTheorems, WellFoundedInduction, TLAPS

Handles == 0 .. 2 * HANDLE_SPACE - 1

Sweeps == [at : {"idle", "read", "retire", "done"}, i : Nat, n : Nat,
           handle : Handles, must : SUBSET Ctx]

(* The types.  The table's size divides the handle space, so that a handle *)
(* selects the slot its low bits select, with the harbor's bits or without.*)
TableTypes ==
  /\ slot_size \in DEFAULT_SLOT_SIZE .. HANDLE_SPACE /\ HANDLE_SPACE % slot_size = 0
  /\ slot \in [0 .. slot_size - 1 -> Ctx \cup {NULL}]
  /\ handle_index \in 1 .. HANDLE_SPACE
  /\ handle \in [Ctx -> Handles] /\ stale \in Handles /\ asserted \in BOOLEAN
  /\ sweep \in Sweeps

(* A handle on its way to its context leads to it already, and the context *)
(* has none yet.                                                           *)
PendingInv ==
  /\ IsFiniteSet(DOMAIN pending) /\ DOMAIN pending \subseteq Ctx
  /\ \A c \in DOMAIN pending :
       pending[c] \in Handles /\ handle[c] = 0 /\ slot[pending[c] % slot_size] = c

(* A context is in the slot that its handle selects.                       *)
Its(c) == IF c \in DOMAIN pending THEN pending[c] ELSE handle[c]

PlaceInv == \A i \in 0 .. slot_size - 1 : slot[i] # NULL => Its(slot[i]) % slot_size = i

(* The inductive invariant of the table, when one launch at a time is      *)
(* between its registration and the store of its handle.                   *)
HandleInv == TableTypes /\ PendingInv /\ PlaceInv /\ ~asserted

(* What a sweep has yet to retire is running and ahead of it, or in the    *)
(* slot it has read.                                                       *)
SweepInv ==
  /\ \A c \in Registered : Its(c) # 0
  /\ sweep.must \subseteq Running
  /\ sweep.at \in {"idle", "done"} => sweep.must = {}
  /\ \A c \in sweep.must : handle[c] % slot_size >= sweep.i
  /\ sweep.at = "retire" =>
       \A c \in sweep.must : handle[c] % slot_size = sweep.i => sweep.handle = handle[c]

-----------------------------------------------------------------------------
(* Remainders.                                                             *)

LEMMA ModDef ==
  ASSUME NEW a \in Nat, NEW n \in Nat, n > 0
  PROVE  a % n \in 0 .. n - 1 /\ \E d \in Int : a = d * n + (a % n)
<1>1. a % n \in 0 .. n - 1 /\ a \div n \in Int /\ a = n * (a \div n) + (a % n)
  <2>1. a % n \in 0 .. n - 1
    OBVIOUS
  <2>2. a \div n \in Int
    OBVIOUS
  <2>3. a = n * (a \div n) + (a % n)
    OBVIOUS
  <2>4. QED
    BY <2>1, <2>2, <2>3
<1>2. n * (a \div n) = (a \div n) * n
  BY <1>1
<1>3. QED
  BY <1>1, <1>2

LEMMA ModUnique ==
  ASSUME NEW n \in Nat, n > 0, NEW d \in Int, NEW e \in Int,
         NEW r \in 0 .. n - 1, NEW t \in 0 .. n - 1, d * n + r = e * n + t
  PROVE  r = t
<1>1. CASE d = e
  BY <1>1
<1>2. CASE d < e
  <2>1. PICK f \in Nat : e = d + 1 + f
    <3>1. e - d - 1 \in Nat /\ e = d + 1 + (e - d - 1)
      BY <1>2
    <3>2. QED
      BY <3>1
  <2>2. e * n = d * n + n + f * n
    BY <2>1
  <2>3. f * n >= 0 /\ d * n \in Int /\ f * n \in Int
    OBVIOUS
  <2>4. QED
    BY <2>2, <2>3
<1>3. CASE e < d
  <2>1. PICK f \in Nat : d = e + 1 + f
    <3>1. d - e - 1 \in Nat /\ d = e + 1 + (d - e - 1)
      BY <1>3
    <3>2. QED
      BY <3>1
  <2>2. d * n = e * n + n + f * n
    BY <2>1
  <2>3. f * n >= 0 /\ e * n \in Int /\ f * n \in Int
    OBVIOUS
  <2>4. QED
    BY <2>2, <2>3
<1>4. QED
  BY <1>1, <1>2, <1>3

(* Adding a multiple changes no remainder.                                 *)
LEMMA ModAdd ==
  ASSUME NEW a \in Nat, NEW n \in Nat, n > 0, NEW q \in Int, a + q * n \in Nat
  PROVE  (a + q * n) % n = a % n
<1>1. PICK d \in Int : a = d * n + (a % n)
  BY ModDef
<1>2. a % n \in 0 .. n - 1
  BY ModDef
<1>3. q * n \in Int /\ a + q * n \in Nat
  OBVIOUS
<1>4. PICK e \in Int : a + q * n = e * n + ((a + q * n) % n)
  BY <1>3, ModDef
<1>5. (a + q * n) % n \in 0 .. n - 1
  BY <1>3, ModDef
<1>6. a + q * n = (d + q) * n + (a % n)
  <2>1. (d + q) * n = d * n + q * n
    OBVIOUS
  <2>2. PICK x \in Int, y \in Int, r \in Int : x = d * n /\ y = q * n /\ r = a % n
    BY <1>2
  <2>3. a = x + r /\ (d + q) * n = x + y
    BY <1>1, <1>2, <2>1, <2>2
  <2>4. a + y = (x + y) + r
    BY <2>2, <2>3
  <2>5. QED
    BY <1>2, <2>2, <2>3, <2>4
<1>7. PICK f \in Int : f = d + q
  OBVIOUS
<1>8. PICK r \in 0 .. n - 1, t \in 0 .. n - 1 : r = a % n /\ t = (a + q * n) % n
  BY <1>2, <1>5
<1>9. f * n + r = e * n + t
  BY <1>4, <1>6, <1>7, <1>8
<1>10. r = t
  BY <1>9, ModUnique
<1>11. QED
  BY <1>8, <1>10

(* The remainder by a multiple has the same remainder.                     *)
LEMMA ModMod ==
  ASSUME NEW a \in Nat, NEW n \in Nat, n > 0, NEW m \in Nat, m > 0, m % n = 0
  PROVE  (a % m) % n = a % n
<1>1. PICK q \in Int : m = q * n + 0
  BY ModDef
<1>2. PICK d \in Int : a = d * m + (a % m)
  BY ModDef
<1>3. PICK b \in Nat : b = a % m
  BY ModDef
<1>4. d * m = (d * q) * n /\ d * q \in Int
  <2>1. m = q * n
    BY <1>1
  <2>2. d * (q * n) = (d * q) * n
    OBVIOUS
  <2>3. d * q \in Int
    OBVIOUS
  <2>4. QED
    BY <2>1, <2>2, <2>3
<1>5. a = b + (d * q) * n
  <2>1. a = d * m + b
    BY <1>2, <1>3
  <2>2. PICK x \in Int : x = d * m
    OBVIOUS
  <2>3. a = b + x
    BY <2>1, <2>2
  <2>4. QED
    BY <1>4, <2>2, <2>3
<1>6. (b + (d * q) * n) % n = b % n
  <2>1. PICK k \in Int : k = d * q
    BY <1>4
  <2>2. b + k * n \in Nat
    BY <1>5, <2>1
  <2>3. (b + k * n) % n = b % n
    BY <2>2, ModAdd
  <2>4. QED
    BY <2>1, <2>3
<1>7. QED
  BY <1>3, <1>5, <1>6

(* From any start the next n numbers reach every remainder by n.           *)
LEMMA ModReaches ==
  ASSUME NEW n \in Nat, n > 0, NEW k \in 0 .. n - 1, NEW h \in Nat
  PROVE  \E i \in 0 .. n - 1 : (i + h) % n = k
<1>1. PICK d \in Int : h = d * n + (h % n)
  BY ModDef
<1>2. PICK r \in 0 .. n - 1 : r = h % n
  BY ModDef
<1>3. k % n = k
  OBVIOUS
<1>4. CASE k >= r
  <2>1. PICK i \in 0 .. n - 1 : i = k - r
    BY <1>4
  <2>2. i + h = k + d * n
    <3>1. PICK x \in Int : x = d * n
      OBVIOUS
    <3>2. h = x + r
      BY <1>1, <1>2, <3>1
    <3>3. QED
      BY <2>1, <3>1, <3>2
  <2>3. (k + d * n) % n = k % n
    <3>1. k \in Nat /\ i + h \in Nat
      OBVIOUS
    <3>2. k + d * n \in Nat
      BY <2>2, <3>1
    <3>3. QED
      BY <3>1, <3>2, ModAdd
  <2>4. QED
    BY <1>3, <2>2, <2>3
<1>5. CASE k < r
  <2>1. PICK i \in 0 .. n - 1 : i = k - r + n
    BY <1>5
  <2>2. PICK e \in Int : e = d + 1
    OBVIOUS
  <2>3. i + h = k + e * n
    <3>1. PICK x \in Int : x = d * n
      OBVIOUS
    <3>2. h = x + r
      BY <1>1, <1>2, <3>1
    <3>3. e * n = x + n
      BY <2>2, <3>1
    <3>4. QED
      BY <2>1, <3>2, <3>3
  <2>4. (k + e * n) % n = k % n
    <3>1. k \in Nat /\ i + h \in Nat
      OBVIOUS
    <3>2. k + e * n \in Nat
      BY <2>3, <3>1
    <3>3. QED
      BY <3>1, <3>2, ModAdd
  <2>5. QED
    BY <1>3, <2>3, <2>4
<1>6. QED
  BY <1>4, <1>5

(* Half the modulus has the same remainder.                                *)
LEMMA ModHalf ==
  ASSUME NEW h \in Nat, NEW n \in Nat, n > 0
  PROVE  /\ (h % (2 * n)) % n = h % n /\ h % (2 * n) \in 0 .. 2 * n - 1
         /\ h % (2 * n) \in {h % n, (h % n) + n}
<1>1. PICK m \in Nat : m = 2 * n /\ m > 0
  OBVIOUS
<1>2. m % n = 0
  <2>1. 0 + 2 * n \in Nat /\ (0 + 2 * n) % n = 0 % n
    BY ModAdd
  <2>2. 0 % n = 0
    OBVIOUS
  <2>3. QED
    BY <1>1, <2>1, <2>2
<1>3. (h % m) % n = h % n
  BY <1>1, <1>2, ModMod
<1>4. PICK k \in 0 .. m - 1 : k = h % m
  BY <1>1, ModDef
<1>5. k \in {k % n, (k % n) + n}
  <2>1. CASE k < n
    <3>1. k % n = k
      BY <1>1, <2>1
    <3>2. QED
      BY <3>1
  <2>2. CASE k >= n
    <3>1. PICK j \in 0 .. n - 1 : j = k - n
      BY <1>1, <2>2
    <3>2. (j + 1 * n) % n = j % n
      BY ModAdd
    <3>3. j % n = j /\ k = j + 1 * n
      BY <3>1
    <3>4. QED
      BY <3>1, <3>2, <3>3
  <2>3. QED
    BY <2>1, <2>2
<1>6. QED
  BY <1>1, <1>3, <1>4, <1>5

LEMMA LeastNat ==
  ASSUME NEW S \in SUBSET Nat, S # {}
  PROVE  \E x \in S : \A y \in S : x <= y
<1> DEFINE R == {ss \in Nat \X Nat : ss[1] < ss[2]}
<1>1. IsWellFoundedOn(R, Nat)
  BY NatLessThanWellFounded DEF OpToRel
<1>2. PICK x \in S : \A y \in S : <<y, x>> \notin R
  <2> HIDE DEF R
  <2> QED BY <1>1, WFMin
<1>3. ASSUME NEW y \in S
      PROVE  x <= y
  <2>1. <<y, x>> \in Nat \X Nat /\ x \in Nat /\ y \in Nat
    OBVIOUS
  <2>2. ~ (y < x)
    BY <1>2, <2>1
  <2>3. QED
    BY <2>1, <2>2
<1>4. QED
  BY <1>2, <1>3

-----------------------------------------------------------------------------
(* Registration.                                                           *)

LEMMA Sizes ==
  ASSUME TableTypes
  PROVE  /\ HANDLE_SPACE \in Nat /\ HANDLE_SPACE > 0
         /\ slot_size \in Nat /\ slot_size > 0 /\ Handles \subseteq Nat
         /\ \A h \in Nat : h % slot_size \in 0 .. slot_size - 1
<1>1. HANDLE_SPACE \in Nat /\ HANDLE_SPACE > 0 /\ DEFAULT_SLOT_SIZE \in Nat /\ DEFAULT_SLOT_SIZE > 0
  BY SpaceAssumption, SizeAssumption
<1>2. slot_size \in Nat /\ slot_size > 0
  BY <1>1 DEF TableTypes
<1>3. \A h \in Nat : h % slot_size \in 0 .. slot_size - 1
  BY <1>2, ModDef
<1>4. Handles \subseteq Nat
  BY <1>1 DEF Handles
<1>5. QED
  BY <1>1, <1>2, <1>3, <1>4

(* Without the harbor's bits a handle selects the same slot.               *)
LEMMA HarborBits ==
  ASSUME NEW x \in 0 .. HANDLE_SPACE - 1, NEW n \in 1 .. HANDLE_SPACE, HANDLE_SPACE % n = 0
  PROVE  (x + Harbor * HANDLE_SPACE) % n = x % n /\ x + Harbor * HANDLE_SPACE \in Handles
<1>1. HANDLE_SPACE \in Nat /\ HANDLE_SPACE > 0
  BY SpaceAssumption
<1>2. x \in Nat /\ n \in Nat /\ n > 0
  BY <1>1
<1>3. CASE Harbor = 0
  <2>1. Harbor * HANDLE_SPACE = 0
    BY <1>1, <1>3
  <2>2. x + 0 = x
    BY <1>2
  <2>3. QED
    BY <1>1, <1>2, <2>1, <2>2 DEF Handles
<1>4. CASE Harbor = 1
  <2>1. Harbor * HANDLE_SPACE = HANDLE_SPACE
    BY <1>1, <1>4
  <2>2. PICK q \in Int : HANDLE_SPACE = q * n + (HANDLE_SPACE % n)
    BY <1>1, <1>2, ModDef
  <2>3. HANDLE_SPACE = q * n
    BY <1>2, <2>2
  <2>4. x + q * n \in Nat
    BY <1>1, <1>2, <2>3
  <2>5. (x + q * n) % n = x % n
    BY <1>2, <2>4, ModAdd
  <2>6. x + HANDLE_SPACE \in Handles
    BY <1>1 DEF Handles
  <2>7. QED
    BY <2>1, <2>3, <2>5, <2>6
<1>5. QED
  BY <1>3, <1>4, HarborAssumption

(* The context c takes the handle x in the table s of n slots.             *)
Claims(x, c, s, n) ==
  /\ s[x % n] = NULL /\ x % n \in 0 .. n - 1
  /\ slot_size' = n /\ slot' = [s EXCEPT ![x % n] = c]
  /\ handle_index' = x + 1
  /\ pending' = [y \in DOMAIN pending \cup {c} |->
                   IF y = c THEN x + Harbor * HANDLE_SPACE ELSE pending[y]]

(* The search finds a free slot of the table s, if there is one.           *)
LEMMA ClaimFinds ==
  ASSUME TableTypes, NEW n \in 1 .. HANDLE_SPACE, HANDLE_SPACE % n = 0,
         NEW s, \E k \in 0 .. n - 1 : s[k] = NULL, NEW c, Claim(c, s, n)
  PROVE  \E x \in 0 .. HANDLE_SPACE - 1 : Claims(x, c, s, n)
<1>1. HANDLE_SPACE \in Nat /\ HANDLE_SPACE > 0 /\ n \in Nat /\ n > 0
  BY SpaceAssumption
<1>2. handle_index \in Nat
  BY <1>1 DEF TableTypes
<1>3. ASSUME NEW i \in Nat
      PROVE  /\ Candidate(i) \in 0 .. HANDLE_SPACE - 1
             /\ Candidate(i) % n = (i + handle_index) % n
             /\ Candidate(i) % n \in 0 .. n - 1
  <2>1. PICK a \in Nat : a = i + handle_index
    BY <1>2
  <2>2. Candidate(i) = a % HANDLE_SPACE
    BY <2>1 DEF Candidate
  <2>3. a % HANDLE_SPACE \in 0 .. HANDLE_SPACE - 1
    BY <1>1, ModDef
  <2>4. (a % HANDLE_SPACE) % n = a % n
    BY <1>1, ModMod
  <2>5. a % n \in 0 .. n - 1
    BY <1>1, ModDef
  <2>6. QED
    BY <2>1, <2>2, <2>3, <2>4, <2>5
<1> DEFINE Free(i) == s[Candidate(i) % n] = NULL
           First(i) == /\ s[Candidate(i) % n] = NULL
                       /\ \A j \in 0 .. i - 1 : s[Candidate(j) % n] # NULL
           S == {i \in 0 .. n - 1 : Free(i)}
<1>4. S # {}
  <2>1. PICK k \in 0 .. n - 1 : s[k] = NULL
    OBVIOUS
  <2>2. PICK i \in 0 .. n - 1 : (i + handle_index) % n = k
    BY <1>1, <1>2, ModReaches
  <2>3. Candidate(i) % n = k
    BY <1>1, <1>3, <2>2
  <2>4. QED
    BY <2>1, <2>3
<1>5. S \in SUBSET Nat
  BY <1>1
<1>6. PICK m \in S : \A j \in S : m <= j
  <2> HIDE DEF S
  <2> QED BY <1>4, <1>5, LeastNat
<1>7. m \in 0 .. n - 1 /\ First(m)
  <2>1. m \in 0 .. n - 1 /\ Free(m)
    OBVIOUS
  <2>2. ASSUME NEW j \in 0 .. m - 1
        PROVE  ~Free(j)
    <3>1. j \in 0 .. n - 1 /\ ~(m <= j)
      BY <1>1, <2>1
    <3>2. QED
      BY <1>6, <3>1
  <2>3. QED
    BY <2>1, <2>2
<1>8. FirstFree(s, n) \in 0 .. n - 1 /\ First(FirstFree(s, n))
  BY <1>7 DEF FirstFree
<1>9. PICK i \in 0 .. n - 1 : i = FirstFree(s, n) /\ First(i)
  BY <1>8
<1>10. /\ slot_size' = n /\ slot' = [s EXCEPT ![Candidate(i) % n] = c]
       /\ handle_index' = Candidate(i) + 1
       /\ pending' = [y \in DOMAIN pending \cup {c} |->
                        IF y = c THEN Candidate(i) + Harbor * HANDLE_SPACE ELSE pending[y]]
  BY <1>9 DEF Claim
<1>11. i \in Nat
  BY <1>1, <1>9
<1>12. PICK x \in 0 .. HANDLE_SPACE - 1 : x = Candidate(i) /\ x % n \in 0 .. n - 1
  BY <1>3, <1>11
<1>13. s[x % n] = NULL
  BY <1>9, <1>12
<1>14. Claims(x, c, s, n)
  BY <1>10, <1>12, <1>13 DEF Claims
<1>15. QED
  BY <1>14

(* The context takes the slot of its new handle.                           *)
LEMMA ClaimStep ==
  ASSUME HandleInv, DOMAIN pending = {}, NEW c \in Ctx, c \notin Registered, handle[c] = 0,
         NEW n \in DEFAULT_SLOT_SIZE .. HANDLE_SPACE, HANDLE_SPACE % n = 0,
         NEW s \in [0 .. n - 1 -> Ctx \cup {NULL}],
         \E k \in 0 .. n - 1 : s[k] = NULL,
         \A i \in 0 .. n - 1 : s[i] # NULL => s[i] \in Registered /\ handle[s[i]] % n = i,
         Claim(c, s, n), UNCHANGED <<handle, stale, asserted, sweep>>
  PROVE  /\ HandleInv' /\ slot_size' = n
         /\ DOMAIN pending' = {c} /\ pending'[c] >= Harbor * HANDLE_SPACE
         /\ \A d \in Ctx : (\E i \in 0 .. n - 1 : s[i] = d) => d \in Registered'
         /\ \A d \in Registered' : d = c \/ d \in Registered
<1>1. TableTypes /\ PendingInv /\ PlaceInv /\ ~asserted
  BY DEF HandleInv
<1>2. /\ HANDLE_SPACE \in Nat /\ HANDLE_SPACE > 0 /\ n \in 1 .. HANDLE_SPACE
      /\ n \in Nat /\ n > 0
  BY SpaceAssumption, SizeAssumption
<1>a. PICK x \in 0 .. HANDLE_SPACE - 1 : Claims(x, c, s, n)
  BY <1>1, <1>2, ClaimFinds
<1>3. /\ s[x % n] = NULL /\ x % n \in 0 .. n - 1
      /\ slot_size' = n /\ slot' = [s EXCEPT ![x % n] = c]
      /\ handle_index' = x + 1
      /\ pending' = [y \in DOMAIN pending \cup {c} |->
                       IF y = c THEN x + Harbor * HANDLE_SPACE ELSE pending[y]]
  BY <1>a DEF Claims
<1>4. PICK k \in 0 .. n - 1 : k = x % n
  BY <1>3
<1>5. PICK h \in Handles : h = x + Harbor * HANDLE_SPACE /\ h % n = k
  BY <1>2, <1>4, HarborBits
<1>6. DOMAIN pending' = {c} /\ pending'[c] = h
  BY <1>3, <1>5
<1>7. \A i \in 0 .. n - 1 : slot'[i] = IF i = k THEN c ELSE s[i]
  BY <1>3, <1>4
<1>8. c # NULL
  BY NullAssumption
<1>9. TableTypes'
  <2>1. slot' \in [0 .. n - 1 -> Ctx \cup {NULL}]
    BY <1>3, <1>4
  <2>2. handle_index' \in 1 .. HANDLE_SPACE
    BY <1>2, <1>3
  <2>3. QED
    BY <1>1, <1>3, <2>1, <2>2 DEF TableTypes
<1>10. PendingInv'
  <2>1. IsFiniteSet(DOMAIN pending')
    <3>1. IsFiniteSet({c})
      BY FS_Singleton
    <3>2. QED
      BY <1>6, <3>1
  <2>2. slot'[h % n] = c
    BY <1>5, <1>7
  <2>3. QED
    BY <1>3, <1>6, <2>1, <2>2 DEF PendingInv
<1>11. PlaceInv'
  <2>1. ASSUME NEW i \in 0 .. n - 1, slot'[i] # NULL
        PROVE  (IF slot'[i] \in DOMAIN pending' THEN pending'[slot'[i]] ELSE handle'[slot'[i]]) % n = i
    <3>1. CASE i = k
      BY <1>5, <1>6, <1>7, <3>1
    <3>2. CASE i # k
      <4>1. slot'[i] = s[i] /\ s[i] # NULL
        BY <1>7, <2>1, <3>2
      <4>2. s[i] # c /\ handle[s[i]] % n = i
        BY <4>1
      <4>3. QED
        BY <1>6, <4>1, <4>2
    <3>3. QED
      BY <3>1, <3>2
  <2>2. QED
    BY <1>3, <2>1 DEF PlaceInv, Its
<1>12. ASSUME NEW d \in Ctx, NEW i \in 0 .. n - 1, s[i] = d
       PROVE  d \in Registered'
  <2>1. d # NULL /\ s[k] = NULL
    BY <1>3, <1>4, NullAssumption
  <2>2. slot'[i] = d
    BY <1>7, <1>12, <2>1
  <2>3. QED
    BY <1>3, <2>2 DEF Registered
<1>13. ASSUME NEW d \in Registered'
       PROVE  d = c \/ d \in Registered
  <2>1. PICK i \in 0 .. n - 1 : slot'[i] = d
    BY <1>3 DEF Registered
  <2>2. d \in Ctx /\ d # NULL
    BY NullAssumption DEF Registered
  <2>3. QED
    BY <1>7, <2>1, <2>2
<1>14. pending'[c] >= Harbor * HANDLE_SPACE
  BY <1>2, <1>5, <1>6, HarborAssumption
<1>15. ~asserted'
  BY <1>1
<1>16. QED
  BY <1>3, <1>6, <1>9, <1>10, <1>11, <1>12, <1>13, <1>14, <1>15 DEF HandleInv

(* The doubled table: every context is in the slot of its handle, which is *)
(* the old one or that much further, and half of the slots are free.       *)
LEMMA GrownTable ==
  ASSUME HandleInv, DOMAIN pending = {}, Full
  PROVE  /\ ~Collision
         /\ Grown \in [0 .. 2 * slot_size - 1 -> Ctx \cup {NULL}]
         /\ \E k \in 0 .. 2 * slot_size - 1 : Grown[k] = NULL
         /\ \A i \in 0 .. 2 * slot_size - 1 :
              Grown[i] # NULL => Grown[i] \in Registered /\ handle[Grown[i]] % (2 * slot_size) = i
         /\ \A i \in 0 .. slot_size - 1 :
              /\ Grown[handle[slot[i]] % (2 * slot_size)] = slot[i]
              /\ handle[slot[i]] % (2 * slot_size) \in 0 .. 2 * slot_size - 1
              /\ handle[slot[i]] % (2 * slot_size) >= i
<1>1. TableTypes /\ PendingInv /\ PlaceInv
  BY DEF HandleInv
<1>2. PICK n \in Nat : n = slot_size /\ n > 0
  BY <1>1, Sizes
<1>3. \A i \in 0 .. n - 1 : /\ slot[i] # NULL /\ slot[i] \in Ctx /\ handle[slot[i]] \in Nat
                            /\ handle[slot[i]] % n = i
  <2>1. TAKE i \in 0 .. n - 1
  <2>2. slot[i] # NULL /\ slot[i] \in Ctx
    BY <1>1, <1>2 DEF Full, TableTypes
  <2>3. handle[slot[i]] \in Nat
    BY <1>1, <2>2, Sizes DEF TableTypes
  <2>4. handle[slot[i]] % n = i
    BY <1>1, <1>2, <2>2 DEF PlaceInv, Its
  <2>5. QED
    BY <2>2, <2>3, <2>4
<1>4. ASSUME NEW i \in 0 .. n - 1
      PROVE  Moved(i) \in 0 .. 2 * n - 1 /\ Moved(i) \in {i, i + n} /\ Moved(i) % n = i
  <2>1. PICK h \in Nat : h = handle[slot[i]] /\ h % n = i
    BY <1>3
  <2>2. /\ (h % (2 * n)) % n = h % n /\ h % (2 * n) \in 0 .. 2 * n - 1
        /\ h % (2 * n) \in {h % n, (h % n) + n}
    BY <1>2, ModHalf
  <2>3. Moved(i) = h % (2 * n)
    BY <1>2, <2>1 DEF Moved
  <2>4. QED
    BY <2>1, <2>2, <2>3
<1>5. \A i, j \in 0 .. n - 1 : Moved(i) = Moved(j) => i = j
  BY <1>4
<1>6. ~Collision
  BY <1>2, <1>5 DEF Collision
<1>7. ASSUME NEW i \in 0 .. n - 1
      PROVE  Grown[Moved(i)] = slot[i]
  <2>1. PICK k \in 0 .. 2 * n - 1 : k = Moved(i)
    BY <1>4
  <2>2. PICK j : j = CHOOSE m \in 0 .. n - 1 : Moved(m) = k
    OBVIOUS
  <2>3. j \in 0 .. n - 1 /\ Moved(j) = k
    BY <2>1, <2>2
  <2>4. j = i
    BY <1>5, <2>1, <2>3
  <2>5. Grown[k] = slot[CHOOSE m \in 0 .. n - 1 : Moved(m) = k]
    BY <1>2, <2>1 DEF Grown
  <2>6. QED
    BY <2>1, <2>2, <2>4, <2>5
<1>8. ASSUME NEW k \in 0 .. 2 * n - 1, \A i \in 0 .. n - 1 : Moved(i) # k
      PROVE  Grown[k] = NULL
  BY <1>2, <1>8 DEF Grown
<1>9. ASSUME NEW k \in 0 .. 2 * n - 1, Grown[k] # NULL
      PROVE  \E i \in 0 .. n - 1 : Moved(i) = k /\ Grown[k] = slot[i]
  BY <1>7, <1>8, <1>9
<1>10. Grown \in [0 .. 2 * n - 1 -> Ctx \cup {NULL}]
  <2>1. Grown = [k \in 0 .. 2 * n - 1 |-> Grown[k]]
    BY <1>2 DEF Grown
  <2>2. \A k \in 0 .. 2 * n - 1 : Grown[k] \in Ctx \cup {NULL}
    BY <1>3, <1>9
  <2>3. QED
    BY <2>1, <2>2
<1>11. \E k \in 0 .. 2 * n - 1 : Grown[k] = NULL
  <2>1. 0 \in 0 .. n - 1
    BY <1>2
  <2>2. PICK k \in {0, n} : k # Moved(0)
    BY <1>2
  <2>3. k \in 0 .. 2 * n - 1
    BY <1>2, <2>2
  <2>4. ASSUME NEW i \in 0 .. n - 1
        PROVE  Moved(i) # k
    <3>1. CASE i = 0
      BY <2>2, <3>1
    <3>2. CASE i # 0
      <4>1. Moved(i) # 0 /\ Moved(i) # n
        BY <1>2, <1>4, <3>2
      <4>2. QED
        BY <2>2, <4>1
    <3>3. QED
      BY <3>1, <3>2
  <2>5. QED
    BY <1>8, <2>3, <2>4
<1>12. ASSUME NEW k \in 0 .. 2 * n - 1, Grown[k] # NULL
       PROVE  Grown[k] \in Registered /\ handle[Grown[k]] % (2 * n) = k
  <2>1. PICK i \in 0 .. n - 1 : Moved(i) = k /\ Grown[k] = slot[i]
    BY <1>9, <1>12
  <2>2. Grown[k] \in Registered
    BY <1>2, <1>3, <2>1 DEF Registered
  <2>3. handle[slot[i]] % (2 * n) = k
    BY <1>2, <2>1 DEF Moved
  <2>4. QED
    BY <2>1, <2>2, <2>3
<1>13. ASSUME NEW i \in 0 .. n - 1
       PROVE  /\ Grown[handle[slot[i]] % (2 * n)] = slot[i]
              /\ handle[slot[i]] % (2 * n) \in 0 .. 2 * n - 1
              /\ handle[slot[i]] % (2 * n) >= i
  <2>1. Moved(i) = handle[slot[i]] % (2 * n)
    BY <1>2 DEF Moved
  <2>2. Moved(i) \in 0 .. 2 * n - 1 /\ Moved(i) >= i
    <3>1. Moved(i) \in 0 .. 2 * n - 1 /\ Moved(i) \in {i, i + n}
      BY <1>4
    <3>2. PICK q : q = Moved(i)
      OBVIOUS
    <3>3. q \in 0 .. 2 * n - 1 /\ (q = i \/ q = i + n)
      BY <3>1, <3>2
    <3>4. q >= i
      BY <1>2, <3>3
    <3>5. QED
      BY <3>2, <3>3, <3>4
  <2>3. QED
    BY <1>7, <2>1, <2>2
<1>14. QED
  BY <1>2, <1>6, <1>10, <1>11, <1>12, <1>13


-----------------------------------------------------------------------------
(* The steps of the table.                                                 *)

(* A launched service is in the slot of its handle.                        *)
LEMMA RunningPlaced ==
  ASSUME HandleInv, NEW c \in Running
  PROVE  /\ c \in Ctx /\ c # NULL /\ c \notin DOMAIN pending /\ handle[c] \in Handles
         /\ handle[c] % slot_size \in 0 .. slot_size - 1
         /\ slot[handle[c] % slot_size] = c /\ Lookup(handle[c]) = c
<1>1. c \in Ctx /\ c \notin DOMAIN pending /\ c # NULL
  BY NullAssumption DEF Running, Registered
<1>2. PICK i \in 0 .. slot_size - 1 : slot[i] = c
  BY DEF Running, Registered
<1>3. handle[c] % slot_size = i
  BY <1>1, <1>2 DEF HandleInv, PlaceInv, Its
<1>4. handle[c] \in Handles
  BY <1>1 DEF HandleInv, TableTypes
<1>5. Lookup(handle[c]) = c
  BY <1>1, <1>2, <1>3 DEF Lookup
<1>6. QED
  BY <1>1, <1>2, <1>3, <1>4, <1>5

(* With one launch at a time nobody else's handle is on its way when a     *)
(* context registers: no rehash collides, and what is registered stays so, *)
(* in its slot or in a later one.                                          *)
LEMMA RegisterStep ==
  ASSUME HandleInv, Launchers <= 1, NEW c \in Ctx, skynet_handle_register(c)
  PROVE  /\ HandleInv' /\ UNCHANGED <<handle, sweep>> /\ c \notin Registered
         /\ DOMAIN pending = {} /\ DOMAIN pending' = {c}
         /\ pending'[c] >= Harbor * HANDLE_SPACE
         /\ \A d \in Registered : /\ d \in Registered'
                                  /\ handle[d] % slot_size' >= handle[d] % slot_size
         /\ \A d \in Registered' : d = c \/ d \in Registered
<1>1. TableTypes /\ PendingInv /\ PlaceInv
  BY DEF HandleInv
<1>2. c \notin Registered /\ handle[c] = 0 /\ UNCHANGED <<name, handle, stale, sweep>>
  BY DEF skynet_handle_register
<1>3. DOMAIN pending = {}
  <2>1. IsFiniteSet(DOMAIN pending)
    BY <1>1 DEF PendingInv
  <2>2. Cardinality(DOMAIN pending) \in Nat
    BY <2>1, FS_CardinalityType
  <2>3. Cardinality(DOMAIN pending) < Launchers
    BY DEF skynet_handle_register
  <2>4. Cardinality(DOMAIN pending) = 0
    BY <2>2, <2>3, LaunchersAssumption
  <2>5. QED
    BY <2>1, <2>4, FS_EmptySet
<1>4. PICK m \in DEFAULT_SLOT_SIZE .. HANDLE_SPACE : m = slot_size /\ HANDLE_SPACE % m = 0
  BY <1>1 DEF TableTypes
<1>5. HANDLE_SPACE \in Nat /\ m \in Nat /\ m > 0 /\ DEFAULT_SLOT_SIZE \in Nat
  BY <1>4, SpaceAssumption, SizeAssumption
<1>6. ASSUME NEW d \in Registered
      PROVE  \E i \in 0 .. m - 1 : slot[i] = d /\ d \in Ctx /\ d # NULL /\ handle[d] % m = i
  <2>1. d \in Running
    BY <1>3 DEF Running
  <2>2. QED
    BY <1>4, <2>1, RunningPlaced
<1>7. CASE ~Full
  <2>1. PICK s : s = slot
    OBVIOUS
  <2>2. Claim(c, s, m) /\ UNCHANGED asserted
    BY <1>4, <1>7, <2>1 DEF skynet_handle_register
  <2>3. s \in [0 .. m - 1 -> Ctx \cup {NULL}]
    BY <1>1, <1>4, <2>1 DEF TableTypes
  <2>4. \E k \in 0 .. m - 1 : s[k] = NULL
    BY <1>4, <1>7, <2>1 DEF Full
  <2>5. ASSUME NEW i \in 0 .. m - 1, s[i] # NULL
        PROVE  s[i] \in Registered /\ handle[s[i]] % m = i
    <3>1. s[i] \in Registered
      BY <1>4, <2>1, <2>3, <2>5 DEF Registered
    <3>2. handle[s[i]] % m = i
      BY <1>1, <1>3, <1>4, <2>1, <2>5 DEF PlaceInv, Its
    <3>3. QED
      BY <3>1, <3>2
  <2>6. /\ HandleInv' /\ slot_size' = m
        /\ DOMAIN pending' = {c} /\ pending'[c] >= Harbor * HANDLE_SPACE
        /\ \A d \in Ctx : (\E i \in 0 .. m - 1 : s[i] = d) => d \in Registered'
        /\ \A d \in Registered' : d = c \/ d \in Registered
    BY <1>2, <1>3, <1>4, <2>2, <2>3, <2>4, <2>5, ClaimStep, ZenonT(60)
  <2>7. ASSUME NEW d \in Registered
        PROVE  d \in Registered' /\ handle[d] % slot_size' >= handle[d] % slot_size
    <3>1. PICK i \in 0 .. m - 1 : slot[i] = d /\ d \in Ctx /\ handle[d] % m = i
      BY <1>6
    <3>2. d \in Registered'
      BY <2>1, <2>6, <3>1
    <3>3. i >= i
      BY <1>5
    <3>4. QED
      BY <1>4, <2>6, <3>1, <3>2, <3>3
  <2>8. QED
    BY <1>2, <1>3, <2>6, <2>7
<1>8. CASE Full
  <2>0. PICK n \in Nat : n = 2 * m
    BY <1>5
  <2>1. /\ ~Collision
        /\ Grown \in [0 .. n - 1 -> Ctx \cup {NULL}]
        /\ \E k \in 0 .. n - 1 : Grown[k] = NULL
        /\ \A i \in 0 .. n - 1 :
             Grown[i] # NULL => Grown[i] \in Registered /\ handle[Grown[i]] % n = i
        /\ \A i \in 0 .. m - 1 :
             /\ Grown[handle[slot[i]] % n] = slot[i]
             /\ handle[slot[i]] % n \in 0 .. n - 1 /\ handle[slot[i]] % n >= i
    BY <1>3, <1>4, <1>8, <2>0, GrownTable
  <2>2. PICK s : s = Grown
    OBVIOUS
  <2>3. Claim(c, s, n) /\ UNCHANGED asserted /\ n <= HANDLE_SPACE
    BY <1>4, <1>8, <2>0, <2>1, <2>2 DEF skynet_handle_register
  <2>4. n \in DEFAULT_SLOT_SIZE .. HANDLE_SPACE /\ HANDLE_SPACE % n = 0
    <3>1. m \in 1 .. HANDLE_SPACE
      BY <1>5
    <3>2. HANDLE_SPACE % (2 * m) = 0
      BY <1>4, <2>0, <2>3, <3>1, PowerAssumption
    <3>3. QED
      BY <1>4, <1>5, <2>0, <2>3, <3>2
  <2>5. /\ s \in [0 .. n - 1 -> Ctx \cup {NULL}]
        /\ \E k \in 0 .. n - 1 : s[k] = NULL
        /\ \A i \in 0 .. n - 1 : s[i] # NULL => s[i] \in Registered /\ handle[s[i]] % n = i
    BY <2>1, <2>2
  <2>6. /\ HandleInv' /\ slot_size' = n
        /\ DOMAIN pending' = {c} /\ pending'[c] >= Harbor * HANDLE_SPACE
        /\ \A d \in Ctx : (\E i \in 0 .. n - 1 : s[i] = d) => d \in Registered'
        /\ \A d \in Registered' : d = c \/ d \in Registered
    BY <1>2, <1>3, <2>3, <2>4, <2>5, ClaimStep
  <2>7. ASSUME NEW d \in Registered
        PROVE  d \in Registered' /\ handle[d] % slot_size' >= handle[d] % slot_size
    <3>1. PICK i \in 0 .. m - 1 : slot[i] = d /\ d \in Ctx /\ handle[d] % m = i
      BY <1>6
    <3>2. /\ s[handle[d] % n] = d /\ handle[d] % n \in 0 .. n - 1
          /\ handle[d] % n >= i
      BY <2>1, <2>2, <3>1
    <3>3. d \in Registered'
      BY <2>6, <3>1, <3>2
    <3>4. QED
      BY <1>4, <2>6, <3>1, <3>2, <3>3
  <2>8. QED
    BY <1>2, <1>3, <2>6, <2>7
<1>9. QED
  BY <1>7, <1>8


(* Storing the handle changes nobody's slot: it was the context's already. *)
LEMMA StoreStep ==
  ASSUME HandleInv, NEW c \in Ctx, StoreHandle(c)
  PROVE  /\ HandleInv' /\ UNCHANGED <<table, sweep>> /\ Registered' = Registered
         /\ Running \subseteq Running'
         /\ \A d \in Ctx : Its(d)' = Its(d)
         /\ \A d \in Running : handle'[d] = handle[d]
<1>1. TableTypes /\ PendingInv /\ PlaceInv /\ ~asserted
  BY DEF HandleInv
<1>2. /\ c \in DOMAIN pending /\ handle' = [handle EXCEPT ![c] = pending[c]]
      /\ pending' = [x \in DOMAIN pending \ {c} |-> pending[x]]
      /\ UNCHANGED <<slot_size, slot, handle_index, name, stale, asserted, sweep>>
  BY DEF StoreHandle, table
<1>3. pending[c] \in Handles
  BY <1>1, <1>2 DEF PendingInv
<1>4. TableTypes'
  BY <1>1, <1>2, <1>3 DEF TableTypes
<1>5. handle'[c] = pending[c] /\ \A d \in Ctx \ {c} : handle'[d] = handle[d]
  BY <1>1, <1>2 DEF TableTypes
<1>6. ASSUME NEW d \in Ctx
      PROVE  Its(d)' = Its(d)
  BY <1>2, <1>5 DEF Its
<1>7. PendingInv'
  <2>1. DOMAIN pending' = DOMAIN pending \ {c}
    BY <1>2
  <2>2. IsFiniteSet(DOMAIN pending')
    BY <1>1, <2>1, FS_Subset DEF PendingInv
  <2>3. \A d \in DOMAIN pending' : pending'[d] = pending[d] /\ d \in DOMAIN pending /\ d # c
    BY <1>2
  <2>4. \A d \in DOMAIN pending' : handle'[d] = handle[d]
    BY <1>1, <1>5, <2>3 DEF PendingInv
  <2>5. QED
    BY <1>1, <1>2, <2>2, <2>3, <2>4 DEF PendingInv
<1>8. PlaceInv'
  <2>1. ASSUME NEW i \in 0 .. slot_size - 1, slot[i] # NULL
        PROVE  Its(slot[i])' % slot_size = i
    <3>1. slot[i] \in Ctx
      BY <1>1, <2>1 DEF TableTypes
    <3>2. PICK d \in Ctx : d = slot[i]
      BY <3>1
    <3>3. Its(d) % slot_size = i
      BY <1>1, <2>1, <3>2 DEF PlaceInv
    <3>4. Its(d)' = Its(d)
      BY <1>6
    <3>5. Its(slot[i])' = Its(d)'
      BY <1>2, <3>2 DEF Its
    <3>6. QED
      BY <3>3, <3>4, <3>5
  <2>2. QED
    BY <1>2, <2>1 DEF PlaceInv, Its
<1>9. Registered' = Registered
  BY <1>2 DEF Registered
<1>10. Running \subseteq Running'
  BY <1>2, <1>9 DEF Running
<1>11. \A d \in Running : handle'[d] = handle[d]
  BY <1>2, <1>5 DEF Running, Registered
<1>12. QED
  BY <1>1, <1>2, <1>4, <1>6, <1>7, <1>8, <1>9, <1>10, <1>11 DEF HandleInv, table

(* A retirement takes the context out of its only slot.                    *)
LEMMA RetireStep ==
  ASSUME HandleInv, NEW h \in Handles, NEW c \in Ctx, c = Lookup(h), c # NULL,
         c \notin DOMAIN pending, Retire(h),
         sweep' \in Sweeps
  PROVE  /\ HandleInv' /\ UNCHANGED <<slot_size, pending>>
         /\ handle' = [handle EXCEPT ![c] = 0]
         /\ Registered' = Registered \ {c}
<1>1. TableTypes /\ PendingInv /\ PlaceInv /\ ~asserted
  BY DEF HandleInv
<1>2. PICK k \in 0 .. slot_size - 1 : k = h % slot_size
  BY <1>1, Sizes
<1>3. slot[k] = c /\ handle[c] = h
  BY <1>2 DEF Lookup
<1>4. /\ slot' = [slot EXCEPT ![k] = NULL] /\ handle' = [handle EXCEPT ![c] = 0]
      /\ stale' = h /\ UNCHANGED <<slot_size, handle_index, pending, asserted>>
  BY <1>2 DEF Retire
<1>5. /\ slot'[k] = NULL /\ \A i \in (0 .. slot_size - 1) \ {k} : slot'[i] = slot[i]
      /\ handle'[c] = 0 /\ \A d \in Ctx \ {c} : handle'[d] = handle[d]
  BY <1>1, <1>4 DEF TableTypes
<1>6. \A i \in 0 .. slot_size - 1 : slot[i] = c => i = k
  BY <1>1, <1>2, <1>3 DEF PlaceInv, Its
<1>7. TableTypes'
  <2>1. 0 \in Handles
    BY SpaceAssumption DEF Handles
  <2>2. slot' \in [0 .. slot_size - 1 -> Ctx \cup {NULL}]
    BY <1>1, <1>4 DEF TableTypes
  <2>3. handle' \in [Ctx -> Handles]
    BY <1>1, <1>4, <2>1 DEF TableTypes
  <2>4. QED
    BY <1>1, <1>4, <2>2, <2>3 DEF TableTypes
<1>8. PendingInv'
  <2>1. ASSUME NEW d \in DOMAIN pending
        PROVE  handle'[d] = 0 /\ slot'[pending[d] % slot_size] = d /\ pending[d] \in Handles
    <3>1. d \in Ctx /\ d # c /\ handle[d] = 0 /\ pending[d] \in Handles
      BY <1>1 DEF PendingInv
    <3>2. slot[pending[d] % slot_size] = d
      BY <1>1 DEF PendingInv
    <3>3. pending[d] % slot_size \in (0 .. slot_size - 1) \ {k}
      BY <1>1, <1>3, <3>1, <3>2, Sizes
    <3>4. QED
      BY <1>5, <3>1, <3>2, <3>3
  <2>2. QED
    BY <1>1, <1>4, <2>1 DEF PendingInv
<1>9. PlaceInv'
  <2>1. ASSUME NEW i \in 0 .. slot_size - 1, slot'[i] # NULL
        PROVE  (IF slot'[i] \in DOMAIN pending THEN pending[slot'[i]] ELSE handle'[slot'[i]])
                 % slot_size = i
    <3>1. slot'[i] = slot[i] /\ slot[i] # c /\ slot[i] \in Ctx
      BY <1>1, <1>5, <1>6, <2>1 DEF TableTypes
    <3>2. handle'[slot'[i]] = handle[slot[i]]
      BY <1>5, <3>1
    <3>3. Its(slot[i]) % slot_size = i
      BY <1>1, <2>1, <3>1 DEF PlaceInv
    <3>4. QED
      BY <3>1, <3>2, <3>3 DEF Its
  <2>2. QED
    BY <1>4, <2>1 DEF PlaceInv, Its
<1>10. Registered' = Registered \ {c}
  <2>1. ASSUME NEW d \in Ctx
        PROVE  (\E i \in 0 .. slot_size - 1 : slot'[i] = d)
               <=> (d # c /\ \E i \in 0 .. slot_size - 1 : slot[i] = d)
    <3>1. d # NULL
      BY NullAssumption
    <3>2. QED
      BY <1>3, <1>5, <1>6, <3>1
  <2>2. QED
    BY <1>4, <2>1 DEF Registered
<1>11. QED
  BY <1>1, <1>4, <1>7, <1>8, <1>9, <1>10 DEF HandleInv


(* Names and the sweep's own variables do not matter to the table.         *)
LEMMA SameTable ==
  ASSUME HandleInv, sweep' \in Sweeps,
         UNCHANGED <<slot_size, slot, handle_index, handle, pending, stale, asserted>>
  PROVE  HandleInv'
BY DEF HandleInv, TableTypes, PendingInv, PlaceInv, Its

(* What a handle that leads somewhere leads to.                            *)
LEMMA LookupFinds ==
  ASSUME HandleInv, NEW h \in Handles, Lookup(h) # NULL
  PROVE  Lookup(h) \in Ctx /\ handle[Lookup(h)] = h /\ Lookup(h) \in Registered
<1>1. TableTypes
  BY DEF HandleInv
<1>2. PICK k \in 0 .. slot_size - 1 : k = h % slot_size
  BY <1>1, Sizes
<1>3. Lookup(h) = slot[k] /\ handle[slot[k]] = h /\ slot[k] # NULL
  BY <1>2 DEF Lookup
<1>4. slot[k] \in Ctx
  BY <1>1, <1>3 DEF TableTypes
<1>5. QED
  BY <1>3, <1>4 DEF Registered

(* The steps of a sweep keep its variables' types.                         *)
LEMMA SweepTypes ==
  ASSUME HandleInv, RetireAllBegins \/ RetireAllReads \/ RetireAllRetires \/ RetireAllEnds
  PROVE  sweep' \in Sweeps
<1>1. TableTypes /\ sweep \in Sweeps /\ 0 \in Handles
  BY SpaceAssumption DEF HandleInv, TableTypes, Handles
<1>2. Running \subseteq Ctx
  BY DEF Running, Registered
<1>3. NoSweep \in Sweeps
  BY <1>1 DEF NoSweep, Sweeps
<1>4. CASE RetireAllBegins
  BY <1>2, <1>3, <1>4 DEF RetireAllBegins, Sweeps
<1>5. CASE RetireAllReads
  <2>1. CASE sweep.i < slot_size
    <3>1. sweep.i \in 0 .. slot_size - 1
      BY <1>1, <2>1, Sizes DEF Sweeps
    <3>2. PICK h : h = IF slot[sweep.i] = NULL THEN 0 ELSE handle[slot[sweep.i]]
      OBVIOUS
    <3>3. h \in Handles
      BY <1>1, <3>1, <3>2 DEF TableTypes
    <3>4. sweep' = [sweep EXCEPT !.at = "retire", !.handle = h]
      BY <1>5, <2>1, <3>2 DEF RetireAllReads
    <3>5. QED
      BY <1>1, <3>3, <3>4 DEF Sweeps
  <2>2. CASE ~(sweep.i < slot_size) /\ sweep.n = 0
    BY <1>1, <1>5, <2>2 DEF RetireAllReads, Sweeps
  <2>3. CASE ~(sweep.i < slot_size) /\ sweep.n # 0
    BY <1>1, <1>2, <1>5, <2>3 DEF RetireAllReads, Sweeps
  <2>4. QED
    BY <2>1, <2>2, <2>3
<1>6. CASE RetireAllRetires
  <2>1. sweep.i + 1 \in Nat /\ sweep.n + 1 \in Nat
    BY <1>1 DEF Sweeps
  <2>2. PICK c : c = Lookup(sweep.handle)
    OBVIOUS
  <2>3. \/ sweep' = [sweep EXCEPT !.at = "read", !.i = @ + 1, !.n = @ + 1, !.must = @ \ {c}]
        \/ sweep' = [sweep EXCEPT !.at = "read", !.i = @ + 1]
    BY <1>6, <2>2 DEF RetireAllRetires
  <2>4. QED
    BY <1>1, <2>1, <2>3 DEF Sweeps
<1>7. CASE RetireAllEnds
  BY <1>3, <1>7 DEF RetireAllEnds
<1>8. QED
  BY <1>4, <1>5, <1>6, <1>7

(* The two ways a service is retired, as RetireStep sees them.             *)
LEMMA RetireCalls ==
  ASSUME HandleInv,
         \/ \E c \in Running : skynet_handle_retire(handle[c])
         \/ RetireAllRetires /\ sweep.handle # 0 /\ Lookup(sweep.handle) # NULL
  PROVE  \E c \in Running :
           /\ HandleInv' /\ UNCHANGED <<slot_size, pending>>
           /\ handle' = [handle EXCEPT ![c] = 0]
           /\ Registered' = Registered \ {c}
           /\ sweep'.must = sweep.must \ {c}
           /\ \/ sweep'.at = sweep.at /\ sweep'.i = sweep.i /\ sweep'.handle = sweep.handle
              \/ /\ c = Lookup(sweep.handle) /\ sweep.at = "retire"
                 /\ sweep'.at = "read" /\ sweep'.i = sweep.i + 1
<1>1. TableTypes /\ sweep \in Sweeps
  BY DEF HandleInv, TableTypes
<1>2. CASE \E c \in Running : skynet_handle_retire(handle[c])
  <2>1. PICK c \in Running : skynet_handle_retire(handle[c])
    BY <1>2
  <2>2. /\ c \in Ctx /\ c # NULL /\ c \notin DOMAIN pending
        /\ handle[c] \in Handles /\ Lookup(handle[c]) = c
    BY RunningPlaced
  <2>3. PICK h \in Handles : h = handle[c]
    BY <2>2
  <2>4. Retire(h) /\ sweep' = [sweep EXCEPT !.must = @ \ {c}]
    BY <2>1, <2>2, <2>3 DEF skynet_handle_retire
  <2>5. sweep' \in Sweeps
    BY <1>1, <2>4 DEF Sweeps
  <2>6. /\ HandleInv' /\ UNCHANGED <<slot_size, pending>>
        /\ handle' = [handle EXCEPT ![c] = 0]
        /\ Registered' = Registered \ {c}
    BY <2>2, <2>3, <2>4, <2>5, RetireStep
  <2>7. /\ sweep'.must = sweep.must \ {c}
        /\ sweep'.at = sweep.at /\ sweep'.i = sweep.i /\ sweep'.handle = sweep.handle
    BY <1>1, <2>4 DEF Sweeps
  <2>8. QED
    BY <2>6, <2>7
<1>3. CASE RetireAllRetires /\ sweep.handle # 0 /\ Lookup(sweep.handle) # NULL
  <2>1. PICK h \in Handles : h = sweep.handle
    BY <1>1 DEF Sweeps
  <2>2. PICK c \in Ctx : c = Lookup(h) /\ c # NULL /\ handle[c] = h /\ c \in Registered
    BY <1>3, <2>1, LookupFinds
  <2>3. c \notin DOMAIN pending
    BY <1>3, <2>1, <2>2 DEF HandleInv, PendingInv
  <2>4. /\ Retire(h) /\ sweep.at = "retire"
        /\ sweep' = [sweep EXCEPT !.at = "read", !.i = @ + 1, !.n = @ + 1, !.must = @ \ {c}]
    BY <1>3, <2>1, <2>2 DEF RetireAllRetires
  <2>5. sweep' \in Sweeps
    BY <1>3, SweepTypes
  <2>6. /\ HandleInv' /\ UNCHANGED <<slot_size, pending>>
        /\ handle' = [handle EXCEPT ![c] = 0]
        /\ Registered' = Registered \ {c}
    BY <2>2, <2>3, <2>4, <2>5, RetireStep
  <2>7. sweep'.must = sweep.must \ {c} /\ sweep'.at = "read" /\ sweep'.i = sweep.i + 1
    BY <1>1, <2>4 DEF Sweeps
  <2>8. c \in Running
    BY <2>2, <2>3 DEF Running
  <2>9. QED
    BY <2>1, <2>2, <2>4, <2>6, <2>7, <2>8
<1>4. QED
  BY <1>2, <1>3


(* The steps that leave the table and the handles alone.                   *)
Rests == UNCHANGED <<slot_size, slot, handle_index, handle, pending, stale, asserted>>

LEMMA NextSteps ==
  ASSUME HandleInv, [Next]_vars
  PROVE  \/ \E c \in Ctx : skynet_handle_register(c)
         \/ \E c \in Ctx : StoreHandle(c)
         \/ \E c \in Running : skynet_handle_retire(handle[c])
         \/ RetireAllRetires /\ sweep.handle # 0 /\ Lookup(sweep.handle) # NULL
         \/ Rests /\ RetireAllRetires /\ (sweep.handle = 0 \/ Lookup(sweep.handle) = NULL)
         \/ Rests /\ RetireAllBegins
         \/ Rests /\ RetireAllReads
         \/ Rests /\ RetireAllEnds
         \/ Rests /\ UNCHANGED sweep
<1>1. CASE \E h \in Handles, x \in Name : skynet_handle_namehandle(h, x)
  BY <1>1 DEF skynet_handle_namehandle, Rests, table
<1>2. CASE UNCHANGED vars
  BY <1>2 DEF vars, Rests
<1>3. CASE RetireAllBegins
  BY <1>3 DEF RetireAllBegins, Rests, table
<1>4. CASE RetireAllReads
  BY <1>4 DEF RetireAllReads, Rests, table
<1>5. CASE RetireAllEnds
  BY <1>5 DEF RetireAllEnds, Rests, table
<1>6. CASE RetireAllRetires
  BY <1>6 DEF RetireAllRetires, Rests, table
<1>7. stale \in Handles /\ \A c \in Running : handle[c] \in Handles
  BY RunningPlaced DEF HandleInv, TableTypes
<1>8. QED
  BY <1>1, <1>2, <1>3, <1>4, <1>5, <1>6, <1>7 DEF Next

LEMMA HandleStep ==
  ASSUME HandleInv, Launchers <= 1, [Next]_vars
  PROVE  HandleInv'
<1>1. CASE \E c \in Ctx : skynet_handle_register(c)
  BY <1>1, RegisterStep
<1>2. CASE \E c \in Ctx : StoreHandle(c)
  BY <1>2, StoreStep
<1>3. CASE \/ \E c \in Running : skynet_handle_retire(handle[c])
           \/ RetireAllRetires /\ sweep.handle # 0 /\ Lookup(sweep.handle) # NULL
  BY <1>3, RetireCalls
<1>4. CASE /\ Rests
           /\ RetireAllBegins \/ RetireAllReads \/ RetireAllRetires \/ RetireAllEnds
  BY <1>4, SweepTypes, SameTable DEF Rests
<1>5. CASE Rests /\ UNCHANGED sweep
  <2>1. sweep' \in Sweeps
    BY <1>5 DEF HandleInv, TableTypes
  <2>2. QED
    BY <1>5, <2>1, SameTable DEF Rests
<1>6. QED
  BY <1>1, <1>2, <1>3, <1>4, <1>5, NextSteps

LEMMA HandleInit ==
  ASSUME Init
  PROVE  HandleInv
<1>1. HANDLE_SPACE \in Nat /\ HANDLE_SPACE > 0 /\ DEFAULT_SLOT_SIZE \in 1 .. HANDLE_SPACE
  BY SpaceAssumption, SizeAssumption
<1>2. 0 \in Handles /\ sweep \in Sweeps
  BY <1>1 DEF Init, NoSweep, Handles, Sweeps
<1>3. TableTypes
  <2>1. asserted \in BOOLEAN
    BY DEF Init
  <2>2. /\ slot_size \in DEFAULT_SLOT_SIZE .. HANDLE_SPACE
        /\ handle_index \in 1 .. HANDLE_SPACE /\ HANDLE_SPACE % slot_size = 0
    BY <1>1, PowerAssumption DEF Init
  <2>3. slot \in [0 .. slot_size - 1 -> Ctx \cup {NULL}]
    BY DEF Init
  <2>4. handle \in [Ctx -> Handles] /\ stale \in Handles
    BY <1>2 DEF Init
  <2>5. QED
    BY <1>2, <2>1, <2>2, <2>3, <2>4 DEF TableTypes
<1>4. DOMAIN pending = {}
  BY DEF Init
<1>5. PendingInv
  <2>1. IsFiniteSet({})
    BY FS_EmptySet
  <2>2. QED
    BY <1>4, <2>1 DEF PendingInv
<1>6. PlaceInv
  BY DEF Init, PlaceInv
<1>7. QED
  BY <1>3, <1>5, <1>6 DEF Init, HandleInv

(* The table's inductive invariant, as long as one thread at a time is     *)
(* between skynet_handle_register and the store of ctx->handle.            *)
THEOREM HandleInvariant == Launchers <= 1 => (Spec => []HandleInv)
<1> SUFFICES ASSUME Launchers <= 1
             PROVE  Spec => []HandleInv
  OBVIOUS
<1>1. Init => HandleInv
  BY HandleInit
<1>2. HandleInv /\ [Next]_vars => HandleInv'
  BY HandleStep
<1>3. QED
  BY <1>1, <1>2, PTL DEF Spec

LEMMA InvFindable ==
  ASSUME HandleInv
  PROVE  Findable /\ RehashNeverCollides
<1>1. TableTypes /\ PendingInv /\ ~asserted
  BY DEF HandleInv
<1>2. DOMAIN pending \subseteq Registered
  <2>1. ASSUME NEW c \in DOMAIN pending
        PROVE  c \in Registered
    <3>1. c \in Ctx /\ pending[c] \in Handles /\ slot[pending[c] % slot_size] = c
      BY <1>1 DEF PendingInv
    <3>2. pending[c] % slot_size \in 0 .. slot_size - 1
      BY <1>1, <3>1, Sizes
    <3>3. QED
      BY <3>1, <3>2 DEF Registered
  <2>2. QED
    BY <2>1
<1>3. TypeOK
  BY <1>1, <1>2 DEF TypeOK, TableTypes, Handles, Sweeps
<1>4. QED
  BY <1>1, <1>3, RunningPlaced DEF Findable, RehashNeverCollides

(* skynet_handle_grab finds every launched service by its handle, for      *)
(* every size of the table and of the handle space, as long as one thread  *)
(* at a time is launching.                                                 *)
THEOREM ServicesAreFound == Launchers <= 1 => (Spec => []Findable)
<1>1. HandleInv => Findable
  BY InvFindable
<1>2. QED
  BY <1>1, HandleInvariant, PTL

(* Then the assertion of the rehash never fails either: what two threads   *)
(* that launch at once can break is broken by nothing else.                *)
THEOREM OneLaunchNeverCollides == Launchers <= 1 => (Spec => []RehashNeverCollides)
<1>1. HandleInv => RehashNeverCollides
  BY InvFindable
<1>2. QED
  BY <1>1, HandleInvariant, PTL


-----------------------------------------------------------------------------
(* The sweep of skynet_handle_retireall.                                   *)

(* A growth of the table moves what the sweep has not seen to where it has *)
(* not been.                                                               *)
LEMMA SweepRegister ==
  ASSUME HandleInv, SweepInv, Launchers <= 1, Harbor = 1,
         NEW c \in Ctx, skynet_handle_register(c)
  PROVE  SweepInv'
<1>1. /\ HandleInv' /\ UNCHANGED <<handle, sweep>> /\ c \notin Registered
      /\ DOMAIN pending = {} /\ DOMAIN pending' = {c}
      /\ pending'[c] >= Harbor * HANDLE_SPACE
      /\ \A d \in Registered : /\ d \in Registered'
                               /\ handle[d] % slot_size' >= handle[d] % slot_size
      /\ \A d \in Registered' : d = c \/ d \in Registered
  BY RegisterStep
<1>2. sweep.must \subseteq Registered
  BY DEF SweepInv, Running
<1>3. sweep \in Sweeps /\ sweep.i \in Nat
  BY DEF HandleInv, TableTypes, Sweeps
<1>4. ASSUME NEW d \in Registered'
      PROVE  Its(d)' # 0
  <2>1. CASE d = c
    <3>1. pending'[c] # 0
      <4>1. HANDLE_SPACE \in Nat /\ HANDLE_SPACE > 0
        BY SpaceAssumption
      <4>2. Harbor * HANDLE_SPACE = HANDLE_SPACE
        BY <4>1
      <4>3. pending'[c] \in Int
        BY <1>1, <4>1 DEF HandleInv, PendingInv, Handles
      <4>4. QED
        BY <1>1, <4>1, <4>2, <4>3
    <3>2. QED
      BY <1>1, <2>1, <3>1 DEF Its
  <2>2. CASE d # c
    <3>1. d \in Registered
      BY <1>1, <2>2
    <3>2. Its(d) # 0 /\ Its(d) = handle[d]
      BY <1>1, <3>1 DEF SweepInv, Its
    <3>3. QED
      BY <1>1, <2>2, <3>2 DEF Its
  <2>3. QED
    BY <2>1, <2>2
<1>5. sweep'.must \subseteq Running'
  BY <1>1, <1>2 DEF Running
<1>6. ASSUME NEW d \in sweep.must
      PROVE  /\ handle[d] % slot_size' \in Int /\ handle[d] % slot_size \in Int
             /\ handle[d] % slot_size' >= handle[d] % slot_size
             /\ handle[d] % slot_size >= sweep.i
  <2>1. d \in Running /\ d \in Running' /\ d \in Registered
    BY <1>1, <1>2, <1>5 DEF SweepInv
  <2>2. handle[d] % slot_size \in Int
    <3>1. handle[d] % slot_size \in 0 .. slot_size - 1
      BY <2>1, RunningPlaced
    <3>2. QED
      BY <3>1
  <2>3. handle[d] % slot_size' \in Int
    <3>1. handle[d] \in Handles /\ TableTypes'
      BY <1>1, <2>1, RunningPlaced DEF HandleInv
    <3>2. PICK m \in Nat : m = slot_size' /\ m > 0
      BY <3>1, SpaceAssumption, SizeAssumption DEF TableTypes
    <3>3. handle[d] \in Nat
      BY <3>1, SpaceAssumption DEF Handles
    <3>4. handle[d] % m \in 0 .. m - 1
      BY <3>2, <3>3, ModDef
    <3>5. QED
      BY <3>2, <3>4
  <2>4. QED
    BY <1>1, <2>1, <2>2, <2>3 DEF SweepInv
<1>7. \A d \in sweep.must : handle[d] % slot_size' >= sweep.i
  BY <1>3, <1>6
<1>8. ASSUME sweep.at = "retire", NEW d \in sweep.must, handle[d] % slot_size' = sweep.i
      PROVE  sweep.handle = handle[d]
  <2>1. handle[d] % slot_size = sweep.i
    BY <1>3, <1>6, <1>8
  <2>2. QED
    BY <1>8, <2>1 DEF SweepInv
<1>9. QED
  BY <1>1, <1>4, <1>5, <1>7, <1>8 DEF SweepInv

(* A retirement, by the sweep or by someone else, takes one context off    *)
(* its list.                                                               *)
LEMMA SweepRetire ==
  ASSUME HandleInv, SweepInv,
         \/ \E c \in Running : skynet_handle_retire(handle[c])
         \/ RetireAllRetires /\ sweep.handle # 0 /\ Lookup(sweep.handle) # NULL
  PROVE  SweepInv'
<1>1. PICK c \in Running :
        /\ HandleInv' /\ UNCHANGED <<slot_size, pending>>
        /\ handle' = [handle EXCEPT ![c] = 0]
        /\ Registered' = Registered \ {c}
        /\ sweep'.must = sweep.must \ {c}
        /\ \/ sweep'.at = sweep.at /\ sweep'.i = sweep.i /\ sweep'.handle = sweep.handle
           \/ /\ c = Lookup(sweep.handle) /\ sweep.at = "retire"
              /\ sweep'.at = "read" /\ sweep'.i = sweep.i + 1
  BY RetireCalls
<1>2. sweep.i \in Nat /\ handle \in [Ctx -> Handles] /\ Registered \subseteq Ctx
  BY DEF HandleInv, TableTypes, Sweeps, Registered
<1>3. \A d \in Ctx \ {c} : handle'[d] = handle[d]
  BY <1>1, <1>2
<1>4. \A d \in Registered' : Its(d)' # 0
  BY <1>1, <1>2, <1>3 DEF SweepInv, Its
<1>5. sweep'.must \subseteq Running'
  BY <1>1 DEF SweepInv, Running
<1>6. \A d \in sweep'.must : /\ d \in sweep.must /\ d \in Running /\ d # c /\ d \in Ctx
                             /\ handle'[d] = handle[d]
                             /\ handle[d] % slot_size >= sweep.i
  BY <1>1, <1>2, <1>3 DEF SweepInv, Running
<1>7. CASE sweep'.at = sweep.at /\ sweep'.i = sweep.i /\ sweep'.handle = sweep.handle
  <2>1. sweep'.at \in {"idle", "done"} => sweep'.must = {}
    BY <1>1, <1>7 DEF SweepInv
  <2>2. \A d \in sweep'.must : handle'[d] % slot_size' >= sweep'.i
    BY <1>1, <1>6, <1>7
  <2>3. sweep'.at = "retire" =>
          \A d \in sweep'.must : handle'[d] % slot_size' = sweep'.i => sweep'.handle = handle'[d]
    BY <1>1, <1>6, <1>7 DEF SweepInv
  <2>4. QED
    BY <1>4, <1>5, <2>1, <2>2, <2>3 DEF SweepInv
<1>8. CASE /\ c = Lookup(sweep.handle) /\ sweep.at = "retire"
           /\ sweep'.at = "read" /\ sweep'.i = sweep.i + 1
  <2>1. ASSUME NEW d \in sweep'.must
        PROVE  handle'[d] % slot_size' >= sweep'.i
    <3>1. PICK r \in Int : r = handle[d] % slot_size
      <4>1. handle[d] % slot_size \in 0 .. slot_size - 1
        BY <1>6, RunningPlaced
      <4>2. QED
        BY <4>1
    <3>2. r # sweep.i
      <4>1. SUFFICES ASSUME r = sweep.i PROVE FALSE
        OBVIOUS
      <4>2. sweep.handle = handle[d]
        BY <1>6, <1>8, <3>1, <4>1 DEF SweepInv
      <4>3. Lookup(handle[d]) = d
        BY <1>6, RunningPlaced
      <4>4. QED
        BY <1>6, <1>8, <4>2, <4>3
    <3>3. r >= sweep.i
      BY <1>6, <3>1
    <3>4. r >= sweep.i + 1
      BY <1>2, <3>2, <3>3
    <3>5. QED
      BY <1>1, <1>6, <1>8, <3>1, <3>4
  <2>2. QED
    BY <1>4, <1>5, <1>8, <2>1 DEF SweepInv
<1>9. QED
  BY <1>1, <1>7, <1>8


(* The steps of a sweep that retire nobody.                                *)
LEMMA SweepRests ==
  ASSUME HandleInv, SweepInv, Rests,
         \/ RetireAllRetires /\ (sweep.handle = 0 \/ Lookup(sweep.handle) = NULL)
         \/ RetireAllBegins \/ RetireAllReads \/ RetireAllEnds \/ UNCHANGED sweep
  PROVE  SweepInv'
<1>1. TableTypes /\ sweep \in Sweeps /\ sweep.i \in Nat
  BY DEF HandleInv, TableTypes, Sweeps
<1>2. UNCHANGED <<slot_size, slot, handle, pending>>
  BY DEF Rests
<1>3. Registered' = Registered /\ Running' = Running
  BY <1>2 DEF Registered, Running
<1>4. \A d \in Registered' : Its(d)' # 0
  BY <1>2, <1>3 DEF SweepInv, Its
<1>5. ASSUME NEW d \in Running
      PROVE  /\ handle[d] % slot_size \in 0 .. slot_size - 1
             /\ handle[d] % slot_size \in Int /\ slot_size \in Int
             /\ slot[handle[d] % slot_size] = d /\ d # NULL
             /\ Lookup(handle[d]) = d /\ handle[d] # 0
  <2>1. d \in Registered /\ Its(d) = handle[d]
    BY DEF Running, Its
  <2>2. slot_size \in Int
    BY <1>1, Sizes
  <2>3. handle[d] % slot_size \in 0 .. slot_size - 1
    BY RunningPlaced
  <2>4. handle[d] # 0
    BY <2>1 DEF SweepInv
  <2>5. QED
    BY <2>2, <2>3, <2>4, RunningPlaced
<1>6. sweep.must \subseteq Running
  BY DEF SweepInv
<1>7. CASE RetireAllRetires /\ (sweep.handle = 0 \/ Lookup(sweep.handle) = NULL)
  <2>1. sweep' = [sweep EXCEPT !.at = "read", !.i = @ + 1] /\ sweep.at = "retire"
    BY <1>7 DEF RetireAllRetires
  <2>2. sweep'.at = "read" /\ sweep'.i = sweep.i + 1 /\ sweep'.must = sweep.must
    BY <1>1, <2>1 DEF Sweeps
  <2>3. ASSUME NEW d \in sweep.must
        PROVE  handle[d] % slot_size >= sweep.i + 1
    <3>1. handle[d] % slot_size # sweep.i
      BY <1>5, <1>6, <1>7, <2>1 DEF SweepInv
    <3>2. handle[d] % slot_size >= sweep.i /\ handle[d] % slot_size \in Int
      BY <1>5, <1>6 DEF SweepInv
    <3>3. QED
      BY <1>1, <3>1, <3>2
  <2>4. QED
    BY <1>2, <1>3, <1>4, <1>6, <2>2, <2>3 DEF SweepInv
<1>8. ASSUME sweep'.at = "read", sweep'.i = 0, sweep'.must = Running
      PROVE  SweepInv'
  <2>1. \A d \in Running : handle[d] % slot_size >= 0
    BY <1>5
  <2>2. QED
    BY <1>2, <1>3, <1>4, <1>8, <2>1 DEF SweepInv
<1>9. CASE RetireAllBegins
  BY <1>8, <1>9 DEF RetireAllBegins, NoSweep
<1>10. CASE RetireAllReads
  <2>1. CASE sweep.i < slot_size
    <3>1. PICK h : h = IF slot[sweep.i] = NULL THEN 0 ELSE handle[slot[sweep.i]]
      OBVIOUS
    <3>2. sweep' = [sweep EXCEPT !.at = "retire", !.handle = h]
      BY <1>10, <2>1, <3>1 DEF RetireAllReads
    <3>3. /\ sweep'.at = "retire" /\ sweep'.i = sweep.i /\ sweep'.must = sweep.must
          /\ sweep'.handle = h
      BY <1>1, <3>2 DEF Sweeps
    <3>4. ASSUME NEW d \in sweep.must, handle[d] % slot_size = sweep.i
          PROVE  h = handle[d]
      BY <1>5, <1>6, <3>1, <3>4
    <3>5. QED
      BY <1>2, <1>3, <1>4, <1>6, <3>3, <3>4 DEF SweepInv
  <2>2. CASE ~(sweep.i < slot_size)
    <3>1. ASSUME NEW d \in sweep.must
          PROVE  FALSE
      <4>1. handle[d] % slot_size >= sweep.i
        BY DEF SweepInv
      <4>2. handle[d] % slot_size \in 0 .. slot_size - 1 /\ slot_size \in Int
        BY <1>5, <1>6
      <4>3. QED
        BY <1>1, <2>2, <4>1, <4>2
    <3>2. CASE sweep.n = 0
      <4>1. sweep'.at = "done" /\ sweep'.must = sweep.must
        BY <1>1, <1>10, <2>2, <3>2 DEF RetireAllReads, Sweeps
      <4>2. sweep'.must = {}
        BY <3>1, <4>1
      <4>3. QED
        BY <1>3, <1>4, <4>1, <4>2 DEF SweepInv
    <3>3. CASE sweep.n # 0
      <4>1. sweep' = [sweep EXCEPT !.i = 0, !.n = 0, !.must = Running] /\ sweep.at = "read"
        BY <1>10, <2>2, <3>3 DEF RetireAllReads
      <4>2. sweep'.at = "read" /\ sweep'.i = 0 /\ sweep'.must = Running
        BY <1>1, <4>1 DEF Sweeps
      <4>3. QED
        BY <1>8, <4>2
    <3>4. QED
      BY <3>2, <3>3
  <2>3. QED
    BY <2>1, <2>2
<1>11. CASE RetireAllEnds
  <2>1. sweep'.at = "idle" /\ sweep'.must = {}
    BY <1>11 DEF RetireAllEnds, NoSweep
  <2>2. QED
    BY <1>3, <1>4, <2>1 DEF SweepInv
<1>12. CASE UNCHANGED sweep
  BY <1>2, <1>3, <1>4, <1>12 DEF SweepInv
<1>13. QED
  BY <1>7, <1>9, <1>10, <1>11, <1>12

LEMMA SweepStep ==
  ASSUME HandleInv, SweepInv, Launchers <= 1, Harbor = 1, [Next]_vars
  PROVE  SweepInv'
<1>1. CASE \E c \in Ctx : skynet_handle_register(c)
  BY <1>1, SweepRegister
<1>2. CASE \E c \in Ctx : StoreHandle(c)
  <2>1. PICK c \in Ctx : StoreHandle(c)
    BY <1>2
  <2>2. /\ HandleInv' /\ UNCHANGED <<table, sweep>> /\ Registered' = Registered
        /\ Running \subseteq Running'
        /\ \A d \in Ctx : Its(d)' = Its(d)
        /\ \A d \in Running : handle'[d] = handle[d]
    BY <2>1, StoreStep
  <2>3. slot_size' = slot_size /\ sweep.must \subseteq Running /\ Registered \subseteq Ctx
    BY <2>2 DEF table, SweepInv, Registered
  <2>4. \A d \in Registered' : Its(d)' # 0
    BY <2>2, <2>3 DEF SweepInv
  <2>5. \A d \in sweep.must : handle'[d] = handle[d]
    BY <2>2, <2>3
  <2>6. QED
    BY <2>2, <2>3, <2>4, <2>5 DEF SweepInv
<1>3. CASE \/ \E c \in Running : skynet_handle_retire(handle[c])
           \/ RetireAllRetires /\ sweep.handle # 0 /\ Lookup(sweep.handle) # NULL
  BY <1>3, SweepRetire
<1>4. CASE /\ Rests
           /\ \/ RetireAllRetires /\ (sweep.handle = 0 \/ Lookup(sweep.handle) = NULL)
              \/ RetireAllBegins \/ RetireAllReads \/ RetireAllEnds \/ UNCHANGED sweep
  BY <1>4, SweepRests
<1>5. QED
  BY <1>1, <1>2, <1>3, <1>4, NextSteps

LEMMA SweepInit ==
  ASSUME Init
  PROVE  SweepInv
<1>1. Registered = {}
  <2>1. \A i \in 0 .. slot_size - 1 : slot[i] = NULL
    BY DEF Init
  <2>2. QED
    BY <2>1, NullAssumption DEF Registered
<1>2. sweep.at = "idle" /\ sweep.must = {}
  BY DEF Init, NoSweep
<1>3. QED
  BY <1>1, <1>2 DEF SweepInv

(* skynet_handle_retireall ends only when every service that was running   *)
(* when its last pass began has been retired, on a node of a harbor (where *)
(* no handle is 0, the value that stands for an empty slot in the code)    *)
(* and with one thread launching at a time.                                *)
THEOREM SweepsMissNobody ==
  Launchers <= 1 /\ Harbor = 1 => (Spec => []RetireAllSweeps)
<1> SUFFICES ASSUME Launchers <= 1, Harbor = 1
             PROVE  Spec => []RetireAllSweeps
  OBVIOUS
<1>1. Init => SweepInv
  BY SweepInit
<1>2. HandleInv /\ SweepInv /\ [Next]_vars => SweepInv'
  BY SweepStep
<1>3. SweepInv => RetireAllSweeps
  BY DEF SweepInv, RetireAllSweeps
<1>4. Spec => []HandleInv
  BY HandleInvariant
<1>5. QED
  BY <1>1, <1>2, <1>3, <1>4, PTL DEF Spec


-----------------------------------------------------------------------------
(***************************************************************************)
(* The names.  The array stays sorted; over a sorted array the binary      *)
(* search is a recursive function with a closed form, so it is shown to    *)
(* exist by exhibiting that form and to equal it by induction over the     *)
(* range searched.                                                         *)
(***************************************************************************)
NameInv ==
  /\ \E S : name \in Seq(S)
  /\ \A i \in DOMAIN name : name[i].name \in Nat
  /\ \A i, j \in DOMAIN name : i < j => name[i].name < name[j].name

LEMMA NameFacts ==
  ASSUME NameInv
  PROVE  Len(name) \in Nat /\ DOMAIN name = 1 .. Len(name)
  BY DEF NameInv

(* p parts the array (positions from 0): the names before it are smaller   *)
(* than x, and none from it on is.                                         *)
Parts(p, x) ==
  /\ p \in 0 .. Len(name)
  /\ \A j \in 0 .. Len(name) - 1 : j < p => name[j + 1].name < x
  /\ \A j \in 0 .. Len(name) - 1 : j >= p => name[j + 1].name >= x

Hit(p, x) == p < Len(name) /\ name[p + 1].name = x

LEMMA PartExists ==
  ASSUME NameInv, NEW x \in Nat
  PROVE  \E p \in 0 .. Len(name) : Parts(p, x)
<1>1. PICK n : n = Len(name) /\ n \in Nat /\ DOMAIN name = 1 .. n
  BY NameFacts
<1>2. \A j \in 0 .. n - 1 : j + 1 \in DOMAIN name /\ name[j + 1].name \in Nat
  BY <1>1 DEF NameInv
<1> DEFINE Above(p) == \A j \in 0 .. n - 1 : j >= p => name[j + 1].name >= x
           S == {p \in 0 .. n : Above(p)}
<1>3. n \in S /\ S \subseteq Nat
  BY <1>1
<1>4. PICK p \in S : \A q \in S : p <= q
  <2> HIDE DEF S
  <2> QED BY <1>3, LeastNat
<1>5. p \in 0 .. n /\ Above(p)
  OBVIOUS
<1>6. ASSUME NEW j \in 0 .. n - 1, j < p PROVE name[j + 1].name < x
  <2>1. p - 1 \in 0 .. n - 1 /\ p - 1 \notin S
    <3>1. p \in Int /\ n \in Int /\ p <= n /\ j \in Int /\ 0 <= j /\ j < p
      BY <1>1, <1>5, <1>6
    <3>2. p - 1 \in 0 .. n - 1 /\ ~(p <= p - 1)
      BY <3>1
    <3> HIDE DEF S
    <3>3. QED
      BY <1>4, <3>2
  <2>2. ~Above(p - 1)
    BY <1>1, <2>1
  <2>3. PICK i \in 0 .. n - 1 : i >= p - 1 /\ ~(name[i + 1].name >= x)
    BY <2>2
  <2>4. i = p - 1
    BY <1>1, <1>5, <2>1, <2>3
  <2>5. name[p - 1 + 1].name < x
    BY <1>2, <2>1, <2>3, <2>4
  <2>6. CASE j = p - 1
    BY <2>5, <2>6
  <2>7. CASE j # p - 1
    <3>1. j + 1 < p - 1 + 1 /\ j + 1 \in DOMAIN name /\ p - 1 + 1 \in DOMAIN name
      BY <1>1, <1>2, <1>5, <1>6, <2>1, <2>7
    <3>2. name[j + 1].name < name[p - 1 + 1].name
      BY <3>1 DEF NameInv
    <3>3. QED
      BY <1>2, <2>1, <2>5, <3>2
  <2>8. QED
    BY <2>6, <2>7
<1>7. QED
  BY <1>1, <1>5, <1>6 DEF Parts

(* What the search of the positions b .. e answers.                        *)
Answer(p, x, b, e) ==
  IF b > e THEN [found |-> FALSE, at |-> b]
  ELSE IF Hit(p, x) /\ b <= p /\ p <= e THEN [found |-> TRUE, at |-> p]
  ELSE IF p < b THEN [found |-> FALSE, at |-> b]
  ELSE IF p > e THEN [found |-> FALSE, at |-> e + 1]
  ELSE [found |-> FALSE, at |-> p]

(* The answer, one step of the search later.                               *)
Halves(p, x, b, e, m) ==
  /\ m \in b .. e /\ m + 1 \in 0 .. Len(name) /\ m - 1 \in -1 .. Len(name) - 1
  /\ name[m + 1].name = x => Answer(p, x, b, e) = [found |-> TRUE, at |-> m]
  /\ name[m + 1].name # x /\ name[m + 1].name < x => Answer(p, x, b, e) = Answer(p, x, m + 1, e)
  /\ name[m + 1].name # x /\ ~(name[m + 1].name < x) => Answer(p, x, b, e) = Answer(p, x, b, m - 1)

LEMMA AnswerStep ==
  ASSUME NameInv, NEW x \in Nat, NEW p, Parts(p, x),
         NEW b \in 0 .. Len(name), NEW e \in -1 .. Len(name) - 1, b <= e, NEW m, m = (b + e) \div 2
  PROVE  Halves(p, x, b, e, m)
<1>1. PICK n : n = Len(name) /\ n \in Nat /\ DOMAIN name = 1 .. n
  BY NameFacts
<1>2. b \in Int /\ e \in Int /\ p \in Int /\ 0 <= b /\ e <= n - 1 /\ 0 <= p /\ p <= n
  BY <1>1 DEF Parts
<1>3. m \in Int /\ b <= m /\ m <= e
  BY <1>2
<1>4. m \in 0 .. n - 1 /\ m + 1 \in DOMAIN name /\ name[m + 1].name \in Nat
  BY <1>1, <1>2, <1>3 DEF NameInv
<1>5. PICK y \in Nat : y = name[m + 1].name
  BY <1>4
<1>6. m < p => y < x
  BY <1>1, <1>4, <1>5 DEF Parts
<1>7. m >= p => y >= x
  BY <1>1, <1>4, <1>5 DEF Parts
<1>8. p = m => (Hit(p, x) <=> y = x)
  BY <1>1, <1>2, <1>3, <1>5 DEF Hit
<1>9. Hit(p, x) /\ p # m => y # x
  <2>1. SUFFICES ASSUME Hit(p, x), p # m, y = x PROVE FALSE
    OBVIOUS
  <2>2. p < n /\ name[p + 1].name = x /\ p < m
    BY <1>1, <1>2, <1>3, <1>6, <2>1 DEF Hit
  <2>3. p + 1 \in DOMAIN name /\ p + 1 < m + 1
    BY <1>1, <1>2, <1>3, <2>2
  <2>4. name[p + 1].name < name[m + 1].name
    BY <1>4, <2>3 DEF NameInv
  <2>5. QED
    BY <1>5, <2>1, <2>2, <2>4
<1>10. ~Hit(p, x) => y # x
  <2>1. SUFFICES ASSUME ~Hit(p, x), y = x PROVE FALSE
    OBVIOUS
  <2>2. p <= m /\ p # m
    BY <1>2, <1>3, <1>6, <1>8, <2>1
  <2>3. p \in 0 .. n - 1 /\ p + 1 \in DOMAIN name /\ p + 1 < m + 1
    BY <1>1, <1>2, <1>3, <2>2
  <2>4. name[p + 1].name >= x /\ name[p + 1].name \in Nat
    BY <1>1, <1>2, <2>3, SMTT(30) DEF Parts, NameInv
  <2>5. name[p + 1].name < name[m + 1].name
    BY <1>4, <2>3 DEF NameInv
  <2>6. QED
    BY <1>5, <2>1, <2>4, <2>5
<1>11. y = x => Hit(p, x) /\ p = m
  BY <1>9, <1>10
<1>12. CASE y = x
  BY <1>1, <1>2, <1>3, <1>5, <1>11, <1>12 DEF Answer, Halves
<1>13. CASE y < x
  <2>1. p > m
    BY <1>2, <1>3, <1>7, <1>13
  <2>2. Answer(p, x, b, e) = Answer(p, x, m + 1, e)
    <3>1. CASE Hit(p, x) /\ p <= e
      <4>1. Answer(p, x, b, e) = [found |-> TRUE, at |-> p]
        BY <1>2, <1>3, <2>1, <3>1 DEF Answer
      <4>2. Answer(p, x, m + 1, e) = [found |-> TRUE, at |-> p]
        BY <1>2, <1>3, <2>1, <3>1 DEF Answer
      <4>3. QED
        BY <4>1, <4>2
    <3>2. CASE p > e
      <4>1. Answer(p, x, b, e) = [found |-> FALSE, at |-> e + 1]
        BY <1>2, <1>3, <2>1, <3>2 DEF Answer
      <4>2. Answer(p, x, m + 1, e) = [found |-> FALSE, at |-> e + 1]
        <5>1. m + 1 \in Int /\ (m + 1 > e => m + 1 = e + 1) /\ ~(p <= e) /\ ~(p < m + 1)
          BY <1>2, <1>3, <2>1, <3>2
        <5>2. CASE m + 1 > e
          BY <5>1, <5>2 DEF Answer
        <5>3. CASE ~(m + 1 > e)
          BY <3>2, <5>1, <5>3 DEF Answer
        <5>4. QED
          BY <5>2, <5>3
      <4>3. QED
        BY <4>1, <4>2
    <3>3. CASE ~Hit(p, x) /\ p <= e
      <4>1. Answer(p, x, b, e) = [found |-> FALSE, at |-> p]
        BY <1>2, <1>3, <2>1, <3>3 DEF Answer
      <4>2. Answer(p, x, m + 1, e) = [found |-> FALSE, at |-> p]
        BY <1>2, <1>3, <2>1, <3>3 DEF Answer
      <4>3. QED
        BY <4>1, <4>2
    <3>4. QED
      BY <1>2, <3>1, <3>2, <3>3
  <2>3. m \in b .. e /\ m + 1 \in 0 .. Len(name) /\ m - 1 \in -1 .. Len(name) - 1
    BY <1>1, <1>2, <1>3
  <2>4. name[m + 1].name # x /\ name[m + 1].name < x
    BY <1>5, <1>13
  <2>5. QED
    BY <2>2, <2>3, <2>4 DEF Halves
<1>14. CASE y > x
  <2>1. p <= m /\ (Hit(p, x) => p # m)
    BY <1>2, <1>3, <1>6, <1>8, <1>14
  <2>2. Answer(p, x, b, e) = Answer(p, x, b, m - 1)
    <3>1. CASE p < b
      <4>1. Answer(p, x, b, e) = [found |-> FALSE, at |-> b]
        BY <1>2, <1>3, <2>1, <3>1 DEF Answer
      <4>2. Answer(p, x, b, m - 1) = [found |-> FALSE, at |-> b]
        BY <1>2, <1>3, <2>1, <3>1 DEF Answer
      <4>3. QED
        BY <4>1, <4>2
    <3>2. CASE Hit(p, x) /\ b <= p
      <4>1. Answer(p, x, b, e) = [found |-> TRUE, at |-> p]
        BY <1>2, <1>3, <2>1, <3>2 DEF Answer
      <4>2. Answer(p, x, b, m - 1) = [found |-> TRUE, at |-> p]
        BY <1>2, <1>3, <2>1, <3>2 DEF Answer
      <4>3. QED
        BY <4>1, <4>2
    <3>3. CASE ~Hit(p, x) /\ b <= p
      <4>1. Answer(p, x, b, e) = [found |-> FALSE, at |-> p]
        BY <1>2, <1>3, <2>1, <3>3 DEF Answer
      <4>2. Answer(p, x, b, m - 1) = [found |-> FALSE, at |-> p]
        <5>1. ~(p < b) /\ (b > m - 1 => b = p) /\ (p > m - 1 => m - 1 + 1 = p)
          BY <1>2, <1>3, <2>1, <3>3
        <5>2. CASE b > m - 1
          BY <5>1, <5>2 DEF Answer
        <5>3. CASE ~(b > m - 1)
          BY <3>3, <5>1, <5>3 DEF Answer
        <5>4. QED
          BY <5>2, <5>3
      <4>3. QED
        BY <4>1, <4>2
    <3>4. QED
      BY <1>2, <3>1, <3>2, <3>3
  <2>3. m \in b .. e /\ m + 1 \in 0 .. Len(name) /\ m - 1 \in -1 .. Len(name) - 1
    BY <1>1, <1>2, <1>3
  <2>4. name[m + 1].name # x /\ ~(name[m + 1].name < x)
    BY <1>5, <1>14
  <2>5. QED
    BY <2>2, <2>3, <2>4 DEF Halves
<1>15. QED
  BY <1>5, <1>12, <1>13, <1>14


(* The body of the search.                                                 *)
Body(s, x, b, e) ==
  LET mid == (b + e) \div 2
  IN  IF b > e THEN [found |-> FALSE, at |-> b]
      ELSE IF name[mid + 1].name = x THEN [found |-> TRUE, at |-> mid]
      ELSE IF name[mid + 1].name < x THEN s[<<mid + 1, e>>]
      ELSE s[<<b, mid - 1>>]

Begins == 0 .. Len(name)
Ends   == -1 .. Len(name) - 1

(* A function that gives the answers on smaller ranges gives the answer.   *)
LEMMA BodyAnswers ==
  ASSUME NameInv, NEW x \in Nat, NEW p, Parts(p, x), NEW s, NEW b \in Begins, NEW e \in Ends,
         \A c \in Begins, d \in Ends : d - c < e - b => s[<<c, d>>] = Answer(p, x, c, d)
  PROVE  Body(s, x, b, e) = Answer(p, x, b, e)
<1>1. Len(name) \in Nat /\ b \in Int /\ e \in Int
  BY NameFacts DEF Begins, Ends
<1>2. CASE b > e
  BY <1>2 DEF Body, Answer
<1>3. CASE b <= e
  <2>1. PICK m : m = (b + e) \div 2
    OBVIOUS
  <2>2. /\ m \in b .. e /\ m + 1 \in Begins /\ m - 1 \in Ends
        /\ name[m + 1].name = x => Answer(p, x, b, e) = [found |-> TRUE, at |-> m]
        /\ name[m + 1].name # x /\ name[m + 1].name < x => Answer(p, x, b, e) = Answer(p, x, m + 1, e)
        /\ name[m + 1].name # x /\ ~(name[m + 1].name < x) => Answer(p, x, b, e) = Answer(p, x, b, m - 1)
    <3>1. b \in 0 .. Len(name) /\ e \in -1 .. Len(name) - 1
      BY DEF Begins, Ends
    <3>2. Halves(p, x, b, e, m)
      BY <1>3, <2>1, <3>1, AnswerStep
    <3>3. QED
      BY <3>2 DEF Begins, Ends, Halves
  <2>3. e - (m + 1) < e - b /\ (m - 1) - b < e - b /\ ~(b > e)
    BY <1>1, <1>3, <2>2
  <2>4. s[<<m + 1, e>>] = Answer(p, x, m + 1, e) /\ s[<<b, m - 1>>] = Answer(p, x, b, m - 1)
    BY <2>2, <2>3
  <2>5. CASE name[m + 1].name = x
    BY <2>1, <2>2, <2>3, <2>5 DEF Body
  <2>6. CASE name[m + 1].name # x /\ name[m + 1].name < x
    BY <2>1, <2>2, <2>3, <2>4, <2>6 DEF Body
  <2>7. CASE name[m + 1].name # x /\ ~(name[m + 1].name < x)
    BY <2>1, <2>2, <2>3, <2>4, <2>7 DEF Body
  <2>8. QED
    BY <2>5, <2>6, <2>7
<1>4. QED
  BY <1>1, <1>2, <1>3

(* Whatever satisfies the search's equation gives the answers.             *)
LEMMA SearchUnique ==
  ASSUME NameInv, NEW x \in Nat, NEW p, Parts(p, x), NEW s,
         \A b \in Begins, e \in Ends : s[<<b, e>>] = Body(s, x, b, e)
  PROVE  \A b \in Begins, e \in Ends : s[<<b, e>>] = Answer(p, x, b, e)
<1>1. Len(name) \in Nat /\ Begins \subseteq Int /\ Ends \subseteq Int
  BY NameFacts DEF Begins, Ends
<1>2. SUFFICES ASSUME NEW b \in Begins, NEW e \in Ends, s[<<b, e>>] # Answer(p, x, b, e) PROVE FALSE
  OBVIOUS
<1> DEFINE Wrong(k) == \E c \in Begins, d \in Ends : k = d - c + Len(name) + 1 /\ s[<<c, d>>] # Answer(p, x, c, d)
           S == {k \in Nat : Wrong(k)}
<1>3. \A c \in Begins, d \in Ends : d - c + Len(name) + 1 \in Nat
  BY <1>1 DEF Begins, Ends
<1>4. S # {}
  BY <1>2, <1>3
<1>5. PICK k \in S : \A j \in S : k <= j
  <2>1. S \subseteq Nat
    OBVIOUS
  <2> HIDE DEF S
  <2> QED BY <1>4, <2>1, LeastNat
<1>6. PICK c, d : c \in Begins /\ d \in Ends /\ k = d - c + Len(name) + 1 /\ s[<<c, d>>] # Answer(p, x, c, d)
  OBVIOUS
<1>7. ASSUME NEW c2 \in Begins, NEW d2 \in Ends, d2 - c2 < d - c PROVE s[<<c2, d2>>] = Answer(p, x, c2, d2)
  <2>1. SUFFICES ASSUME s[<<c2, d2>>] # Answer(p, x, c2, d2) PROVE FALSE
    OBVIOUS
  <2>2. PICK j : j = d2 - c2 + Len(name) + 1
    OBVIOUS
  <2>3. j \in S
    BY <1>3, <2>1, <2>2
  <2>4. c2 \in Int /\ d2 \in Int /\ c \in Int /\ d \in Int /\ Len(name) \in Int
    BY <1>1, <1>6
  <2>5. j < k
    BY <1>6, <1>7, <2>2, <2>4
  <2>6. k <= j
    <3> HIDE DEF S
    <3> QED BY <1>5, <2>3
  <2>7. QED
    BY <2>2, <2>4, <2>5, <2>6, <1>6
<1>8. Body(s, x, c, d) = Answer(p, x, c, d)
  BY <1>6, <1>7, BodyAnswers
<1>9. QED
  BY <1>6, <1>8

(* The search that BinarySearch defines satisfies its equation: there is a *)
(* function that does.                                                     *)
LEMMA SearchAnswers ==
  ASSUME NameInv, NEW x \in Nat, NEW p, Parts(p, x)
  PROVE  BinarySearch(x) = Answer(p, x, 0, Len(name) - 1)
<1>1. PICK n : n = Len(name) /\ n \in Nat
  BY NameFacts
<1> DEFINE Eqn(s) == s = [r \in (0 .. n) \X (-1 .. n - 1) |-> Body(s, x, r[1], r[2])]
<1>2. BinarySearch(x) = (CHOOSE s : Eqn(s))[<<0, n - 1>>]
  BY <1>1 DEF BinarySearch, Body
<1>3. PICK f : f = [r \in (0 .. n) \X (-1 .. n - 1) |-> Answer(p, x, r[1], r[2])]
  OBVIOUS
<1>4. \A b \in Begins, e \in Ends : f[<<b, e>>] = Answer(p, x, b, e)
  BY <1>1, <1>3 DEF Begins, Ends
<1>5. \A b \in Begins, e \in Ends : Answer(p, x, b, e) = Body(f, x, b, e)
  BY <1>4, BodyAnswers
<1>6. Eqn(f)
  <2>1. \A b \in 0 .. n, e \in -1 .. n - 1 : Answer(p, x, b, e) = Body(f, x, b, e)
    BY <1>1, <1>5 DEF Begins, Ends
  <2>2. [r \in (0 .. n) \X (-1 .. n - 1) |-> Answer(p, x, r[1], r[2])] = [r \in (0 .. n) \X (-1 .. n - 1) |-> Body(f, x, r[1], r[2])]
    BY <2>1
  <2>3. QED
    BY <1>3, <2>2
<1>7. PICK s : s = (CHOOSE ss : Eqn(ss)) /\ Eqn(s)
  BY <1>6
<1>8. \A b \in Begins, e \in Ends : s[<<b, e>>] = Body(s, x, b, e)
  BY <1>1, <1>7 DEF Begins, Ends
<1>9. \A b \in Begins, e \in Ends : s[<<b, e>>] = Answer(p, x, b, e)
  BY <1>8, SearchUnique
<1>10. 0 \in Begins /\ n - 1 \in Ends
  BY <1>1 DEF Begins, Ends
<1>11. QED
  BY <1>1, <1>2, <1>7, <1>9, <1>10


(* Where a name is, and where it belongs.                                  *)
LEMMA SearchFinds ==
  ASSUME NameInv, NEW x \in Nat
  PROVE  /\ BinarySearch(x).found =>
              /\ BinarySearch(x).at + 1 \in DOMAIN name /\ name[BinarySearch(x).at + 1].name = x
         /\ ~BinarySearch(x).found =>
              /\ BinarySearch(x).at \in 0 .. Len(name)
              /\ \A j \in DOMAIN name : j <= BinarySearch(x).at => name[j].name < x
              /\ \A j \in DOMAIN name : j > BinarySearch(x).at => name[j].name > x
         /\ BinarySearch(x).found <=> \E i \in DOMAIN name : name[i].name = x
<1>1. PICK n : n = Len(name) /\ n \in Nat /\ DOMAIN name = 1 .. n
  BY NameFacts
<1>2. PICK p \in 0 .. Len(name) : Parts(p, x)
  BY PartExists
<1>3. p \in Int /\ 0 <= p /\ p <= n
  BY <1>1, <1>2
<1>4. PICK r : r = BinarySearch(x) /\ r = Answer(p, x, 0, n - 1)
  BY <1>1, <1>2, SearchAnswers
<1>5. \A j \in DOMAIN name : name[j].name \in Nat
  BY DEF NameInv
<1>6. ASSUME NEW j \in DOMAIN name PROVE (j <= p => name[j].name < x) /\ (j > p => name[j].name >= x)
  <2>1. j - 1 \in 0 .. n - 1 /\ j - 1 + 1 = j
    BY <1>1
  <2>2. PICK k : k = j - 1
    OBVIOUS
  <2>3. (k < p => name[k + 1].name < x) /\ (k >= p => name[k + 1].name >= x)
    BY <1>1, <1>2, <2>1, <2>2 DEF Parts
  <2>4. k + 1 = j /\ (j <= p => k < p) /\ (j > p => k >= p)
    BY <1>1, <1>3, <2>1, <2>2
  <2>5. QED
    BY <2>3, <2>4
<1>7. CASE Hit(p, x)
  <2>1. p < n /\ name[p + 1].name = x /\ p + 1 \in DOMAIN name
    BY <1>1, <1>3, <1>7 DEF Hit
  <2>2. ~(0 > n - 1) /\ 0 <= p /\ p <= n - 1
    BY <1>1, <1>3, <2>1
  <2>3. r = [found |-> TRUE, at |-> p]
    BY <1>4, <1>7, <2>2 DEF Answer
  <2>4. r.found /\ r.at = p
    BY <2>3
  <2>5. QED
    BY <1>4, <2>1, <2>4
<1>8. CASE ~Hit(p, x)
  <2>1. ASSUME NEW j \in DOMAIN name, j > p PROVE name[j].name > x
    <3>1. p + 1 \in DOMAIN name /\ p < n
      BY <1>1, <1>3, <2>1
    <3>2. name[p + 1].name >= x /\ name[p + 1].name # x
      <4>1. p + 1 > p
        BY <1>3
      <4>2. QED
        BY <1>1, <1>6, <1>8, <3>1, <4>1 DEF Hit
    <3>3. p + 1 = j \/ p + 1 < j
      BY <1>1, <1>3, <2>1
    <3>4. p + 1 < j => name[p + 1].name < name[j].name
      BY <3>1 DEF NameInv
    <3>5. QED
      BY <1>5, <3>1, <3>2, <3>3, <3>4
  <2>2. r = [found |-> FALSE, at |-> p]
    <3>1. CASE n = 0
      <4>1. p = 0 /\ 0 > n - 1
        BY <1>3, <3>1
      <4>2. QED
        BY <1>4, <4>1 DEF Answer
    <3>2. CASE n # 0
      <4>1. ~(0 > n - 1) /\ ~(p < 0) /\ (p > n - 1 => n - 1 + 1 = p)
        BY <1>1, <1>3, <3>2
      <4>2. QED
        BY <1>4, <1>8, <4>1 DEF Answer
    <3>3. QED
      BY <3>1, <3>2
  <2>3. ~r.found /\ r.at = p
    BY <2>2
  <2>4. ~\E i \in DOMAIN name : name[i].name = x
    <3>1. SUFFICES ASSUME NEW i \in DOMAIN name, name[i].name = x PROVE FALSE
      OBVIOUS
    <3>2. i \in Int
      BY <1>1
    <3>3. i <= p \/ i > p
      BY <1>3, <3>2
    <3>4. QED
      BY <1>6, <2>1, <3>1, <3>3
  <2>5. QED
    BY <1>1, <1>3, <1>4, <1>6, <2>1, <2>3, <2>4
<1>9. QED
  BY <1>7, <1>8

(* skynet_handle_findname answers the handle given with the name.          *)
LEMMA SortedFound == NameInv => NamesFound
<1>1. SUFFICES ASSUME NameInv, NEW x \in Name
               PROVE  skynet_handle_findname(x) =
                        IF \E i \in DOMAIN name : name[i].name = x
                        THEN name[CHOOSE i \in DOMAIN name : name[i].name = x].handle
                        ELSE 0
  BY DEF NamesFound
<1>2. x \in Nat
  BY NameAssumption
<1>3. PICK r : r = BinarySearch(x)
  OBVIOUS
<1>4. CASE r.found
  <2>1. r.at + 1 \in DOMAIN name /\ name[r.at + 1].name = x
    BY <1>1, <1>2, <1>3, <1>4, SearchFinds
  <2>2. PICK j : j = CHOOSE i \in DOMAIN name : name[i].name = x
    OBVIOUS
  <2>3. j \in DOMAIN name /\ name[j].name = x
    BY <2>1, <2>2
  <2>4. j = r.at + 1
    <3>1. PICK k : k = r.at + 1
      OBVIOUS
    <3>2. j \in Int /\ k \in Int /\ k \in DOMAIN name /\ name[k].name = x
      BY <1>1, <2>1, <2>3, <3>1, NameFacts
    <3>3. ~(j < k) /\ ~(k < j)
      BY <1>1, <1>2, <2>3, <3>2 DEF NameInv
    <3>4. QED
      BY <3>1, <3>2, <3>3
  <2>5. skynet_handle_findname(x) = name[r.at + 1].handle
    BY <1>3, <1>4 DEF skynet_handle_findname
  <2>6. QED
    BY <2>1, <2>2, <2>4, <2>5
<1>5. CASE ~r.found
  <2>1. ~\E i \in DOMAIN name : name[i].name = x
    BY <1>1, <1>2, <1>3, <1>5, SearchFinds
  <2>2. skynet_handle_findname(x) = 0
    BY <1>3, <1>5 DEF skynet_handle_findname
  <2>3. QED
    BY <2>1, <2>2
<1>6. QED
  BY <1>4, <1>5


(* The kept positions are numbered without a gap, in their order.          *)
Upto(K, i) == {j \in K : j <= i}

LEMMA Ranks ==
  ASSUME NEW n \in Nat, NEW K \in SUBSET (1 .. n)
  PROVE  /\ IsFiniteSet(K) /\ Cardinality(K) \in Nat
         /\ \A i \in Int : IsFiniteSet(Upto(K, i)) /\ Cardinality(Upto(K, i)) \in Nat
         /\ \A i, j \in Int : i <= j => Cardinality(Upto(K, i)) <= Cardinality(Upto(K, j))
<1>1. IsFiniteSet(1 .. n) /\ \A a \in K : a \in Int
  BY FS_Interval
<1>2. IsFiniteSet(K) /\ Cardinality(K) \in Nat
  BY <1>1, FS_Subset, FS_CardinalityType
<1>3. \A i \in Int : IsFiniteSet(Upto(K, i)) /\ Cardinality(Upto(K, i)) \in Nat
  BY <1>2, FS_Subset, FS_CardinalityType DEF Upto
<1>4. ASSUME NEW i \in Int, NEW j \in Int, i <= j PROVE Cardinality(Upto(K, i)) <= Cardinality(Upto(K, j))
  <2>1. Upto(K, i) \subseteq Upto(K, j)
    <3>1. \A a \in K : a <= i => a <= j
      BY <1>1, <1>4
    <3>2. QED
      BY <3>1 DEF Upto
  <2>2. QED
    BY <1>3, <2>1, FS_Subset
<1>5. QED
  BY <1>2, <1>3, <1>4

LEMMA RankReached ==
  ASSUME NEW n \in Nat, NEW K \in SUBSET (1 .. n), NEW k \in 1 .. Cardinality(K)
  PROVE  \E i \in K : Cardinality(Upto(K, i)) = k
<1>1. /\ \A i \in Int : IsFiniteSet(Upto(K, i)) /\ Cardinality(Upto(K, i)) \in Nat
      /\ Cardinality(K) \in Nat
  BY Ranks
<1>2. \A a \in K : a \in Int /\ 1 <= a /\ a <= n
  OBVIOUS
<1> DEFINE S == {i \in Nat : Cardinality(Upto(K, i)) >= k}
<1>3. n \in S
  <2>1. Upto(K, n) = K
    BY <1>2 DEF Upto
  <2>2. QED
    BY <1>1, <2>1
<1>4. PICK i \in S : \A j \in S : i <= j
  <2>1. S \subseteq Nat /\ S # {}
    BY <1>3
  <2> HIDE DEF S
  <2> QED BY <2>1, LeastNat
<1>5. i \in Nat /\ Cardinality(Upto(K, i)) >= k
  OBVIOUS
<1>6. i # 0
  <2>1. SUFFICES ASSUME i = 0 PROVE FALSE
    OBVIOUS
  <2>2. Upto(K, i) = {}
    <3>1. \A a \in K : ~(a <= i)
      BY <1>2, <2>1
    <3>2. QED
      BY <3>1 DEF Upto
  <2>3. QED
    BY <1>1, <1>5, <2>2, FS_EmptySet
<1>7. i - 1 \in Nat /\ i - 1 \notin S
  <2>1. i - 1 \in Nat /\ ~(i <= i - 1)
    BY <1>5, <1>6
  <2> HIDE DEF S
  <2>2. QED
    BY <1>4, <2>1
<1>8. Cardinality(Upto(K, i - 1)) < k
  BY <1>1, <1>7
<1>9. i \in K
  <2>1. SUFFICES ASSUME i \notin K PROVE FALSE
    OBVIOUS
  <2>2. Upto(K, i) = Upto(K, i - 1)
    <3>1. \A a \in K : a <= i <=> a <= i - 1
      BY <1>2, <1>5, <2>1
    <3>2. QED
      BY <3>1 DEF Upto
  <2>3. QED
    BY <1>1, <1>5, <1>8, <2>2
<1>10. Upto(K, i) = Upto(K, i - 1) \cup {i} /\ i \notin Upto(K, i - 1)
  <2>1. ~(i <= i - 1) /\ \A a \in K : a <= i <=> (a <= i - 1 \/ a = i)
    BY <1>2, <1>5
  <2>2. QED
    BY <1>9, <2>1 DEF Upto
<1>11. Cardinality(Upto(K, i)) = Cardinality(Upto(K, i - 1)) + 1
  <2>1. IsFiniteSet(Upto(K, i - 1))
    BY <1>1, <1>7
  <2>2. QED
    BY <1>10, <2>1, FS_AddElement
<1>12. Cardinality(Upto(K, i)) = k
  BY <1>1, <1>5, <1>7, <1>8, <1>11
<1>13. QED
  BY <1>9, <1>12

(* A retired handle's names go and the others stay in order.               *)
LEMMA WithoutSorted ==
  ASSUME NameInv, NEW h, name' = Without(h)
  PROVE  NameInv'
<1>1. PICK n : n = Len(name) /\ n \in Nat /\ DOMAIN name = 1 .. n
  BY NameFacts
<1>2. PICK K : K = {i \in DOMAIN name : name[i].handle # h}
  OBVIOUS
<1>3. K \in SUBSET (1 .. n)
  BY <1>1, <1>2
<1>4. PICK N : N = Cardinality(K) /\ N \in Nat
  BY <1>1, <1>3, Ranks
<1> DEFINE At(k) == CHOOSE i \in K : Cardinality(Upto(K, i)) = k
<1>5. \A k \in 1 .. N : At(k) \in K /\ Cardinality(Upto(K, At(k))) = k
  BY <1>1, <1>3, <1>4, RankReached
<1>6. name' = [k \in 1 .. N |-> name[At(k)]]
  BY <1>2, <1>4 DEF Without, Upto
<1> HIDE DEF At
<1>7. PICK S : name \in Seq(S)
  BY DEF NameInv
<1>8. \A k \in 1 .. N : At(k) \in DOMAIN name /\ At(k) \in Int
  <2>1. \A a \in K : a \in DOMAIN name /\ a \in Int
    BY <1>1, <1>3
  <2>2. QED
    BY <1>5, <2>1
<1>9. name' \in Seq(S) /\ DOMAIN name' = 1 .. N /\ \A k \in 1 .. N : name'[k] = name[At(k)]
  <2>1. \A k \in 1 .. N : name[At(k)] \in S
    BY <1>7, <1>8
  <2>2. name' \in [1 .. N -> S]
    BY <1>6, <2>1
  <2>3. QED
    BY <1>4, <1>6, <2>2
<1>10. ASSUME NEW k \in 1 .. N, NEW l \in 1 .. N, k < l PROVE At(k) < At(l)
  <2>1. SUFFICES ASSUME At(l) <= At(k) PROVE FALSE
    BY <1>8
  <2>2. Cardinality(Upto(K, At(l))) <= Cardinality(Upto(K, At(k)))
    BY <1>1, <1>3, <1>8, <2>1, Ranks
  <2>3. QED
    BY <1>4, <1>5, <1>10, <2>2
<1>11. \A k \in DOMAIN name' : name'[k].name \in Nat
  BY <1>8, <1>9 DEF NameInv
<1>12. \A k, l \in DOMAIN name' : k < l => name'[k].name < name'[l].name
  BY <1>8, <1>9, <1>10 DEF NameInv
<1>13. QED
  BY <1>9, <1>11, <1>12 DEF NameInv

(* A new name goes where the search says.                                  *)
LEMMA InsertSorted ==
  ASSUME NameInv, NEW h, NEW x \in Name, skynet_handle_namehandle(h, x)
  PROVE  NameInv'
<1>1. PICK n : n = Len(name) /\ n \in Nat /\ DOMAIN name = 1 .. n
  BY NameFacts
<1>2. x \in Nat
  BY NameAssumption
<1>3. PICK q : q = BinarySearch(x).at
  OBVIOUS
<1>4. ~BinarySearch(x).found
  BY DEF skynet_handle_namehandle
<1>5. /\ q \in 0 .. n
      /\ \A j \in DOMAIN name : j <= q => name[j].name < x
      /\ \A j \in DOMAIN name : j > q => name[j].name > x
  BY <1>1, <1>2, <1>3, <1>4, SearchFinds
<1>6. PICK v : v = [name |-> x, handle |-> h]
  OBVIOUS
<1>7. v.name = x
  BY <1>6
<1>8. name' = InsertAt(name, q + 1, v)
  BY <1>3, <1>6 DEF skynet_handle_namehandle
<1>9. PICK S : name \in Seq(S)
  BY DEF NameInv
<1>10. /\ name' \in Seq(S \cup {v}) /\ DOMAIN name' = 1 .. n + 1
       /\ \A j \in 1 .. q : name'[j] = name[j]
       /\ name'[q + 1] = v
       /\ \A j \in q + 2 .. n + 1 : name'[j] = name[j - 1]
  <2>1. PICK A, B : A = SubSeq(name, 1, q) /\ B = SubSeq(name, q + 1, n)
    OBVIOUS
  <2>2. name' = A \o <<v>> \o B
    <3>1. (q + 1) - 1 = q
      BY <1>5
    <3>2. name' = SubSeq(name, 1, (q + 1) - 1) \o <<v>> \o SubSeq(name, q + 1, Len(name))
      BY <1>8 DEF InsertAt
    <3>3. QED
      BY <1>1, <2>1, <3>1, <3>2
  <2>3. /\ A \in Seq(S) /\ Len(A) = q /\ \A j \in 1 .. q : A[j] = name[j]
    BY <1>1, <1>5, <1>9, <2>1
  <2>4. /\ B \in Seq(S) /\ Len(B) = n - q /\ \A j \in 1 .. n - q : B[j] = name[q + j]
    BY <1>1, <1>5, <1>9, <2>1
  <2>5. PICK T : T = S \cup {v}
    OBVIOUS
  <2>6. A \in Seq(T) /\ B \in Seq(T) /\ v \in T
    BY <2>3, <2>4, <2>5
  <2>7. PICK C, D : D = <<v>> /\ C = A \o D
    OBVIOUS
  <2>8. /\ C \in Seq(T) /\ Len(C) = q + 1 /\ C[q + 1] = v /\ \A j \in 1 .. q : C[j] = A[j]
    <3>1. D \in Seq(T) /\ Len(D) = 1 /\ D[1] = v
      BY <2>6, <2>7
    <3>2. C \in Seq(T) /\ Len(C) = q + 1
      BY <2>3, <2>6, <2>7, <3>1
    <3>3. \A j \in 1 .. q : C[j] = A[j]
      BY <1>1, <1>5, <2>3, <2>6, <2>7, <3>1
    <3>4. C[q + 1] = D[q + 1 - Len(A)]
      BY <1>1, <1>5, <2>3, <2>6, <2>7, <3>1
    <3>5. q + 1 - Len(A) = 1
      BY <1>5, <2>3
    <3>6. QED
      BY <3>1, <3>2, <3>3, <3>4, <3>5
  <2>9. name' \in Seq(T) /\ Len(name') = n + 1
    BY <1>1, <1>5, <2>2, <2>4, <2>6, <2>7, <2>8
  <2>10. \A j \in 1 .. q + 1 : name'[j] = C[j]
    BY <1>1, <1>5, <2>2, <2>6, <2>7, <2>8
  <2>11. \A j \in q + 2 .. n + 1 : name'[j] = B[j - (q + 1)]
    BY <1>1, <1>5, <2>2, <2>4, <2>6, <2>7, <2>8
  <2>12. \A j \in 1 .. q : name'[j] = name[j]
    BY <1>5, <2>3, <2>8, <2>10
  <2>13. name'[q + 1] = v
    BY <1>5, <2>8, <2>10
  <2>14. ASSUME NEW j \in q + 2 .. n + 1 PROVE name'[j] = name[j - 1]
    <3>1. PICK i : i = j - (q + 1)
      OBVIOUS
    <3>2. i \in 1 .. n - q /\ q + i = j - 1
      BY <1>1, <1>5, <2>14, <3>1
    <3>3. QED
      BY <2>4, <2>11, <3>1, <3>2
  <2>15. DOMAIN name' = 1 .. n + 1
    BY <1>1, <2>9
  <2>16. QED
    BY <2>5, <2>9, <2>12, <2>13, <2>14, <2>15
<1>11. ASSUME NEW j \in DOMAIN name'
       PROVE  \/ j \in DOMAIN name /\ j <= q /\ name'[j] = name[j]
              \/ j = q + 1 /\ name'[j] = v
              \/ j - 1 \in DOMAIN name /\ j > q + 1 /\ name'[j] = name[j - 1]
  <2>1. j \in 1 .. q \/ j = q + 1 \/ j \in q + 2 .. n + 1
    BY <1>1, <1>5, <1>10
  <2>2. CASE j \in 1 .. q
    BY <1>1, <1>5, <1>10, <2>2
  <2>3. CASE j = q + 1
    BY <1>10, <2>3
  <2>4. CASE j \in q + 2 .. n + 1
    BY <1>1, <1>5, <1>10, <2>4
  <2>5. QED
    BY <2>1, <2>2, <2>3, <2>4
<1>12. \A j \in DOMAIN name : name[j].name \in Nat
  BY DEF NameInv
<1>13. \A j \in DOMAIN name' : name'[j].name \in Nat
  BY <1>2, <1>7, <1>11, <1>12
<1>14. ASSUME NEW i \in DOMAIN name', NEW j \in DOMAIN name', i < j PROVE name'[i].name < name'[j].name
  <2>1. i \in Int /\ j \in Int /\ q \in Int
    BY <1>1, <1>5, <1>10
  <2>2. CASE j <= q
    <3>1. i <= q
      BY <1>14, <2>1, <2>2
    <3>2. i \in DOMAIN name /\ name'[i] = name[i] /\ j \in DOMAIN name /\ name'[j] = name[j]
      BY <1>11, <2>1, <2>2, <3>1
    <3>3. QED
      BY <1>14, <3>2 DEF NameInv
  <2>3. CASE j = q + 1
    <3>1. i <= q /\ name'[j] = v
      BY <1>10, <1>14, <2>1, <2>3
    <3>2. i \in DOMAIN name /\ name'[i] = name[i]
      BY <1>11, <2>1, <3>1
    <3>3. QED
      BY <1>5, <1>7, <3>1, <3>2
  <2>4. CASE j > q + 1
    <3>1. j - 1 \in DOMAIN name /\ name'[j] = name[j - 1] /\ j - 1 > q
      BY <1>11, <2>1, <2>4
    <3>2. PICK l : l = j - 1
      OBVIOUS
    <3>3. l \in DOMAIN name /\ name[l].name > x /\ name[l].name \in Nat
      BY <1>5, <1>12, <3>1, <3>2
    <3>4. CASE i <= q
      <4>1. i \in DOMAIN name /\ name'[i] = name[i] /\ i < l
        BY <1>11, <1>14, <2>1, <2>4, <3>2, <3>4
      <4>2. QED
        BY <3>1, <3>2, <3>3, <4>1 DEF NameInv
    <3>5. CASE i = q + 1
      <4>1. name'[i] = v
        BY <1>10, <3>5
      <4>2. QED
        BY <1>2, <1>7, <3>1, <3>2, <3>3, <4>1
    <3>6. CASE i > q + 1
      <4>1. i - 1 \in DOMAIN name /\ name'[i] = name[i - 1] /\ i - 1 < l
        BY <1>11, <1>14, <2>1, <3>2, <3>6
      <4>2. QED
        BY <3>1, <3>2, <3>3, <4>1 DEF NameInv
    <3>7. QED
      BY <2>1, <3>4, <3>5, <3>6
  <2>5. QED
    BY <2>1, <2>2, <2>3, <2>4
<1>15. QED
  BY <1>10, <1>13, <1>14 DEF NameInv

LEMMA NameStep ==
  ASSUME NameInv, [Next]_vars
  PROVE  NameInv'
<1>1. CASE UNCHANGED name
  BY <1>1 DEF NameInv
<1>2. CASE \E h : name' = Without(h)
  BY <1>2, WithoutSorted
<1>3. CASE \E h : \E x \in Name : skynet_handle_namehandle(h, x)
  BY <1>3, InsertSorted
<1>4. ASSUME NEW c \in Ctx, skynet_handle_register(c) \/ StoreHandle(c)
      PROVE  UNCHANGED name
  BY <1>4 DEF skynet_handle_register, StoreHandle
<1>5. ASSUME NEW h, skynet_handle_retire(h)
      PROVE  name' = Without(h)
  BY <1>5 DEF skynet_handle_retire, Retire
<1>6. ASSUME RetireAllRetires
      PROVE  UNCHANGED name \/ name' = Without(sweep.handle)
  BY <1>6 DEF RetireAllRetires, Retire
<1>7. ASSUME RetireAllBegins \/ RetireAllReads \/ RetireAllEnds
      PROVE  UNCHANGED name
  BY <1>7 DEF RetireAllBegins, RetireAllReads, RetireAllEnds
<1>8. CASE UNCHANGED vars
  BY <1>1, <1>8 DEF vars
<1>9. CASE \E c \in Ctx : skynet_handle_register(c) \/ StoreHandle(c)
  BY <1>1, <1>4, <1>9
<1>10. CASE \E c \in Running : skynet_handle_retire(handle[c])
  BY <1>2, <1>5, <1>10
<1>11. CASE \/ \E c \in Running, x \in Name : skynet_handle_namehandle(handle[c], x)
            \/ \E x \in Name : stale # 0 /\ skynet_handle_namehandle(stale, x)
  BY <1>3, <1>11
<1>12. CASE RetireAllRetires
  BY <1>1, <1>2, <1>6, <1>12
<1>13. CASE RetireAllBegins \/ RetireAllReads \/ RetireAllEnds
  BY <1>1, <1>7, <1>13
<1>14. QED
  BY <1>8, <1>9, <1>10, <1>11, <1>12, <1>13 DEF Next

(* skynet_handle_findname finds every name that was given and none that    *)
(* was not, through every insertion by _insert_name and every compaction   *)
(* of the array by skynet_handle_retire, whatever launches overlap.        *)
THEOREM NamesAreFound == Spec => []NamesFound
<1>1. Init => NameInv
  <2>1. SUFFICES ASSUME Init PROVE NameInv
    OBVIOUS
  <2>2. name = <<>>
    BY <2>1 DEF Init
  <2>3. name \in Seq({}) /\ DOMAIN name = {}
    BY <2>2
  <2>4. QED
    BY <2>3 DEF NameInv
<1>2. NameInv /\ [Next]_vars => NameInv'
  BY NameStep
<1>3. NameInv => NamesFound
  BY SortedFound
<1>4. QED
  BY <1>1, <1>2, <1>3, PTL DEF Spec
=============================================================================
