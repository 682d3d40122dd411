-------------------------- MODULE PrimeGroupProofs --------------------------
(***************************************************************************)
(* What the proofs about the targets use of PrimeGroup.                    *)
(***************************************************************************)
EXTENDS PrimeGroup, FiniteSetTheorems, TLAPS

-----------------------------------------------------------------------------
(* Division. *)

(* Multiples of n are no closer than n, *)
LEMMA Multiples == ASSUME NEW n \in Nat \ {0}, NEW m \in Int, m >= 1 PROVE n * m >= n
<1>1. m - 1 \in Nat /\ n * (m - 1) >= 0 /\ n * m = n * (m - 1) + n
  OBVIOUS
<1> QED
  BY <1>1

(* so quotient and remainder are unique. *)
LEMMA ModUnique ==
    ASSUME NEW n \in Nat \ {0}, NEW q \in Int, NEW r \in 0..(n - 1) PROVE (n * q + r) % n = r
<1> DEFINE a == n * q + r
           p == a \div n
           s == a % n
<1>1. a \in Int /\ p \in Int /\ s \in 0..(n - 1) /\ a = n * p + s
  OBVIOUS
<1>2. n * (q - p) = s - r /\ n * (p - q) = r - s
  BY <1>1
<1>3. ~(q - p >= 1)
  BY <1>1, <1>2, Multiples
<1>4. ~(p - q >= 1)
  BY <1>1, <1>2, Multiples
<1>5. p = q
  BY <1>1, <1>3, <1>4
<1> QED
  BY <1>1, <1>5

(* What \div and % are, *)
LEMMA Division ==
    ASSUME NEW n \in Nat \ {0}, NEW a \in Int
    PROVE  /\ a \div n \in Int /\ a % n \in 0..(n - 1)
           /\ a = n * (a \div n) + (a % n)
OBVIOUS

(* and % does not see a multiple of its modulus, *)
LEMMA ModShift ==
    ASSUME NEW n \in Nat \ {0}, NEW a \in Int, NEW k \in Int PROVE (a + n * k) % n = a % n
<1> DEFINE q == a \div n
           r == a % n
<1>1. q \in Int /\ r \in 0..(n - 1) /\ a = n * q + r
  BY Division
<1> HIDE DEF q, r
<1>2. a + n * k = n * (q + k) + r /\ q + k \in Int
  BY <1>1
<1>3. (n * (q + k) + r) % n = r
  BY <1>1, <1>2, ModUnique
<1> QED
  BY <1>2, <1>3 DEF r

(* nor that a factor is a remainder already, *)
LEMMA ModProduct ==
    ASSUME NEW n \in Nat \ {0}, NEW a \in Int, NEW b \in Int
    PROVE  ((a % n) * b) % n = (a * b) % n
<1> DEFINE q == a \div n
           r == a % n
<1>1. q \in Int /\ r \in Int /\ a = n * q + r
  BY Division
<1> HIDE DEF q, r
<1>2. a * b = (n * q + r) * b
  BY <1>1
<1>3. (n * q + r) * b = r * b + n * (q * b) /\ r * b \in Int /\ q * b \in Int
  BY <1>1
<1>4. (r * b + n * (q * b)) % n = (r * b) % n
  BY <1>3, ModShift
<1> QED
  BY <1>2, <1>3, <1>4 DEF r

(* nor a summand. *)
LEMMA ModSum ==
    ASSUME NEW n \in Nat \ {0}, NEW a \in Int, NEW b \in Int
    PROVE  ((a % n) + b) % n = (a + b) % n
<1> DEFINE q == a \div n
           r == a % n
<1>1. q \in Int /\ r \in Int /\ a = n * q + r
  BY Division
<1> HIDE DEF q, r
<1>2. a + b = (r + b) + n * q /\ r + b \in Int
  BY <1>1
<1>3. ((r + b) + n * q) % n = (r + b) % n
  BY <1>1, <1>2, ModShift
<1> QED
  BY <1>2, <1>3 DEF r

(* A prime modulus, in the form in which OrderAssumption has it. *)
Prime(n) == n \in Nat /\ n > 1 /\ \A x, y \in 1..(n - 1) : (x * y) % n # 0

(* Multiplication by a residue that is not zero hits all of them, since it    *)
(* never hits one twice.                                                      *)
LEMMA InverseExists ==
    ASSUME NEW n, Prime(n), NEW x \in 1..(n - 1)
    PROVE  \E y \in 1..(n - 1) : (x * y) % n = 1
<1> DEFINE S == 1..(n - 1)
           f == [y \in S |-> (x * y) % n]
<1>1. n \in Nat \ {0} /\ x \in Nat /\ 1 \in S
  BY DEF Prime
<1>2. ASSUME NEW y \in S, NEW z \in S, y < z, f[y] = f[z]
      PROVE  FALSE
  <2>1. x * y \in Int /\ x * z \in Int /\ z - y \in S
    BY <1>1, <1>2
  <2> DEFINE p == (x * y) \div n
             q == (x * z) \div n
             r == (x * y) % n
  <2>2. r = (x * z) % n
    BY <1>2
  <2>3. /\ p \in Int /\ q \in Int /\ r \in Int
        /\ x * y = n * p + r /\ x * z = n * q + ((x * z) % n)
    BY <1>1, <2>1, Division
  <2> HIDE DEF p, q, r
  <2>4. x * (z - y) = n * (q - p) + 0 /\ q - p \in Int
    <3>1. x * (z - y) = x * z - x * y
      BY <1>1
    <3> QED
      BY <1>1, <2>2, <2>3, <3>1
  <2>5. (n * (q - p) + 0) % n = 0
    <3>1. 0 \in 0..(n - 1)
      BY <1>1
    <3> QED
      BY <1>1, <2>4, <3>1, ModUnique
  <2> QED
    BY <2>1, <2>4, <2>5 DEF Prime
<1>3. SUFFICES ASSUME \A y \in S : f[y] # 1 PROVE FALSE
  OBVIOUS
<1>4. f \in [S -> S \ {1}]
  <2>1. ASSUME NEW y \in S PROVE (x * y) % n \in S
    <3>1. x * y \in Int /\ (x * y) % n # 0
      BY <1>1 DEF Prime
    <3>2. (x * y) % n \in 0..(n - 1)
      BY <1>1, <3>1, Division
    <3> QED
      BY <1>1, <3>1, <3>2
  <2> QED
    BY <1>3, <2>1
<1>5. IsFiniteSet(S) /\ IsFiniteSet(S \ {1}) /\ Cardinality(S \ {1}) < Cardinality(S)
  <2>1. IsFiniteSet(S)
    BY <1>1, FS_Interval
  <2>2. IsFiniteSet(S \ {1}) /\ Cardinality(S \ {1}) = Cardinality(S) - 1 /\ Cardinality(S) \in Nat
    BY <1>1, <2>1, FS_RemoveElement, FS_CardinalityType
  <2> QED
    BY <2>1, <2>2
<1>6. PICK y, z \in S : y # z /\ f[y] = f[z]
  <2> HIDE DEF S, f
  <2> QED
    BY <1>4, <1>5, FS_PigeonHole
<1>7. y < z \/ z < y
  BY <1>1, <1>6
<1> QED
  BY <1>2, <1>6, <1>7

-----------------------------------------------------------------------------
(* Keys and scalars. *)

(* What the library's calls return when they succeed is a valid key. *)
LEMMA NegatedKey == ASSUME NEW x \in Keys PROVE Negated(x) \in Keys
BY OrderAssumption DEF Keys, Negated

(* So is the sum a successful tweak returns, *)
LEMMA SumKey == ASSUME NEW x, NEW t, AddOk(x, t) PROVE Sum(x, t) \in Keys
BY OrderAssumption DEF AddOk, Keys, Scalars, Sum

(* the product, *)
LEMMA ProductKey == ASSUME NEW x, NEW t, MulOk(x, t) PROVE Product(x, t) \in Keys
<1>1. x \in Keys /\ t \in Keys
  BY DEF MulOk
<1>2. x \in Nat /\ t \in Nat /\ Order \in Nat \ {0}
  BY <1>1, OrderAssumption DEF Keys
<1>3. (x * t) % Order # 0
  BY <1>1, OrderAssumption DEF Keys
<1>4. x * t \in Int
  BY <1>2
<1>5. (x * t) % Order \in 0..(Order - 1)
  BY <1>2, <1>4
<1> QED
  BY <1>2, <1>3, <1>5 DEF Product, Keys

(* and the key of the even one of two points. *)
LEMMA EvenYKey == ASSUME NEW x \in Keys PROVE EvenY(x) \in Keys
BY NegatedKey DEF EvenY

(* Scalars form a group under Sum, *)
LEMMA ScalarOps ==
    ASSUME NEW x \in Scalars, NEW y \in Scalars
    PROVE  /\ Sum(x, y) \in Scalars /\ Sum(x, y) = Sum(y, x)
           /\ Negated(x) \in Scalars /\ Negated(Negated(x)) = x
           /\ Sum(x, 0) = x /\ Sum(x, Negated(x)) = 0
           /\ Keys \subseteq Scalars /\ 0 \in Scalars
BY OrderAssumption DEF Scalars, Keys, Sum, Negated

(* which is associative, *)
LEMMA SumAssociates ==
    ASSUME NEW x \in Scalars, NEW y \in Scalars, NEW z \in Scalars
    PROVE  Sum(Sum(x, y), z) = Sum(x, Sum(y, z))
BY OrderAssumption DEF Scalars, Sum

(* and negation distributes over it. *)
LEMMA NegatedSum ==
    ASSUME NEW x \in Scalars, NEW y \in Scalars
    PROVE  Negated(Sum(x, y)) = Sum(Negated(x), Negated(y))
BY OrderAssumption DEF Scalars, Sum, Negated

(* The points an x-only key stands for. *)
EvenKeys == {k \in Keys : Even(k)}

(* Of a valid key and its negation exactly one is even, since the order is odd. *)
LEMMA EvenYEven ==
    ASSUME NEW x \in Keys
    PROVE  EvenY(x) \in EvenKeys /\ (Even(x) => Negated(x) \in Keys /\ ~Even(Negated(x)))
<1>1. x \in 1..(Order - 1) /\ 2 \in 1..(Order - 1) /\ Order \in Nat /\ Order > 2
  BY OrderAssumption DEF Keys
<1>2. 2 * x # Order
  <2>1. (2 * x) % Order # 0
    BY <1>1, OrderAssumption
  <2>2. Order % Order = 0
    BY <1>1
  <2> QED
    BY <2>1, <2>2
<1>3. Negated(x) = Order - x
  BY <1>1 DEF Negated
<1> QED
  BY <1>1, <1>2, <1>3 DEF EvenY, Even, EvenKeys, Keys

(* The x of a point is its negation's. *)
LEMMA EvenYNegated ==
    ASSUME NEW k \in EvenKeys PROVE EvenY(k) = k /\ EvenY(Negated(k)) = k /\ k \in Scalars /\ k # 0
<1>1. k \in Keys /\ Even(k) /\ ~Even(Negated(k))
  BY EvenYEven DEF EvenKeys
<1>2. Negated(Negated(k)) = k /\ k \in Scalars
  BY <1>1, ScalarOps, OrderAssumption DEF Keys, Scalars
<1> QED
  BY <1>1, <1>2 DEF EvenY, Keys
-----------------------------------------------------------------------------
(* Scalars are a field under Sum and Product. *)

(* What OrderAssumption says of Order. *)
LEMMA OrderPrime == Prime(Order) /\ Order \in Nat \ {0} /\ Order > 2
BY OrderAssumption DEF Prime

(* Keys are the scalars but 0. *)
LEMMA KeyScalars ==
    Keys \subseteq Scalars /\ 0 \in Scalars /\ 0 \notin Keys /\ Scalars = Keys \cup {0}
BY OrderPrime DEF Keys, Scalars

(* Products are scalars; 1 is neutral. *)
LEMMA ProductOps ==
    ASSUME NEW x \in Scalars, NEW y \in Scalars
    PROVE  /\ Product(x, y) \in Scalars /\ Product(x, y) = Product(y, x)
           /\ Product(x, 0) = 0 /\ Product(x, 1) = x
<1>1. x \in Nat /\ y \in Nat /\ x * y = y * x /\ x * y \in Int /\ x * 0 = 0 /\ x * 1 = x
  BY OrderPrime DEF Scalars
<1>2. (x * y) % Order \in 0..(Order - 1)
  BY <1>1, OrderPrime, Division
<1>3. 0 % Order = 0 /\ x % Order = x
  BY <1>1, OrderPrime DEF Scalars
<1> QED
  BY <1>1, <1>2, <1>3 DEF Product, Scalars

(* The sum is the sum modulo Order. *)
LEMMA SumMod ==
    ASSUME NEW x \in Scalars, NEW y \in Scalars PROVE Sum(x, y) = (x + y) % Order
BY OrderPrime DEF Sum, Scalars

(* The product associates, *)
LEMMA ProductAssociates ==
    ASSUME NEW x \in Scalars, NEW y \in Scalars, NEW z \in Scalars
    PROVE  Product(Product(x, y), z) = Product(x, Product(y, z))
<1>1. x \in Int /\ y \in Int /\ z \in Int /\ x * y \in Int /\ y * z \in Int
  BY OrderPrime DEF Scalars
<1>2. Product(Product(x, y), z) = ((x * y) * z) % Order
  BY <1>1, OrderPrime, ModProduct DEF Product
<1>3. Product(Product(y, z), x) = ((y * z) * x) % Order
  BY <1>1, OrderPrime, ModProduct DEF Product
<1>4. (x * y) * z = (y * z) * x
  BY <1>1
<1>5. Product(Product(y, z), x) = Product(x, Product(y, z))
  BY ProductOps
<1> QED
  BY <1>2, <1>3, <1>4, <1>5

(* and distributes over sums. *)
LEMMA ProductDistributes ==
    ASSUME NEW x \in Scalars, NEW y \in Scalars, NEW z \in Scalars
    PROVE  Product(Sum(x, y), z) = Sum(Product(x, z), Product(y, z))
<1>1. x \in Int /\ y \in Int /\ z \in Int /\ x + y \in Int /\ x * z \in Int /\ y * z \in Int
  BY OrderPrime DEF Scalars
<1>2. Product(Sum(x, y), z) = ((x + y) * z) % Order
  <2>1. Product(Sum(x, y), z) = (((x + y) % Order) * z) % Order
    BY SumMod DEF Product
  <2>2. (((x + y) % Order) * z) % Order = ((x + y) * z) % Order
    BY <1>1, OrderPrime, ModProduct
  <2> QED
    BY <2>1, <2>2
<1>3. (x + y) * z = x * z + y * z
  BY <1>1
<1> DEFINE p == (x * z) % Order
           q == (y * z) % Order
<1>4. p \in Scalars /\ q \in Scalars /\ p \in Int /\ q \in Int
  <2>1. p = Product(x, z) /\ q = Product(y, z)
    BY DEF Product
  <2> QED
    BY <2>1, ProductOps, OrderPrime DEF Scalars
<1>5. (p + q) % Order = (x * z + q) % Order
  BY <1>1, <1>4, OrderPrime, ModSum
<1>6. (q + x * z) % Order = (y * z + x * z) % Order
  BY <1>1, <1>4, OrderPrime, ModSum
<1>7. x * z + q = q + x * z /\ y * z + x * z = x * z + y * z
  BY <1>1, <1>4
<1>8. Sum(p, q) = (p + q) % Order
  BY <1>4, SumMod
<1> QED
  BY <1>2, <1>3, <1>5, <1>6, <1>7, <1>8 DEF Product

(* Negation is the only inverse of a sum, *)
LEMMA SumCancels ==
    ASSUME NEW x \in Scalars, NEW y \in Scalars, Sum(x, y) = 0 PROVE y = Negated(x)
BY OrderPrime DEF Sum, Negated, Scalars

(* so it comes out of a product. *)
LEMMA ProductNegated ==
    ASSUME NEW x \in Scalars, NEW y \in Scalars
    PROVE  Product(Negated(x), y) = Negated(Product(x, y))
<1>1. Negated(x) \in Scalars /\ Sum(x, Negated(x)) = 0 /\ 0 \in Scalars
  BY ScalarOps
<1>2. Product(0, y) = 0
  BY <1>1, ProductOps
<1>3. Sum(Product(x, y), Product(Negated(x), y)) = 0
  BY <1>1, <1>2, ProductDistributes
<1> QED
  BY <1>1, <1>3, ProductOps, SumCancels
=============================================================================
