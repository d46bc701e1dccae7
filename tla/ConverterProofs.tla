---------------------------- MODULE ConverterProofs ----------------------------
(***************************************************************************)
(* Theorems about Converter, for every unit and width of the time stamps.  *)
(***************************************************************************)
EXTENDS Converter, TLAPS

LEMMA Division ==
  ASSUME NEW t \in Nat
  PROVE  /\ t \div NanosPerSecond \in Nat
         /\ t - (t \div NanosPerSecond) * NanosPerSecond \in 0..(NanosPerSecond - 1)
<1>1. NanosPerSecond \in Nat /\ NanosPerSecond > 0
  BY ConverterAssumption
<1>2. /\ t \div NanosPerSecond \in Int
      /\ t % NanosPerSecond \in 0..(NanosPerSecond - 1)
      /\ t = NanosPerSecond * (t \div NanosPerSecond) + (t % NanosPerSecond)
  BY <1>1, Z3
<1>3. t \div NanosPerSecond >= 0
  BY <1>1, <1>2, Z3
<1> QED
  BY <1>1, <1>2, <1>3, Z3

LEMMA SmallRemainder ==
  ASSUME NEW n \in Nat, n < Modulus
  PROVE  n % Modulus = n
BY ConverterAssumption

(* A time whose seconds fit comes back as it was, whatever the unit.          *)
THEOREM RoundTrip ==
  ASSUME NEW t, Representable(t)
  PROVE  FromDds(ToDds(t)) = t
<1> DEFINE s == t \div NanosPerSecond
<1>1. t \in Nat /\ WholeSeconds(t) = s /\ s < Modulus
  BY DEF Representable, WholeSeconds
<1>2. s \in Nat /\ t - s * NanosPerSecond \in 0..(NanosPerSecond - 1)
  BY <1>1, Division
<1>3. t - s * NanosPerSecond \in Nat /\ t - s * NanosPerSecond < Modulus
  BY <1>2, ConverterAssumption
<1>4. s % Modulus = s /\ (t - s * NanosPerSecond) % Modulus = t - s * NanosPerSecond
  BY <1>1, <1>2, <1>3, SmallRemainder
<1>5. FromDds(ToDds(t)) = s * NanosPerSecond + (t - s * NanosPerSecond)
  BY <1>1, <1>4 DEF FromDds, ToDds
<1>6. s * NanosPerSecond \in Int
  BY <1>2, ConverterAssumption
<1> QED
  BY <1>1, <1>5, <1>6

(* A time that does not fit comes back as another one.                        *)
LEMMA BeyondIsLost ==
  ASSUME NEW t \in Int, ~Representable(t)
  PROVE  FromDds(ToDds(t)) # t
<1> DEFINE s == WholeSeconds(t)
           r == t - s * NanosPerSecond
<1>1. NanosPerSecond \in Nat /\ NanosPerSecond > 0 /\ Modulus \in Nat /\ Modulus > 0
      /\ NanosPerSecond <= Modulus
  BY ConverterAssumption
<1>2. FromDds(ToDds(t)) = (s % Modulus) * NanosPerSecond + (r % Modulus)
  BY DEF FromDds, ToDds
<1>3. CASE t >= 0
  <2>1. s \in Nat /\ r \in 0..(NanosPerSecond - 1) /\ s >= Modulus
    <3>1. t \in Nat /\ s = t \div NanosPerSecond
      BY <1>3 DEF WholeSeconds
    <3>2. s \in Nat /\ r \in 0..(NanosPerSecond - 1)
      BY <3>1, Division
    <3>3. ~(s < Modulus)
      BY <3>1 DEF Representable
    <3> HIDE DEF s
    <3> QED
      BY <1>1, <3>2, <3>3
  <2>2. r % Modulus = r
    BY <1>1, <2>1, SmallRemainder
  <2>3. s % Modulus \in Nat /\ s % Modulus < Modulus
    BY <1>1, <2>1
  <2>4. (s % Modulus) * NanosPerSecond < s * NanosPerSecond
    <3>1. \A a, b \in Nat : a < b => a * NanosPerSecond < b * NanosPerSecond
      BY <1>1, Z3
    <3>2. s % Modulus \in Nat /\ s \in Nat /\ s % Modulus < s
      BY <1>1, <2>1, <2>3
    <3> HIDE DEF s
    <3> QED
      BY <3>1, <3>2
  <2>5. t = s * NanosPerSecond + r /\ s * NanosPerSecond \in Int
    BY <1>1, <2>1
  <2>6. (s % Modulus) * NanosPerSecond \in Int
    BY <1>1, <2>3
  <2> HIDE DEF s, r
  <2> QED
    BY <1>2, <2>1, <2>2, <2>4, <2>5, <2>6
<1>4. CASE t < 0
  <2>1. s \in Int /\ r \in Int
    <3>1. (-t) \div NanosPerSecond \in Nat
      BY <1>4, Division
    <3>2. s = -((-t) \div NanosPerSecond)
      BY <1>4 DEF WholeSeconds
    <3>3. s \in Int
      BY <3>1, <3>2
    <3> HIDE DEF s
    <3> QED
      BY <1>1, <3>3
  <2>2. s % Modulus >= 0 /\ r % Modulus >= 0 /\ s % Modulus \in Int /\ r % Modulus \in Int
    BY <1>1, <2>1
  <2>3. (s % Modulus) * NanosPerSecond >= 0 /\ (s % Modulus) * NanosPerSecond \in Int
    <3>1. \A a \in Int : a >= 0 => a * NanosPerSecond >= 0 /\ a * NanosPerSecond \in Int
      BY <1>1, Z3
    <3> QED
      BY <2>2, <3>1
  <2> HIDE DEF s, r
  <2> QED
    BY <1>2, <1>4, <2>2, <2>3
<1> QED
  BY <1>3, <1>4

(* Representable is exact: the times that come back are those from 0 on whose *)
(* seconds fit, and no other.                                                 *)
THEOREM ExactRange ==
  \A t \in Int : FromDds(ToDds(t)) = t <=> Representable(t)
BY RoundTrip, BeyondIsLost

================================================================================
