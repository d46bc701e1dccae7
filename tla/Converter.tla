------------------------------- MODULE Converter -------------------------------
(***************************************************************************)
(* convertTimestamp: the time of a sample, nanoseconds of the simulation,  *)
(* to the source time stamp of DDS and back.                               *)
(***************************************************************************)
EXTENDS Integers

CONSTANTS
  NanosPerSecond,   \* 10^9
  Modulus           \* 2^32: both parts of a time stamp go through uint32_t

ASSUME ConverterAssumption ==
  /\ NanosPerSecond \in Nat \ {0}
  /\ Modulus \in Nat
  /\ NanosPerSecond <= Modulus

(* duration_cast cuts off towards zero. *)
WholeSeconds(t) ==
  IF t >= 0 THEN t \div NanosPerSecond ELSE -((-t) \div NanosPerSecond)

(* mutant: the seconds stay in the nanoseconds *)
MutToDds(t) ==
  [sec |-> WholeSeconds(t) % Modulus, nanosec |-> t % Modulus]

ToDds(t) ==
  [sec |-> WholeSeconds(t) % Modulus,
   nanosec |-> (t - WholeSeconds(t) * NanosPerSecond) % Modulus]

FromDds(time) == time.sec * NanosPerSecond + time.nanosec

(* The times whose seconds fit: 136 years from the start of the simulation.   *)
Representable(t) == t \in Nat /\ WholeSeconds(t) < Modulus

================================================================================
