---------------------------- MODULE ValuesProofs ----------------------------
(***************************************************************************)
(* The value types: the names of the error codes for every code a client   *)
(* or libuv may come with, and the arithmetic of Durations for every       *)
(* modulus, 2^64 among them.                                               *)
(***************************************************************************)
EXTENDS Errors, Durations, TLAPS

(* The cases of the switches: one lemma for each enumeration. *)

CoreRange == -99 .. 0
TimerRange == -199 .. -100
PoolRange == -299 .. -200

\* Where an enumeration has a name for the code, CaseOf gives it, and otherwise none.
LEMMA CaseIsNamed ==
  ASSUME NEW enum, NEW c
  PROVE  \/ /\ Named(enum, c) = {} /\ CaseOf(enum, c) = "none"
         \/ CaseOf(enum, c) \in DOMAIN enum /\ enum[CaseOf(enum, c)] = c
BY DEF CaseOf, Named

LEMMA CoreValues ==
  /\ DOMAIN CoreError = {"EE_SUCCESS", "EE_UNKNOWN", "EE_INIT_FAILED"}
  /\ \A name \in DOMAIN CoreError : CoreError[name] \in CoreRange
  /\ \A name \in DOMAIN CoreError : CoreError[name] = 0 <=> name = "EE_SUCCESS"
BY DEF CoreError, CoreRange

LEMMA TimerValues ==
  /\ DOMAIN TimerError = {"EE_TIMER_SUCCESS", "EE_TIMER_INVALID_ID", "EE_TIMER_ALREADY_EXISTS",
                          "EE_TIMER_NOT_FOUND", "EE_TIMER_ALREADY_PAUSED",
                          "EE_TIMER_NOT_PAUSED", "EE_TIMER_LIMIT_REACHED"}
  /\ \A name \in DOMAIN TimerError : TimerError[name] \in TimerRange \cup {0}
BY DEF TimerError, TimerRange

LEMMA PoolValues ==
  /\ DOMAIN ThreadPoolError = {"EE_POOL_SUCCESS", "EE_POOL_INVALID_NAME",
                               "EE_POOL_ALREADY_EXISTS", "EE_POOL_NOT_FOUND",
                               "EE_POOL_NOT_CANCELLABLE", "EE_POOL_CANCELLED",
                               "EE_POOL_QUEUE_FAILED"}
  /\ \A name \in DOMAIN ThreadPoolError : ThreadPoolError[name] \in PoolRange \cup {0}
BY DEF ThreadPoolError, PoolRange

\* ValueOf finds the enumeration of a name, and "none" is no name.
LEMMA ValuesOfNames ==
  /\ \A name \in DOMAIN CoreError : ValueOf(name) = CoreError[name]
  /\ \A name \in DOMAIN TimerError : ValueOf(name) = TimerError[name]
  /\ \A name \in DOMAIN ThreadPoolError : ValueOf(name) = ThreadPoolError[name]
  /\ "none" \notin Enumerators
BY CoreValues, TimerValues, PoolValues DEF ValueOf, Enumerators

\* The code of every enumerator other than the three successes lies in the range of its
\* enumeration, so lookupName looks where it is.
LEMMA LookupFinds ==
  ASSUME NEW c \in Int, NEW name \in Enumerators, ValueOf(name) = c
  PROVE  Lookup(c) \in Enumerators /\ ValueOf(Lookup(c)) = c
<1>1. CASE c \in CoreRange
  <2>1. Lookup(c) = CaseOf(CoreError, c)
    BY <1>1 DEF Lookup, CoreRange
  <2>2. Named(CoreError, c) # {}
    <3>1. CASE name \in DOMAIN CoreError
      BY <3>1, ValuesOfNames DEF Named
    <3>2. CASE name \notin DOMAIN CoreError
      <4>1. c \in TimerRange \cup PoolRange \cup {0}
        BY <3>2, TimerValues, PoolValues, ValuesOfNames DEF Enumerators
      <4>2. c = 0
        BY <1>1, <4>1 DEF CoreRange, TimerRange, PoolRange
      <4> QED
        BY <4>2, CoreValues DEF Named
    <3> QED
      BY <3>1, <3>2
  <2> QED
    BY <2>1, <2>2, CaseIsNamed, ValuesOfNames DEF Enumerators
<1>2. CASE c \in TimerRange
  <2>1. Lookup(c) = CaseOf(TimerError, c)
    BY <1>2 DEF Lookup, TimerRange
  <2>2. c \notin CoreRange /\ c \notin PoolRange \cup {0}
    BY <1>2 DEF CoreRange, TimerRange, PoolRange
  <2>3. name \in DOMAIN TimerError /\ TimerError[name] = c
    BY <2>2, CoreValues, PoolValues, ValuesOfNames DEF Enumerators
  <2>4. Named(TimerError, c) # {}
    BY <2>3 DEF Named
  <2> QED
    BY <2>1, <2>4, CaseIsNamed, ValuesOfNames DEF Enumerators
<1>3. CASE c \in PoolRange
  <2>1. Lookup(c) = CaseOf(ThreadPoolError, c)
    BY <1>3 DEF Lookup, PoolRange
  <2>2. c \notin CoreRange /\ c \notin TimerRange \cup {0}
    BY <1>3 DEF CoreRange, TimerRange, PoolRange
  <2>3. name \in DOMAIN ThreadPoolError /\ ThreadPoolError[name] = c
    BY <2>2, CoreValues, TimerValues, ValuesOfNames DEF Enumerators
  <2>4. Named(ThreadPoolError, c) # {}
    BY <2>3 DEF Named
  <2> QED
    BY <2>1, <2>4, CaseIsNamed, ValuesOfNames DEF Enumerators
<1>4. CASE c \notin CoreRange \cup TimerRange \cup PoolRange
  <2>1. c \in CoreRange \cup TimerRange \cup PoolRange \cup {0}
    BY CoreValues, TimerValues, PoolValues, ValuesOfNames DEF Enumerators
  <2> QED
    BY <1>4, <2>1 DEF CoreRange
<1> QED
  BY <1>1, <1>2, <1>3, <1>4

\* What it finds is the enumerator of that code, or none.
LEMMA LookupSound ==
  ASSUME NEW c
  PROVE  Lookup(c) = "none" \/ (Lookup(c) \in Enumerators /\ ValueOf(Lookup(c)) = c)
<1>1. \/ Lookup(c) = "none"
      \/ \E enum \in {CoreError, TimerError, ThreadPoolError} : Lookup(c) = CaseOf(enum, c)
  BY DEF Lookup
<1> QED
  BY <1>1, CaseIsNamed, ValuesOfNames DEF Enumerators

-----------------------------------------------------------------------------
(* Error. *)

CodeIsInteger == code \in Int

LEMMA CodesAreIntegers == ErrorSpec => []CodeIsInteger
<1>1. ErrorInit => CodeIsInteger
  BY DEF ErrorInit, CodeIsInteger
<1>2. CodeIsInteger /\ [ErrorNext]_errorVars => CodeIsInteger'
  <2> SUFFICES ASSUME code \in Int, [ErrorNext]_errorVars
               PROVE  code' \in Int
    BY DEF CodeIsInteger
  <2>1. CASE \E c \in Codes : Construct(c)
    BY <2>1, CodesAssumption DEF Construct
  <2>2. CASE \E r \in Codes : FromUV(r)
    <3>1. code' \in {0, -1}
      BY <2>2 DEF FromUV, fromUV, CoreError
    <3> QED
      BY <3>1
  <2>3. CASE ThrowIfError \/ UNCHANGED errorVars
    BY <2>3 DEF ThrowIfError, errorVars
  <2> QED
    BY <2>1, <2>2, <2>3 DEF ErrorNext
<1> QED
  BY <1>1, <1>2, PTL DEF ErrorSpec

\* Whatever code an Error has, the name and the message shown are those of the enumerator
\* with that code, and there are none only if nobody declared it.
THEOREM NamesCorrect == ErrorSpec => []NameTellsCode
<1>1. CodeIsInteger => NameTellsCode
  <2> SUFFICES ASSUME code \in Int
               PROVE  NameTellsCode
    BY DEF CodeIsInteger
  <2>1. CASE \E name \in Enumerators : ValueOf(name) = code
    BY <2>1, LookupFinds DEF NameTellsCode
  <2>2. CASE ~\E name \in Enumerators : ValueOf(name) = code
    BY <2>2, LookupSound DEF NameTellsCode
  <2> QED
    BY <2>1, <2>2
<1> QED
  BY <1>1, CodesAreIntegers, PTL

-----------------------------------------------------------------------------
(* Durations. *)

(* What wraps and what does not. *)

LEMMA WrapBelow ==
  ASSUME NEW n \in Nat, n < Modulus
  PROVE  Wrap(n) = n
BY DurationAssumption DEF Wrap

LEMMA WrapOnce ==
  ASSUME NEW n \in Nat, Modulus <= n, n < 2 * Modulus
  PROVE  Wrap(n) = n - Modulus
BY DurationAssumption DEF Wrap

LEMMA WrapFits ==
  ASSUME NEW n \in Nat
  PROVE  Wrap(n) \in Durations /\ Wrap(n) \in Nat
BY DurationAssumption DEF Wrap, Durations

\* Subtraction, added again, gives the larger operand.
LEMMA DifferenceExact ==
  ASSUME NEW a \in Durations, NEW b \in Durations
  PROVE  Plus(Minus(a, b), b) = (IF a > b THEN a ELSE b)
<1>1. a \in Nat /\ a < Modulus /\ b \in Nat /\ b < Modulus
  BY DurationAssumption DEF Durations
<1>2. CASE a > b
  BY <1>1, <1>2, WrapBelow, DurationAssumption DEF Plus, Minus
<1>3. CASE ~(a > b)
  BY <1>1, <1>3, WrapBelow, DurationAssumption DEF Plus, Minus
<1> QED
  BY <1>2, <1>3

\* A sum that wraps around is smaller than both operands; one that does not is undone.
LEMMA SumVisible ==
  ASSUME NEW a \in Durations, NEW b \in Durations
  PROVE  IF a + b < Modulus THEN Minus(Plus(a, b), b) = a
         ELSE Plus(a, b) < a /\ Plus(a, b) < b
<1>1. a \in Nat /\ a < Modulus /\ b \in Nat /\ b < Modulus
  BY DurationAssumption DEF Durations
<1>2. CASE a + b < Modulus
  <2>1. Plus(a, b) = a + b
    BY <1>1, <1>2, WrapBelow DEF Plus
  <2> QED
    BY <1>1, <1>2, <2>1 DEF Minus
<1>3. CASE Modulus <= a + b
  <2>1. Plus(a, b) = a + b - Modulus
    BY <1>1, <1>3, WrapOnce, DurationAssumption DEF Plus
  <2> QED
    BY <1>1, <1>3, <2>1, DurationAssumption
<1> QED
  BY <1>1, <1>2, <1>3, DurationAssumption

\* Quotient and remainder.
LEMMA WrapDivides ==
  ASSUME NEW n \in Nat
  PROVE  \E q \in Nat : n = Wrap(n) + q * Modulus
<1> DEFINE q == n \div Modulus
<1>1. q \in Nat /\ n = Wrap(n) + q * Modulus
  BY DurationAssumption DEF Wrap
<1> QED
  BY <1>1

\* A multiple of the modulus that is less than one modulus away from zero is zero.
LEMMA MultipleNearZero ==
  ASSUME NEW j \in Int, NEW d \in Int, d = j * Modulus, d < Modulus, -d < Modulus
  PROVE  d = 0
<1>1. CASE j = 0
  BY <1>1, DurationAssumption
<1>2. CASE j >= 1
  <2>1. PICK k \in Nat : j = k + 1
    BY <1>2
  <2>2. d = k * Modulus + Modulus /\ k * Modulus >= 0
    BY <2>1, DurationAssumption
  <2> QED
    BY <2>2, DurationAssumption
<1>3. CASE j <= -1
  <2>1. PICK k \in Nat : j = -(k + 1)
    BY <1>3
  <2>2. -d = k * Modulus + Modulus /\ k * Modulus >= 0
    BY <2>1, DurationAssumption
  <2> QED
    BY <2>2, DurationAssumption
<1> QED
  BY <1>1, <1>2, <1>3

\* Multiples of the modulus do not matter.
LEMMA WrapShift ==
  ASSUME NEW n \in Nat, NEW q \in Nat
  PROVE  Wrap(n + q * Modulus) = Wrap(n)
<1> DEFINE m == n + q * Modulus
<1>1. m \in Nat
  BY DurationAssumption
<1>2. PICK p \in Nat : n = Wrap(n) + p * Modulus
  BY WrapDivides
<1>3. PICK r \in Nat : m = Wrap(m) + r * Modulus
  BY <1>1, WrapDivides
<1>4. Wrap(n) \in 0 .. (Modulus - 1) /\ Wrap(m) \in 0 .. (Modulus - 1)
  BY <1>1, WrapFits DEF Durations
<1>5. Wrap(n) - Wrap(m) = (r - (p + q)) * Modulus
  <2>1. Wrap(m) + r * Modulus = Wrap(n) + p * Modulus + q * Modulus
    BY <1>2, <1>3
  <2> HIDE DEF m
  <2>2. (r - (p + q)) * Modulus = r * Modulus - (p * Modulus + q * Modulus)
    BY DurationAssumption
  <2>3. r * Modulus \in Int /\ p * Modulus \in Int /\ q * Modulus \in Int
    BY DurationAssumption
  <2> QED
    BY <1>4, <2>1, <2>2, <2>3, DurationAssumption
<1> HIDE DEF m
<1>6. Wrap(n) - Wrap(m) = 0
  BY <1>4, <1>5, MultipleNearZero, DurationAssumption
<1> QED
  BY <1>4, <1>6 DEF m

\* Wrapping before a multiplication changes nothing.
LEMMA WrapTimes ==
  ASSUME NEW n \in Nat, NEW k \in Nat
  PROVE  Wrap(Wrap(n) * k) = Wrap(n * k)
<1>1. PICK q \in Nat : n = Wrap(n) + q * Modulus
  BY WrapDivides
<1>2. Wrap(n) \in Nat
  BY WrapFits
<1>3. n * k = Wrap(n) * k + (q * k) * Modulus
  <2>1. \A w, b, c, d \in Nat : (w + b * c) * d = w * d + (b * d) * c
    OBVIOUS
  <2>2. (Wrap(n) + q * Modulus) * k = Wrap(n) * k + (q * k) * Modulus
    BY <1>2, <2>1, DurationAssumption
  <2> QED
    BY <1>1, <2>2
<1>4. Wrap(n) * k \in Nat /\ q * k \in Nat
  BY <1>2
<1> QED
  BY <1>3, <1>4, WrapShift

\* A unit is the same in smaller units.
LEMMA TimesTimes ==
  ASSUME NEW n \in Nat, NEW j \in Nat, NEW k \in Nat
  PROVE  /\ Times(Times(n, j), k) = Times(n * j, k)
         /\ Times(n, k) = Wrap(n * k)
         /\ Times(n, k) \in Durations
<1>1. \A m, l \in Nat : m * l \in Nat
  OBVIOUS
<1>2. \A m \in Nat : Wrap(m) \in Nat /\ Wrap(m) \in Durations
  BY WrapFits
<1>3. \A m, l \in Nat : Times(m, l) = Wrap(m * l)
  BY WrapTimes DEF Times
<1>4. Wrap(Times(n, j)) = Wrap(n * j)
  <2>1. Times(n, j) = Wrap(n * j) /\ Wrap(n * j) \in Nat
    BY <1>1, <1>2, <1>3
  <2>2. Wrap(n * j) < Modulus
    BY <1>1, WrapFits, DurationAssumption DEF Durations
  <2> QED
    BY <2>1, <2>2, WrapBelow
<1> QED
  BY <1>1, <1>2, <1>3, <1>4 DEF Times

-----------------------------------------------------------------------------
\* Every Duration a client computes with is one, and the amount it is made of a number.
LEMMA DurationsKept == DurationSpec => [](x \in Durations /\ y \in Durations /\ amount \in Nat)
<1> DEFINE Kept == x \in Durations /\ y \in Durations /\ amount \in Nat
<1>1. DurationInit => Kept
  BY WrapFits DEF DurationInit, milliseconds
<1>2. Kept /\ [DurationNext]_durationVars => Kept'
  <2> SUFFICES ASSUME Kept, [DurationNext]_durationVars
               PROVE  Kept'
    OBVIOUS
  <2>1. ASSUME NEW n \in Amounts, Make(n)
        PROVE  Kept'
    <3>1. n \in Nat
      BY DurationAssumption
    <3>2. \A m \in Nat : Wrap(m) \in Durations /\ Wrap(m) \in Nat
      BY WrapFits
    <3>3. \A m \in Nat, k \in {23, 24, 60, 1000} :
            Times(m, k) \in Durations /\ Times(m, k) \in Nat
      BY <3>2 DEF Times
    <3>4. /\ milliseconds(n) \in Durations
          /\ seconds(n) \in Durations
          /\ minutes(n) \in Durations
          /\ hours(n) \in Durations
          /\ days(n) \in Durations
      BY <3>1, <3>2, <3>3 DEF milliseconds, seconds, minutes, hours, days
    <3> QED
      BY <2>1, <3>1, <3>4 DEF Make
  <2>2. CASE UNCHANGED durationVars
    BY <2>2 DEF durationVars
  <2> QED
    BY <2>1, <2>2 DEF DurationNext
<1> QED
  BY <1>1, <1>2, PTL DEF DurationSpec

\* Sums and differences of any two Durations: neither loses time unseen.
THEOREM SumAndDifferenceCorrect == DurationSpec => []SumAndDifferenceAgree
<1>1. x \in Durations /\ y \in Durations => SumAndDifferenceAgree
  BY DifferenceExact, SumVisible DEF SumAndDifferenceAgree
<1> QED
  BY <1>1, DurationsKept, PTL

\* The units agree, also where they wrap around.
THEOREM UnitsCorrect == DurationSpec => []UnitsAgree
<1>1. amount \in Nat => UnitsAgree
  <2> SUFFICES ASSUME amount \in Nat
               PROVE  UnitsAgree
    OBVIOUS
  <2>1. 24 * amount \in Nat /\ 60 * amount \in Nat /\ 1000 * amount \in Nat
    OBVIOUS
  <2>2. 24 * amount = amount * 24 /\ 60 * amount = amount * 60 /\ 1000 * amount = amount * 1000
    OBVIOUS
  <2>3. days(amount) = hours(24 * amount)
    <3>1. Times(Times(amount, 24), 60) = Times(24 * amount, 60)
      BY <2>2, TimesTimes
    <3> QED
      BY <3>1 DEF days, hours
  <2>4. hours(amount) = minutes(60 * amount)
    <3>1. Times(Times(amount, 60), 60) = Times(60 * amount, 60)
      BY <2>2, TimesTimes
    <3> QED
      BY <3>1 DEF minutes, hours
  <2>5. minutes(amount) = seconds(60 * amount)
    <3>1. Times(Times(amount, 60), 1000) = Times(60 * amount, 1000)
      BY <2>2, TimesTimes
    <3> QED
      BY <3>1 DEF minutes, seconds
  <2>6. seconds(amount) = milliseconds(1000 * amount)
    BY <2>2, TimesTimes DEF seconds, milliseconds
  <2> QED
    BY <2>3, <2>4, <2>5, <2>6 DEF UnitsAgree
<1> QED
  BY <1>1, DurationsKept, PTL
=============================================================================
