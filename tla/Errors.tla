------------------------------- MODULE Errors -------------------------------
(***************************************************************************)
(* eventengine::Error and the error codes: what becomes of the results of  *)
(* libuv, how a code finds its name and its message, and when an OrThrow   *)
(* variant throws.  The services make every error they return with         *)
(* Error(int), as a client can.                                            *)
(*                                                                         *)
(* The state is the Error a client holds.                                  *)
(***************************************************************************)
EXTENDS Integers

CONSTANT Codes  \* integers given to Error(int), and results of libuv

ASSUME CodesAssumption == Codes \subseteq Int

\* error_code.hpp
CoreError == [EE_SUCCESS |-> 0, EE_UNKNOWN |-> -1, EE_INIT_FAILED |-> -2]

TimerError ==
  [EE_TIMER_SUCCESS |-> 0, EE_TIMER_INVALID_ID |-> -100, EE_TIMER_ALREADY_EXISTS |-> -101,
   EE_TIMER_NOT_FOUND |-> -102, EE_TIMER_ALREADY_PAUSED |-> -103,
   EE_TIMER_NOT_PAUSED |-> -104, EE_TIMER_LIMIT_REACHED |-> -105]

ThreadPoolError ==
  [EE_POOL_SUCCESS |-> 0, EE_POOL_INVALID_NAME |-> -200, EE_POOL_ALREADY_EXISTS |-> -201,
   EE_POOL_NOT_FOUND |-> -202, EE_POOL_NOT_CANCELLABLE |-> -203,
   EE_POOL_CANCELLED |-> -204, EE_POOL_QUEUE_FAILED |-> -205]

Named(enum, c) == {name \in DOMAIN enum : enum[name] = c}

\* errorCodeName and errorCodeMessage of one enumeration: the case of the switch that is
\* taken.  A code that is no enumerator, which has no defined value as one, takes none.
CaseOf(enum, c) == IF Named(enum, c) = {} THEN "none" ELSE CHOOSE name \in Named(enum, c) : TRUE

\* Faulty variant: the ranges meet one code too far.
LookupShifted(c) ==
  IF c \in -100 .. 0 THEN CaseOf(CoreError, c)
  ELSE IF c \in -200 .. -101 THEN CaseOf(TimerError, c)
  ELSE IF c \in -299 .. -201 THEN CaseOf(ThreadPoolError, c)
  ELSE "none"

\* lookupName and lookupMessage: the enumerator whose name and message are shown, "none"
\* for "EE_UNKNOWN" and "unknown error".
Lookup(c) ==
  IF c \in -99 .. 0 THEN CaseOf(CoreError, c)
  ELSE IF c \in -199 .. -100 THEN CaseOf(TimerError, c)
  ELSE IF c \in -299 .. -200 THEN CaseOf(ThreadPoolError, c)
  ELSE "none"

\* Error::fromUV
fromUV(r) == IF r >= 0 THEN CoreError.EE_SUCCESS ELSE CoreError.EE_UNKNOWN

\* Error::operator bool and Error::throwIfError
IsError(c) == c < 0

-----------------------------------------------------------------------------
VARIABLES
  code,    \* code_
  thrown   \* is it in an Exception

errorVars == <<code, thrown>>

\* Error()
ErrorInit == code = 0 /\ thrown = FALSE

\* Error(int), by a service or a client
Construct(c) == code' = c /\ thrown' = FALSE

FromUV(r) == code' = fromUV(r) /\ thrown' = FALSE

\* The OrThrow variant is the plain call followed by throwIfError.
ThrowIfError ==
  /\ IsError(code)
  /\ thrown' = TRUE
  /\ UNCHANGED code

ErrorNext ==
  \/ \E c \in Codes : Construct(c)
  \/ \E r \in Codes : FromUV(r)
  \/ ThrowIfError

ErrorSpec == ErrorInit /\ [][ErrorNext]_errorVars

-----------------------------------------------------------------------------
Enumerators == DOMAIN CoreError \cup DOMAIN TimerError \cup DOMAIN ThreadPoolError

ValueOf(name) ==
  IF name \in DOMAIN CoreError THEN CoreError[name]
  ELSE IF name \in DOMAIN TimerError THEN TimerError[name]
  ELSE ThreadPoolError[name]

\* The name and the message shown for an Error are those of the enumerator with its code,
\* across the boundaries of the ranges; only codes that nobody declared are unknown.
NameTellsCode ==
  IF \E name \in Enumerators : ValueOf(name) = code
  THEN Lookup(code) \in Enumerators /\ ValueOf(Lookup(code)) = code
  ELSE Lookup(code) = "none"
=============================================================================
