----------------------------- MODULE FuzzValue ------------------------------
(***************************************************************************)
(* How a value is drawn for an argument (src/arg_fuzz.c: rand_num and the  *)
(* switch over value_type in arg_fuzz), with the integers at their width   *)
(* and the floating-point numbers at their precision.  The widths are      *)
(* constants: the code has bytes of 8 bits, an unsigned long of 8 bytes,   *)
(* an int of 32 bits and doubles with 53 bits of mantissa.                 *)
(***************************************************************************)
EXTENDS Integers, Sequences

CONSTANTS
  ByteBits,      (* bits of a byte                                        *)
  LongBytes,     (* sizeof(unsigned long)                                 *)
  IntBits,       (* bits of an int                                        *)
  MantissaBits,  (* bits of the mantissa of a double                      *)
  Arguments      (* records of value_type and value                       *)

LongBits == ByteBits * LongBytes

ASSUME ValueAssumption ==
  /\ {ByteBits, LongBytes, IntBits, MantissaBits} \subseteq Nat \ {0}
  /\ IntBits < MantissaBits /\ MantissaBits < LongBits
  /\ \A arg \in Arguments : arg.value_type \in {0, 1, 2, 3, 4}

VARIABLES
  pc,
  arg,     (* the argument whose value is drawn                           *)
  x, i,    (* the random number of rand_num, and how many bytes it has    *)
  result   (* ir_[i].value_int, or which string value_char is             *)

vars == <<pc, arg, x, i, result>>

-----------------------------------------------------------------------------
\* Conversions to unsigned long and to int; an int that overflows wraps.
ulong(n) == n % 2^LongBits

int(n) ==
  LET m == n % 2^IntBits
  IN  IF m < 2^(IntBits - 1) THEN m ELSE m - 2^IntBits

\* A natural number as a double: rounded to the mantissa, ties to even.
double(n) ==
  LET length == CHOOSE k \in 0 .. 2 * LongBits + 1 : n < 2^k /\ (k > 0 => n >= 2^(k - 1))
      unit   == 2^(length - MantissaBits)
      q      == n \div unit
      r      == n % unit
  IN  IF length <= MantissaBits THEN n
      ELSE IF 2 * r > unit \/ (2 * r = unit /\ q % 2 = 1) THEN (q + 1) * unit
      ELSE q * unit

\* min plus the part x / 2^64 of max - min.  (double) UINT64_MAX + 1.0 is
\* 2^64, and to divide by it is exact; the other operations round.
rand_num(min, max) ==
  ulong(min + double(double(ulong(max - min)) * double(x)) \div 2^LongBits)

\* value_int[k]: json_object_get_int gives an int, stored as unsigned long.
value_int(k) == ulong(arg.value[k + 1])

\* Mutant of Steps: rounds up.
Steps_RoundedUp == int((ulong(value_int(1) - value_int(0)) + value_int(2) - 1)
                         \div value_int(2))

\* tmp of case 1: the number of steps between the two ends.
Steps == int(ulong(value_int(1) - value_int(0)) \div value_int(2))

\* Case 1.
Arithmetic == ulong(value_int(0) + rand_num(0, ulong(int(Steps + 1))) * value_int(2))

\* Case 2.
Geometric ==
  LET tmp == int(rand_num(value_int(1), ulong(value_int(2) + 1)))
  IN  ulong(double(double(value_int(0) ^ tmp) * value_int(3)))

-----------------------------------------------------------------------------
\* The switch of arg_fuzz: three cases call rand_num, one copies the string,
\* and an argument without a value is left alone.
Switch ==
  /\ pc = "switch"
  /\ IF arg.value_type \in {1, 2, 4} THEN pc' = "rand_num" /\ UNCHANGED result
     ELSE pc' = "done" /\ result' = IF arg.value_type = 3 THEN 0 ELSE result
  /\ UNCHANGED <<arg, x, i>>

\* One iteration of the loop of rand_num: px[i] = random().
NextByte ==
  /\ pc = "rand_num" /\ i < LongBytes
  /\ \E byte \in 0 .. 2^ByteBits - 1 : x' = x + byte * 2^(ByteBits * i)
  /\ i' = i + 1
  /\ UNCHANGED <<pc, arg, result>>

\* The rest of rand_num, and what the case makes of it.
Draw ==
  /\ pc = "rand_num" /\ i = LongBytes
  /\ result' = CASE arg.value_type = 1 -> Arithmetic
                 [] arg.value_type = 2 -> Geometric
                 [] arg.value_type = 4 -> rand_num(0, Len(arg.value))
  /\ pc' = "done"
  /\ UNCHANGED <<arg, x, i>>

\* The bytes of x that are not yet written count as 0: all of them are
\* written before x is read.
Init == pc = "switch" /\ arg \in Arguments /\ x = 0 /\ i = 0 /\ result = -1

Next == Switch \/ NextByte \/ Draw

Spec == Init /\ [][Next]_vars
-----------------------------------------------------------------------------
\* What json/mke2fs.py says of the value types: an arithmetic sequence from a
\* to b with step c, the powers a^b .. a^c times d, a string, one of the
\* strings.
Documented ==
  CASE arg.value_type = 0 -> {-1}
    [] arg.value_type = 1 ->
         {ulong(arg.value[1] + k * arg.value[3]) :
            k \in {k \in 0 .. 2^IntBits : arg.value[1] + k * arg.value[3] <= arg.value[2]}}
    [] arg.value_type = 2 ->
         {arg.value[1] ^ k * arg.value[4] : k \in arg.value[2] .. arg.value[3]}
    [] arg.value_type = 3 -> {0}
    [] arg.value_type = 4 -> 0 .. Len(arg.value) - 1

\* x is so large that x / 2^64 is 1 as a double.
RoundsUp == double(x) = 2^LongBits

\* Rounding is the only thing that spoils a draw: a value outside the
\* documented ones is drawn exactly if x / 2^64 rounds to 1, and it is then the
\* one after the last.  Truncation, the change of width and the rounding of
\* the product never leave the range.
AllowedUnlessOne ==
  pc = "done" /\ arg.value_type # 0 =>
    IF ~ RoundsUp THEN result \in Documented
    ELSE /\ result \notin Documented
         /\ arg.value_type = 4 => result = Len(arg.value)
=============================================================================
