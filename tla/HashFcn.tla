------------------------------- MODULE HashFcn --------------------------------
(***************************************************************************)
(* prime_table.c and hash_fcn.c: how many rows hashmap_new gives a table,  *)
(* and the hash function of its keys.  The four tables of 1024 slots are   *)
(* defined by the rule their comments give; their numbers are those of the *)
(* code.  The width of an unsigned is scaled.                              *)
(***************************************************************************)
EXTENDS Integers, FiniteSets, Sequences, Bitwise

CONSTANTS
  Word,        \* 2^32
  Asked,       \* the numbers of rows that callers ask for
  Randoms,     \* what rand() returns
  Strings      \* keys, sequences of bytes

VARIABLES asked, nrows, seed, scale, hardener

vars == <<asked, nrows, seed, scale, hardener>>

Kilo == 1024
Mega == Kilo * Kilo

(* Between two primes below 2^27 there are less than 250 numbers.          *)
Root(n) == CHOOSE r \in 1..11600 : r * r <= n /\ (r + 1) * (r + 1) > n
IsPrime(n) ==
  n > 1 /\ (n = 2 \/ n % 2 = 1) /\ \A d \in 3..Root(n) : n % d # 0
RECURSIVE Downto(_)
Downto(n) == IF n = 1 \/ IsPrime(n) THEN n ELSE Downto(n - 1)

(* The last two tables have a number less than they are declared for.      *)
prime_table0(k) == IF k = 0 THEN 3 ELSE Downto(8 * k + 1)
prime_table1(k) == Downto(64 * k + 1)
prime_table2(k) == IF k = 1023 THEN 0 ELSE Downto(1024 * (k + 1))
prime_table3(k) == IF k = 1023 THEN 0 ELSE Downto(131072 * (k + 1))

(* Mutant: the third table is entered as if its steps were half as wide.   *)
nearest_prime_Half(n) ==
  LET a == IF n < 0 THEN -n ELSE n IN
  IF a < 8 * Kilo THEN prime_table0(a \div 8)
  ELSE IF a < 64 * Kilo THEN prime_table1(a \div 64)
  ELSE IF a < Mega THEN prime_table2((a \div 512) % 1024)
  ELSE IF a < 128 * Mega THEN prime_table3(a \div 131072)
  ELSE IF a < 1024 * Mega THEN prime_table3(a \div Mega)
  ELSE 134086639

nearest_prime(n) ==
  LET a == IF n < 0 THEN -n ELSE n IN
  IF a < 8 * Kilo THEN prime_table0(a \div 8)
  ELSE IF a < 64 * Kilo THEN prime_table1(a \div 64)
  ELSE IF a < Mega THEN prime_table2(a \div 1024)
  ELSE IF a < 128 * Mega THEN prime_table3(a \div 131072)
  ELSE IF a < 1024 * Mega THEN prime_table3(a \div Mega)
  ELSE 134086639

-----------------------------------------------------------------------------
Init == asked = 0 /\ nrows = 0 /\ seed = 0 /\ scale = 0 /\ hardener = 0

(* Mutant: the scale is any number.                                        *)
ScaleAny(r, m) == (r % m) + 709
Scale(r, m) == nearest_prime((r % m) + 709)

(* rand() % m, when m is 0, ends the process: seed and scale stay 0.       *)
hash_fcn_new(m) ==
  IF m = 0 THEN seed' = 0 /\ scale' = 0 /\ hardener' = 0
  ELSE \E r, s, t \in Randoms :
         /\ seed' = nearest_prime((r % m) + 3191)
         /\ scale' = Scale(s, m)
         /\ hardener' = ((t % Word) * (t % Word) + 133824503) % Word

hashmap_new(n) ==
  /\ asked' = n /\ nrows' = IF n > 0 THEN nearest_prime(n) ELSE -n
  /\ hash_fcn_new(nrows')

hash_fcn_static ==
  /\ seed > 0 /\ seed' = 3193 /\ scale' = 719 /\ hardener' = 133824503 % Word
  /\ UNCHANGED <<asked, nrows>>

hash_fcn_hash(d) ==
  LET hash[n \in 0..Len(d)] ==
        IF n = 0 THEN seed % Word
        ELSE (((hash[n - 1] * (scale % Word)) % Word) + d[n]) % Word
  IN hash[Len(d)] ^^ hardener

Next == hash_fcn_static \/ (asked = 0 /\ \E n \in Asked : hashmap_new(n))

Spec == Init /\ [][Next]_vars

-----------------------------------------------------------------------------
(* The 1024th slot of the last two tables.                                 *)
InLastSlot(n) ==
  \/ n \in (1023 * Kilo)..(Mega - 1)
  \/ n \in (1023 * 128 * Kilo)..(128 * Mega - 1)
  \/ n \in (1023 * Mega)..(1024 * Mega - 1)

Width(n) == IF n < 8 * Kilo THEN 8 ELSE IF n < 64 * Kilo THEN 64
            ELSE IF n < Mega THEN Kilo ELSE 128 * Kilo

(* hashmap.c:87, "> 0 => we use the nearest prime internally": below 2^27  *)
(* the rows are a prime that is near in the scale of its table, but in the *)
(* last slots, where there are no rows and the process ends; from 2^27 on  *)
(* they are about an eighth.                                               *)
RowsAreNear ==
  asked > 0 =>
    /\ nrows = 0 <=> InLastSlot(asked)
    /\ (asked < 128 * Mega /\ nrows # 0) =>
         /\ IsPrime(nrows)
         /\ nrows \in (asked - Width(asked) - 250)..(asked + Width(asked))

(* hash_fcn_hash: whatever the seed, strings of one length that differ in  *)
(* one byte have different hashes, because the scale is odd, unless it was *)
(* looked up in a last slot.                                               *)
OneByteTells ==
  scale # 0 =>
    \A d, e \in Strings :
      (Len(d) = Len(e) /\ Cardinality({i \in DOMAIN d : d[i] # e[i]}) = 1)
        => hash_fcn_hash(d) # hash_fcn_hash(e)
=============================================================================
