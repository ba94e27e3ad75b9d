--------------------------------- MODULE Des3 ---------------------------------
(***************************************************************************)
(* 3des.c, as operators.  A half of a block is a sum of terms, added by    *)
(* exclusive or, and what the S-boxes make of a subkey and a half is a     *)
(* term of its own: an equation that holds of these holds for every key    *)
(* schedule and all S-boxes.  DES_IP and DES_FP permute the 64 bits of two *)
(* words; they are looked at bit by bit, and a block that is encrypted is  *)
(* the pair that DES_IP makes of it.                                       *)
(***************************************************************************)
EXTENDS Integers, Sequences

CONSTANT Rounds                \* 16, an even number

Bits == 0..31
Low(n) == {i \in Bits : i % (2 * n) < n}   \* 0x0F0F0F0F is Low(4)
Odd == {i \in Bits : i % 2 = 1}
Mirror(p) == [x |-> p.y, y |-> p.x]

(* T = ((x >> n) ^ y) & mask; y ^= T; x ^= T << n                          *)
Exchange(p, n, mask) ==
  [x |-> [i \in Bits |-> IF i - n \in mask THEN p.y[i - n] ELSE p.x[i]],
   y |-> [i \in Bits |-> IF i \in mask THEN p.x[i + n] ELSE p.y[i]]]
XtoY(p, n) == Exchange(p, n, Low(n))
YtoX(p, n) == Mirror(XtoY(Mirror(p), n))
RotateX(p, n) == [p EXCEPT !.x = [i \in Bits |-> p.x[(i - n) % 32]]]
RotateY(p, n) == Mirror(RotateX(Mirror(p), n))

DES_IP(p) ==
  LET q == YtoX(YtoX(XtoY(XtoY(p, 4), 16), 2), 8)
  IN RotateX(Exchange(RotateY(q, 1), 0, Odd), 1)

(* Mutant: the word that was turned last is not turned back first.         *)
DES_FPYFirst(p) ==
  LET q == RotateX(Exchange(RotateY(p, -1), 0, Odd), -1)
  IN XtoY(XtoY(YtoX(YtoX(q, 8), 2), 16), 4)

DES_FP(p) ==
  LET q == RotateY(Exchange(RotateX(p, -1), 0, Odd), -1)
  IN XtoY(XtoY(YtoX(YtoX(q, 8), 2), 16), 4)

-----------------------------------------------------------------------------
Xor(a, b) == (a \ b) \cup (b \ a)

(* SB8, 6, 4 and 2 with the first subkey of a round, SB7, 5, 3 and 1 with  *)
(* the second.                                                             *)
SBoxes(which, subkey, half) == {<<which, subkey, half>>}

DES_ROUND(first, second, half, other) ==
  Xor(other, Xor(SBoxes("even", first, half), SBoxes("odd", second, half)))

des_main_ks(key) == [i \in 1..(2 * Rounds) |-> <<key, i>>]

(* Mutant: the halves do not change their parts.                           *)
IntoXAlways(n) == n % 2 = 1

(* Round n changes X or Y, by turns; the middle third begins with Y.       *)
IntoX(n) == (n % 2 = 1) # (n \in (Rounds + 1)..(2 * Rounds))

Crypt(SK, block) ==
  LET after[n \in 0..(Len(SK) \div 2)] ==
        IF n = 0 THEN block
        ELSE LET p == after[n - 1] IN
             IF IntoX(n)
             THEN [p EXCEPT !.x = DES_ROUND(SK[2 * n - 1], SK[2 * n], p.y, p.x)]
             ELSE [p EXCEPT !.y = DES_ROUND(SK[2 * n - 1], SK[2 * n], p.x, p.y)]
  IN Mirror(after[Len(SK) \div 2])

des_crypt(SK, block) == Crypt(SK, block)
des3_crypt(SK, block) == Crypt(SK, block)

(* Mutant: single subkeys are turned round, not pairs.                     *)
TurnedSingly(SK) == [i \in DOMAIN SK |-> SK[Len(SK) + 1 - i]]

(* The pairs of subkeys in reverse order.                                  *)
Turned(SK) ==
  [i \in DOMAIN SK |-> SK[IF i % 2 = 1 THEN Len(SK) - i ELSE Len(SK) + 2 - i]]

des_set_key(k) == [esk |-> des_main_ks(k), dsk |-> Turned(des_main_ks(k))]

des3_set_2keys(k1, k2) ==
  LET a == des_main_ks(k1)  b == des_main_ks(k2)
  IN [esk |-> a \o Turned(b) \o a, dsk |-> Turned(a) \o b \o Turned(a)]

(* Mutant: decryption takes the keys in the order of encryption.           *)
des3_set_3keysOrder(k1, k2, k3) ==
  LET a == des_main_ks(k1)  b == des_main_ks(k2)  c == des_main_ks(k3)
  IN [esk |-> a \o Turned(b) \o c, dsk |-> Turned(a) \o b \o Turned(c)]

des3_set_3keys(k1, k2, k3) ==
  LET a == des_main_ks(k1)  b == des_main_ks(k2)  c == des_main_ks(k3)
  IN [esk |-> a \o Turned(b) \o c, dsk |-> Turned(c) \o b \o Turned(a)]

(* What memset leaves when the key has neither 16 nor 24 bytes; key is the *)
(* sequence of its parts of 8.                                             *)
Unset == [i \in 1..(6 * Rounds) |-> <<"0", 0>>]
des3_setkey_ex(key) ==
  IF Len(key) = 2 THEN des3_set_2keys(key[1], key[2])
  ELSE IF Len(key) = 3 THEN des3_set_3keys(key[1], key[2], key[3])
  ELSE [esk |-> Unset, dsk |-> Unset]

des3_encrypt(ctx, block) == des3_crypt(ctx.esk, block)
des3_decrypt(ctx, block) == des3_crypt(ctx.dsk, block)
=============================================================================
