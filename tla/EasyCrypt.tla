------------------------------ MODULE EasyCrypt -------------------------------
(***************************************************************************)
(* The crypt functions of easy_lua.c on top of 3des.c.  Des3 shows what    *)
(* decryption makes of encryption for symbolic subkeys; for the texts, the *)
(* cipher under a key is any permutation of blocks, since it matters only  *)
(* which bytes of a ciphertext are zero: the functions measure their data  *)
(* with strlen.  A byte is a number below ByteSize, two digits to the base *)
(* Hex, and a digit stands for itself in either case.  A text is shorter   *)
(* than half the arrays it is copied to.                                   *)
(***************************************************************************)
EXTENDS Des3, SequencesExt

CONSTANTS
  Block,       \* bytes in a block, 8
  Hex,         \* the base of a digit, 16
  MaxDigits,   \* 256
  Ciphers,     \* the permutations of blocks
  Texts,       \* the texts that are encrypted
  Keys         \* the keys that are set, as sequences of parts

VARIABLES
  cipher,      \* des3_encrypt under the caller's key
  arg,         \* what the last call was given
  mi,          \* what the last encryption answered
  got          \* what the last decryption answered

vars == <<cipher, arg, mi, got>>

ByteSize == Hex * Hex
Nil == "nil"

(* A C string ends before its first zero; arrays are zero beyond s.        *)
strlen(s) == CHOOSE n \in 0..Len(s) :
               /\ n = Len(s) \/ s[n + 1] = 0
               /\ \A i \in 1..n : s[i] # 0
CString(s) == SubSeq(s, 1, strlen(s))

(* Mutant: a block that has begun counts.                                  *)
BlocksInBegun(s) == (strlen(s) + Block - 1) \div Block
BlocksIn(s) == strlen(s) \div Block
Byte(s, i) == IF i \in DOMAIN s THEN s[i] ELSE 0
NthBlock(s, k) == [i \in 1..Block |-> Byte(s, (k - 1) * Block + i)]

(* The first n blocks of s, each turned into another.                      *)
OverBlocks(f, s, n) == FlattenSeq([k \in 1..n |-> f[NthBlock(s, k)]])
Decipher == [b \in DOMAIN cipher |-> CHOOSE a \in DOMAIN cipher : cipher[a] = b]

(* "%02x", and back: a character that is no digit, or the end of a text of *)
(* odd length, is -1, all of whose bits are set.                           *)
Hexed(bytes) ==
  [i \in 1..(2 * Len(bytes)) |->
     LET byte == bytes[(i + 1) \div 2]
     IN IF i % 2 = 1 THEN byte \div Hex ELSE byte % Hex]
ctoi(s, i) == IF i \in DOMAIN s /\ s[i] \in 0..(Hex - 1) THEN s[i] ELSE -1

(* Mutant: a text of odd length loses its last character.                  *)
UnhexedPairs(s) ==
  [i \in 1..(Len(s) \div 2) |-> ctoi(s, 2 * i) * Hex + ctoi(s, 2 * i - 1)]
Unhexed(s) ==
  [i \in 1..((Len(s) + 1) \div 2) |->
     LET i1 == ctoi(s, 2 * i - 1)
         i2 == ctoi(s, 2 * i)
     IN IF i2 = -1 THEN ByteSize - 1 ELSE ((i1 * Hex) % ByteSize) + i2]

-----------------------------------------------------------------------------
Encrypted(text) == Hexed(OverBlocks(cipher, text, BlocksIn(text)))

(* What is behind the last whole block stays as it was.                    *)
Decrypted(pdata) ==
  LET data == Unhexed(pdata)
      n    == BlocksIn(data)
  IN CString(OverBlocks(Decipher, data, n)
             \o SubSeq(data, n * Block + 1, Len(data)))

(* An unsigned long long is the bytes of a block, lowest first; "%llx" and *)
(* strtoull.                                                               *)
NumberOf(block) ==
  FoldRight(LAMBDA byte, n : n * ByteSize + byte, block, 0)
BlockOf(n) == [i \in 1..Block |-> (n \div ByteSize^(i - 1)) % ByteSize]
Digits(n) ==
  LET count == CHOOSE k \in 1..(2 * Block) :
                 n < Hex^k /\ (k = 1 \/ n >= Hex^(k - 1))
  IN [i \in 1..count |-> (n \div Hex^(count - i)) % Hex]
Value(s) == FoldLeft(LAMBDA n, d : n * Hex + d, 0, s)

-----------------------------------------------------------------------------
Init ==
  /\ cipher \in Ciphers /\ arg = [op |-> "none"] /\ mi = <<>> /\ got = Nil

lua_encrypt_des3(text) ==
  /\ arg' = [op |-> "text", text |-> text]
  /\ mi' = Encrypted(text) /\ got' = Nil /\ UNCHANGED cipher

(* Of the answer, the first n characters.                                  *)
lua_decrypt_des3(n) ==
  /\ arg.op = "text" /\ n <= Len(mi)
  /\ arg' = [op |-> "cut", text |-> arg.text, n |-> n]
  /\ got' = IF n > MaxDigits THEN Nil ELSE Decrypted(SubSeq(mi, 1, n))
  /\ UNCHANGED <<cipher, mi>>

lua_gen_time_token_des3(time) ==
  /\ arg' = [op |-> "time", time |-> time]
  /\ mi' = Digits(NumberOf(cipher[BlockOf(time)])) /\ got' = Nil
  /\ UNCHANGED cipher

lua_decrypt_time_token_des3 ==
  /\ arg.op = "time" /\ arg' = [op |-> "token", time |-> arg.time]
  /\ got' = NumberOf(Decipher[BlockOf(Value(mi))])
  /\ UNCHANGED <<cipher, mi>>

(* A block under a key, with symbolic halves, and the permutations on the  *)
(* bits of two words.                                                      *)
Halves == [x |-> {<<"x", <<"0", 0>>, {}>>}, y |-> {<<"y", <<"0", 0>>, {}>>}]
Words == [x |-> [i \in Bits |-> i], y |-> [i \in Bits |-> 32 + i]]

Block3(key) ==
  LET ctx == des3_setkey_ex(key) IN
  /\ arg' = [op |-> "block", key |-> key]
  /\ mi' = des3_encrypt(ctx, Halves) /\ got' = des3_decrypt(ctx, mi')
  /\ UNCHANGED cipher
Permute ==
  /\ arg' = [op |-> "bits"]
  /\ mi' = DES_IP(Words) /\ got' = DES_FP(mi') /\ UNCHANGED cipher

Next ==
  /\ arg.op \in {"none", "text", "time"}
  /\ \/ lua_decrypt_time_token_des3
     \/ \E n \in 0..Len(mi) : lua_decrypt_des3(n)
     \/ /\ arg.op = "none"
        /\ \/ \E text \in Texts : lua_encrypt_des3(text)
           \/ \E time \in 0..(ByteSize^Block - 1) :
                lua_gen_time_token_des3(time)
           \/ \E key \in Keys : Block3(key)
           \/ Permute

Spec == Init /\ [][Next]_vars

-----------------------------------------------------------------------------
(* lua_encrypt_des3, lua_decrypt_des3: of a ciphertext, or of its first    *)
(* characters, decryption answers the whole blocks of the text that lie    *)
(* before the first zero byte of the ciphertext and are there completely;  *)
(* no zero and no missing character: these blocks and nothing else.  What  *)
(* follows the last whole block of a text is lost.                         *)
TextComesBack ==
  (arg.op = "cut" /\ arg.n <= MaxDigits) =>
    LET bytes == Unhexed(mi)
        sound == Min({strlen(bytes) \div Block, arg.n \div (2 * Block),
                      strlen(arg.text) \div Block})
        text  == SubSeq(arg.text, 1, sound * Block)
    IN /\ IsPrefix(text, got)
       /\ (arg.n = Len(mi) /\ strlen(bytes) = Len(bytes)) =>
            got = SubSeq(arg.text, 1, (strlen(arg.text) \div Block) * Block)

(* The two time token functions: a token is decrypted to its time, zeros   *)
(* or not.                                                                 *)
TokenComesBack == arg.op = "token" => got = arg.time

(* 3des.c: whatever the S-boxes and the key schedule, decryption undoes    *)
(* encryption under every key that is set, the final permutation undoes    *)
(* the initial one, and the encryption under equal keys is that of DES.    *)
BlockComesBack ==
  /\ arg.op = "block" =>
       /\ got = Halves
       /\ Len(arg.key) > 1 /\ (\A i \in DOMAIN arg.key : arg.key[i] = arg.key[1])
            => mi = des_crypt(des_set_key(arg.key[1]).esk, Halves)
  /\ arg.op = "bits" => got = Words /\ mi # Words
=============================================================================
