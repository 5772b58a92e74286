----------------------------- MODULE TripleDes -----------------------------
(***************************************************************************)
(* encrypt and decrypt of the lab1 native library: ECB over blocks of      *)
(* eight bytes, padded with the number of bytes that are missing, with the *)
(* DES of mbedtls.  Of the cipher only this is kept: a block is opened by  *)
(* the key it was sealed with, and becomes some other block under another. *)
(***************************************************************************)
EXTENDS Integers, Sequences

CONSTANT Garbage  \* what a block becomes under a wrong key

Byte == 0 .. 255
ASSUME GarbageAssumption == Garbage \in [1 .. 8 -> Byte]

\* mbedtls_des3_crypt_ecb, with a key set to encrypt and to decrypt
Sealed(key, block) == [j \in 1 .. 8 |-> [key |-> key, block |-> block, at |-> j]]
Opened(key, block) ==
    IF block = Sealed(key, block[1].block) THEN block[1].block ELSE Garbage

\* The eight bytes of buf from 8 * n on.
Block(buf, n) == [j \in 1 .. 8 |-> buf[8 * n + j]]
BlockOf(i) == (i - 1) \div 8
Offset(i) == ((i - 1) % 8) + 1

\* Fault: no padding for what ends on a block.
PaddedWhenNeeded(data) ==
    LET pad == (8 - (Len(data) % 8)) % 8 IN
    [i \in 1 .. Len(data) + pad |-> IF i <= Len(data) THEN data[i] ELSE pad]

\* Padding is never empty: its last byte must say how much of it there is.
Padded(data) ==
    LET pad == 8 - (Len(data) % 8) IN
    [i \in 1 .. Len(data) + pad |-> IF i <= Len(data) THEN data[i] ELSE pad]

Enciphered(key, buf) ==
    [i \in 1 .. Len(buf) |-> Sealed(key, Block(buf, BlockOf(i)))[Offset(i)]]
Deciphered(key, buf) ==
    [i \in 1 .. Len(buf) |-> Opened(key, Block(buf, BlockOf(i)))[Offset(i)]]

Encrypt(key, data) ==
    IF Len(key) # 16 \/ data = << >> THEN << >> ELSE Enciphered(key, Padded(data))

Decrypt(key, data) ==
    IF Len(key) # 16 \/ data = << >> \/ Len(data) % 8 # 0 THEN << >>
    ELSE LET buf == Deciphered(key, data)
             pad == buf[Len(data)]
         IN  IF pad \in 1 .. 8 THEN SubSeq(buf, 1, Len(data) - pad) ELSE << >>
=============================================================================
