------------------------------- MODULE Hashing -------------------------------
(***************************************************************************)
(* Hashes, message authentication and block chaining                       *)
(* (libraries/crypto/src/sha256.rs, hmac.rs, cbc.rs), and what CTAP makes  *)
(* of them: the output of the hmac-secret extension                        *)
(* (ctap/pin_protocol_v1.rs) and key handles (ctap/mod.rs).                *)
(*                                                                         *)
(* Sizes are parameters.  A byte of the model stands for one block of the  *)
(* cipher (16 bytes in the code), a hash has two of them (32 bytes).  The  *)
(* compression function and the cipher are parameters too: what matters    *)
(* here is which blocks they are applied to.                               *)
(***************************************************************************)
EXTENDS Integers, Sequences, Bitwise

LOCAL INSTANCE SequencesExt

CONSTANTS
    BLOCK_SIZE,       \* 64
    LENGTH_SIZE,      \* the bytes that hold the length, 8
    H0,               \* the initial state
    Compress(_, _),   \* hash_block: state and block
    Encrypt(_, _),    \* encrypt_block: key and block
    Decrypt(_, _)

HASH_SIZE == 2

Zeros(n) == [i \in 1 .. n |-> 0]

BigEndian(n, size) == [i \in 1 .. size |-> (n \div 256^(size - i)) % 256]

CopyTo(block, cursor, bytes) ==
    [i \in DOMAIN block |-> IF i \in cursor + 1 .. cursor + Len(bytes)
                            THEN bytes[i - cursor] ELSE block[i]]
-----------------------------------------------------------------------------
\* sha256.rs

sha_new == [state |-> H0, block |-> Zeros(BLOCK_SIZE), total_len |-> 0]

\* Fills and processes the current block, then the full blocks, and keeps the
\* rest at the start of the block, whose other bytes stay as they are.
update(h, contents) ==
    LET cursor == h.total_len % BLOCK_SIZE
        left == BLOCK_SIZE - cursor
        total == h.total_len + Len(contents)
        filled == CopyTo(h.block, cursor, SubSeq(contents, 1, left))
        rest == SubSeq(contents, left + 1, Len(contents))
        full == Len(rest) \div BLOCK_SIZE
        blocks == [i \in 1 .. full |-> SubSeq(rest, (i - 1) * BLOCK_SIZE + 1, i * BLOCK_SIZE)]
    IN  IF Len(contents) < left
        THEN [h EXCEPT !.block = CopyTo(@, cursor, contents), !.total_len = total]
        ELSE [state |-> FoldLeft(Compress, Compress(h.state, filled), blocks),
              block |-> CopyTo(filled, 0, SubSeq(rest, full * BLOCK_SIZE + 1, Len(rest))),
              total_len |-> total]

\* Mutant: takes the length to fit where the end marker is.
finalize_OffByOne(h) ==
    LET cursor == h.total_len % BLOCK_SIZE
        marked == [i \in 1 .. BLOCK_SIZE |-> CASE i <= cursor -> h.block[i]
                                               [] i = cursor + 1 -> 128
                                               [] OTHER -> 0]
        apart == cursor > BLOCK_SIZE - LENGTH_SIZE
        last == CopyTo(IF apart THEN Zeros(BLOCK_SIZE) ELSE marked,
                       BLOCK_SIZE - LENGTH_SIZE, BigEndian(8 * h.total_len, LENGTH_SIZE))
    IN  BigEndian(Compress(IF apart THEN Compress(h.state, marked) ELSE h.state, last), HASH_SIZE)

\* Marks the end and adds the length, in a block of its own if it does not fit.
finalize(h) ==
    LET cursor == h.total_len % BLOCK_SIZE
        marked == [i \in 1 .. BLOCK_SIZE |-> CASE i <= cursor -> h.block[i]
                                               [] i = cursor + 1 -> 128
                                               [] OTHER -> 0]
        apart == cursor >= BLOCK_SIZE - LENGTH_SIZE
        last == CopyTo(IF apart THEN Zeros(BLOCK_SIZE) ELSE marked,
                       BLOCK_SIZE - LENGTH_SIZE, BigEndian(8 * h.total_len, LENGTH_SIZE))
    IN  BigEndian(Compress(IF apart THEN Compress(h.state, marked) ELSE h.state, last), HASH_SIZE)

sha_hash(contents) == finalize(update(sha_new, contents))
-----------------------------------------------------------------------------
\* hmac.rs

xor_pads(pad, key) ==
    [i \in 1 .. BLOCK_SIZE |-> IF i <= Len(key) THEN pad ^^ key[i] ELSE pad]

hmac_256(key, contents) ==
    LET k == IF Len(key) <= BLOCK_SIZE THEN key ELSE sha_hash(key)
        ihash == finalize(update(update(sha_new, xor_pads(54, k)), contents))
    IN  finalize(update(update(sha_new, xor_pads(92, k)), ihash))

verify_hmac_256(key, contents, mac) == hmac_256(key, contents) = mac

\* pin_protocol_v1.rs: the first half of the code is enough.
verify_pin_auth(hmac_key, hmac_contents, pin_auth) ==
    Len(pin_auth) = HASH_SIZE \div 2
    /\ SubSeq(hmac_256(hmac_key, hmac_contents), 1, HASH_SIZE \div 2) = pin_auth
-----------------------------------------------------------------------------
\* cbc.rs

cbc_encrypt(key, iv, blocks) ==
    FoldLeft(LAMBDA done, b :
               Append(done, Encrypt(key, b ^^ (IF done = <<>> THEN iv ELSE Last(done)))),
             <<>>, blocks)

cbc_decrypt(key, iv, blocks) ==
    [i \in DOMAIN blocks |-> Decrypt(key, blocks[i]) ^^ (IF i = 1 THEN iv ELSE blocks[i - 1])]
-----------------------------------------------------------------------------
\* The hmac-secret extension: one or two salts.

UNSUPPORTED_EXTENSION == <<>>

\* There is a secret for each of the two ways to use a credential.
cred_random_secret(stored, has_uv) ==
    SubSeq(stored, IF has_uv THEN HASH_SIZE + 1 ELSE 1, IF has_uv THEN 2 * HASH_SIZE ELSE HASH_SIZE)

generate_cred_random(stored, private_key, has_uv) ==
    hmac_256(cred_random_secret(stored, has_uv), private_key)

encrypt_hmac_secret_output(shared_secret, salt_enc, cred_random) ==
    LET salts == cbc_decrypt(shared_secret, 0, salt_enc)
        Output(i) == hmac_256(cred_random, SubSeq(salts, 2 * i - 1, 2 * i))
    IN  CASE Len(salt_enc) = 2 -> cbc_encrypt(shared_secret, 0, Output(1))
          [] Len(salt_enc) = 4 -> cbc_encrypt(shared_secret, 0, Output(1) \o Output(2))
          [] OTHER -> UNSUPPORTED_EXTENSION

process_hmac_secret(shared_secret, salt_enc, salt_auth, cred_random) ==
    IF ~verify_pin_auth(shared_secret, salt_enc, salt_auth) THEN UNSUPPORTED_EXTENSION
    ELSE encrypt_hmac_secret_output(shared_secret, salt_enc, cred_random)
-----------------------------------------------------------------------------
\* Key handles: the private key and the relying party, sealed with the master
\* keys [encryption, hmac].

CREDENTIAL_ID_SIZE == 5 + HASH_SIZE

seal_key_handle(keys, iv, private_key, application) ==
    LET encrypted == <<iv>> \o cbc_encrypt(keys.encryption, iv, private_key \o application)
    IN  encrypted \o hmac_256(keys.hmac, encrypted)

\* The private key, or nothing.
open_key_handle(keys, credential_id, rp_id_hash) ==
    LET payload == SubSeq(credential_id, 1, Len(credential_id) - HASH_SIZE)
        mac == SubSeq(credential_id, Len(payload) + 1, Len(credential_id))
        blocks == cbc_decrypt(keys.encryption, credential_id[1], SubSeq(payload, 2, Len(payload)))
    IN  IF \/ Len(credential_id) # CREDENTIAL_ID_SIZE
           \/ ~verify_hmac_256(keys.hmac, payload, mac)
           \/ SubSeq(blocks, 3, 4) # rp_id_hash
        THEN <<>>
        ELSE SubSeq(blocks, 1, 2)
=============================================================================
