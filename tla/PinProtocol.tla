---------------------------- MODULE PinProtocol -----------------------------
(***************************************************************************)
(* The PIN protocol (ctap/pin_protocol_v1.rs), the entries of the          *)
(* persistent store that it keeps (ctap/storage.rs), the commands that a   *)
(* PIN token authenticates and the reset of ctap/mod.rs.                   *)
(*                                                                         *)
(* An update of the store is atomic (Store implements StoreModel), but a   *)
(* command makes several of them.  So a command runs in steps, one per     *)
(* update: the power may be lost between two steps (PowerLoss), and an     *)
(* update may fail, for lack of capacity or of lifetime (StoreFails).      *)
(*                                                                         *)
(* Cryptography is ideal.  A PIN hash is the PIN; what the shared secret   *)
(* decrypts is a PIN only if the platform used the current key agreement   *)
(* key, and an HMAC is good only if its key is known to the sender.  So it *)
(* is enough to know whether the platform has the current key agreement    *)
(* key (key_known), and for which PIN the current token was handed out     *)
(* (token_pin): an old key or token is a random value.                     *)
(***************************************************************************)
EXTENDS Integers, FiniteSets

CONSTANTS
  Pins,                    \* the PINs that platforms try
  PinLength,               \* the length in bytes of every PIN
  RpIds,                   \* the relying parties
  MinLengths,              \* the minimum lengths that platforms ask for
  MAX_PIN_RETRIES,         \* wrong PINs before the PIN is blocked (8)
  MAX_MISMATCHES,          \* consecutive wrong PINs between two boots (3)
  DEFAULT_MIN_PIN_LENGTH,  \* 4
  PIN_PADDED_LENGTH,       \* 64
  WithCtap21,              \* the feature with_ctap2_1
  NoPin, NoRp, NoCommand,  \* no PIN is set; no relying party; no command
  Garbage,                 \* decrypted with another key, or not a PIN hash
  WrongLength              \* not 16 bytes for a hash, not 64 for a new PIN

ASSUME PinAssumption ==
  /\ PinLength \in [Pins -> 0..PIN_PADDED_LENGTH]
  /\ MinLengths \subseteq Nat
  /\ MAX_PIN_RETRIES \in Nat \ {0}
  /\ MAX_MISMATCHES \in Nat \ {0}
  /\ DEFAULT_MIN_PIN_LENGTH \in Nat
  /\ PIN_PADDED_LENGTH \in Nat
  /\ WithCtap21 \in BOOLEAN
  /\ {NoPin, Garbage, WrongLength} \cap Pins = {}
  /\ NoPin # WrongLength
  /\ NoRp \notin RpIds

VARIABLES
  (* The persistent store. *)
  pin_hash,                    \* the PIN, or NoPin
  pin_retries,                 \* MAX_PIN_RETRIES when the entry is absent
  min_pin_length,              \* DEFAULT_MIN_PIN_LENGTH when it is absent
  (* PinProtocolV1, and what CtapState keeps for a reset. *)
  consecutive_pin_mismatches,
  permissions,                 \* the bits of the permissions of the token
  permissions_rp_id,           \* the relying party of the token, or NoRp
  reset_allowed,               \* stateful_command_type is Reset, and timely
  (* The command that is running. *)
  step,                        \* the update of the store it does next
  command,
  reply,                       \* the status of the last command
  (* What platforms know of the key agreement key and of the token. *)
  key_known,
  token_pin,
  (* History. *)
  wrong,                       \* wrong PINs since the PIN was set or verified
  wrong_since_boot,            \* the ones since the last boot
  served                       \* the relying parties served since the token

stored == <<pin_hash, pin_retries, min_pin_length>>
token == <<permissions, permissions_rp_id, token_pin, served>>
guesses == <<wrong, wrong_since_boot>>
vars == <<stored, consecutive_pin_mismatches, reset_allowed, step, command,
          reply, key_known, token, guesses>>

(* Permissions are the bits of a byte. *)
MakeCredential == 1
GetAssertion == 2
Bits == {1, 2, 4}

NewPins == Pins \cup {WrongLength}
Hashes == Pins \cup {Garbage, WrongLength}

(* The commands that take several steps. *)
Commands ==
  [name : {"SetPin", "ChangePin", "GetPinToken", "WithPermissions", "Reset"},
   hash : Hashes, new_pin : NewPins,
   permissions : SUBSET Bits, rp_id : RpIds \cup {NoRp}]

Command(name, hash, new_pin, bits, rp_id) ==
  [name |-> name, hash |-> hash, new_pin |-> new_pin,
   permissions |-> bits, rp_id |-> rp_id]

Steps == {"idle", "decr_pin_retries", "compare", "reset_pin_retries",
          "set_pin_hash", "set_pin_done", "clear", "init"}

Init ==
  /\ pin_hash = NoPin
  /\ pin_retries = MAX_PIN_RETRIES
  /\ min_pin_length = DEFAULT_MIN_PIN_LENGTH
  /\ consecutive_pin_mismatches = 0
  /\ permissions = {} /\ permissions_rp_id = NoRp
  /\ reset_allowed = TRUE
  /\ step = "idle" /\ command = NoCommand /\ reply = "none"
  /\ key_known = FALSE /\ token_pin = NoPin
  /\ wrong = 0 /\ wrong_since_boot = 0 /\ served = {}

-----------------------------------------------------------------------------
(* Every command but GetInfo, Selection and Reset itself forbids a later   *)
(* reset.                                                                  *)

Accept ==
  /\ step = "idle"
  /\ reset_allowed' = FALSE

Start(first, cmd) ==
  /\ step' = first
  /\ command' = cmd
  /\ reply' = "none"

Reply(status) ==
  /\ step' = "idle"
  /\ command' = NoCommand
  /\ reply' = status

(* A new random token: nobody has it, and the old one is worth nothing. *)
NewToken ==
  /\ token_pin' = NoPin
  /\ served' = {}

-----------------------------------------------------------------------------
(* The handlers up to their first update of the store. *)

(* A subcommand with another protocol version, a missing parameter, or     *)
(* user verification, which is not supported.                              *)
InvalidSubcommand ==
  /\ Accept
  /\ Reply("INVALID")
  /\ UNCHANGED <<stored, consecutive_pin_mismatches, key_known, token, guesses>>

process_get_pin_retries ==
  /\ Accept
  /\ Reply("OK")
  /\ UNCHANGED <<stored, consecutive_pin_mismatches, key_known, token, guesses>>

process_get_key_agreement ==
  /\ Accept
  /\ Reply("OK")
  /\ key_known' = TRUE
  /\ UNCHANGED <<stored, consecutive_pin_mismatches, token, guesses>>

(* pin_auth: the HMAC of the message under the shared secret. *)
process_set_pin(pin_auth, new_pin) ==
  /\ Accept
  /\ pin_auth => key_known
  /\ IF pin_hash # NoPin \/ ~pin_auth
       THEN Reply("PIN_AUTH_INVALID")
       ELSE Start("set_pin_hash", Command("SetPin", Garbage, new_pin, {}, NoRp))
  /\ UNCHANGED <<stored, consecutive_pin_mismatches, key_known, token, guesses>>

(* Mutant: one wrong PIN too many. *)
verify_pin_hash_enc_OffByOne(cmd) ==
  CASE pin_hash = NoPin -> Reply("PIN_REQUIRED")
    [] pin_hash # NoPin /\ consecutive_pin_mismatches > MAX_MISMATCHES ->
         Reply("PIN_AUTH_BLOCKED")
    [] OTHER -> Start("decr_pin_retries", cmd)

(* verify_pin_hash_enc, up to decr_pin_retries. *)
verify_pin_hash_enc(cmd) ==
  CASE pin_hash = NoPin -> Reply("PIN_REQUIRED")
    [] pin_hash # NoPin /\ consecutive_pin_mismatches >= MAX_MISMATCHES ->
         Reply("PIN_AUTH_BLOCKED")
    [] OTHER -> Start("decr_pin_retries", cmd)

process_change_pin(pin_auth, hash, new_pin) ==
  /\ Accept
  /\ pin_auth => key_known
  /\ CASE pin_retries = 0 -> Reply("PIN_BLOCKED")
       [] pin_retries # 0 /\ ~pin_auth -> Reply("PIN_AUTH_INVALID")
       [] OTHER -> verify_pin_hash_enc(Command("ChangePin", hash, new_pin, {}, NoRp))
  /\ UNCHANGED <<stored, consecutive_pin_mismatches, key_known, token, guesses>>

(* Mutant: the retries are not checked, since they are decremented later. *)
GetToken_Unchecked(cmd) ==
  /\ cmd.hash \in Pins => key_known
  /\ verify_pin_hash_enc(cmd)
  /\ UNCHANGED <<stored, consecutive_pin_mismatches, key_known, token, guesses>>

GetToken(cmd) ==
  /\ cmd.hash \in Pins => key_known
  /\ IF pin_retries = 0
       THEN Reply("PIN_BLOCKED")
       ELSE verify_pin_hash_enc(cmd)
  /\ UNCHANGED <<stored, consecutive_pin_mismatches, key_known, token, guesses>>

process_get_pin_token(hash) ==
  /\ Accept
  /\ GetToken(Command("GetPinToken", hash, WrongLength, {}, NoRp))

process_get_pin_uv_auth_token_using_pin_with_permissions(hash, bits, rp_id) ==
  /\ WithCtap21
  /\ Accept
  /\ IF bits = {} \/ (bits \cap {MakeCredential, GetAssertion} # {} /\ rp_id = NoRp)
       THEN /\ Reply("INVALID_PARAMETER")
            /\ UNCHANGED <<stored, consecutive_pin_mismatches, key_known, token, guesses>>
       ELSE GetToken(Command("WithPermissions", hash, WrongLength, bits, rp_id))

(* pin_auth: "none", a bad HMAC, or an HMAC under the current token. *)
process_set_min_pin_length(length, pin_auth) ==
  /\ WithCtap21
  /\ Accept
  /\ pin_auth = "good" => token_pin # NoPin
  /\ \/ /\ pin_hash # NoPin
        /\ \/ pin_auth = "none" /\ Reply("PIN_AUTH_INVALID")
           \/ /\ pin_auth # "none"
              /\ consecutive_pin_mismatches >= MAX_MISMATCHES
              /\ Reply("PIN_AUTH_BLOCKED")
           \/ /\ pin_auth = "bad"
              /\ consecutive_pin_mismatches < MAX_MISMATCHES
              /\ Reply("PIN_AUTH_INVALID")
        /\ UNCHANGED min_pin_length
     \/ /\ \/ pin_hash = NoPin
           \/ pin_auth = "good" /\ consecutive_pin_mismatches < MAX_MISMATCHES
        /\ \/ /\ length < min_pin_length
              /\ Reply("PIN_POLICY_VIOLATION")
              /\ UNCHANGED min_pin_length
           \/ /\ length >= min_pin_length
              /\ Reply("OK")
              /\ min_pin_length' = length
           \/ /\ length >= min_pin_length
              /\ Reply("STORE_ERROR")
              /\ UNCHANGED min_pin_length
  /\ UNCHANGED <<pin_hash, pin_retries, consecutive_pin_mismatches, key_known,
                 token, guesses>>

-----------------------------------------------------------------------------
(* The steps of the commands that update the store. *)

(* Mutant: the retries are only counted once the PIN has been compared. *)
DecrPinRetries_Late ==
  /\ step = "decr_pin_retries"
  /\ step' = "compare"
  /\ UNCHANGED <<stored, consecutive_pin_mismatches,
                 reset_allowed, command, reply, key_known, token, guesses>>

(* decr_pin_retries comes before the comparison. *)
DecrPinRetries ==
  /\ step = "decr_pin_retries"
  /\ pin_retries' = IF pin_retries = 0 THEN 0 ELSE pin_retries - 1
  /\ step' = "compare"
  /\ UNCHANGED <<pin_hash, min_pin_length, consecutive_pin_mismatches,
                 reset_allowed, command, reply, key_known, token, guesses>>

ComparePinHash ==
  /\ step = "compare"
  /\ CASE command.hash = WrongLength ->
            /\ Reply("PIN_INVALID")
            /\ UNCHANGED <<consecutive_pin_mismatches, key_known, guesses>>
       [] command.hash = pin_hash ->
            /\ step' = "reset_pin_retries"
            /\ UNCHANGED <<command, reply, consecutive_pin_mismatches, key_known, guesses>>
       [] OTHER ->
            /\ key_known' = FALSE
            /\ wrong' = wrong + 1
            /\ wrong_since_boot' = wrong_since_boot + 1
            /\ IF pin_retries = 0
                 THEN /\ Reply("PIN_BLOCKED")
                      /\ UNCHANGED consecutive_pin_mismatches
                 ELSE /\ consecutive_pin_mismatches' = consecutive_pin_mismatches + 1
                      /\ Reply(IF consecutive_pin_mismatches + 1 >= MAX_MISMATCHES
                                 THEN "PIN_AUTH_BLOCKED" ELSE "PIN_INVALID")
  /\ UNCHANGED <<stored, reset_allowed, token>>

(* The PIN is right.  A token gets its permissions, ChangePin goes on. *)
ResetPinRetries ==
  /\ step = "reset_pin_retries"
  /\ pin_retries' = MAX_PIN_RETRIES
  /\ consecutive_pin_mismatches' = 0
  /\ wrong' = 0 /\ wrong_since_boot' = 0
  /\ IF command.name = "ChangePin"
       THEN /\ step' = "set_pin_hash"
            /\ UNCHANGED <<command, reply, token>>
       ELSE /\ Reply("TOKEN")
            /\ token_pin' = pin_hash
            /\ served' = {}
            /\ IF command.name = "GetPinToken"
                 THEN permissions' = {MakeCredential, GetAssertion} /\ permissions_rp_id' = NoRp
                 ELSE permissions' = command.permissions /\ permissions_rp_id' = command.rp_id
  /\ UNCHANGED <<pin_hash, min_pin_length, reset_allowed, key_known>>

SatisfiesPolicy(pin) ==
  /\ pin # WrongLength
  /\ PinLength[pin] >= IF WithCtap21 THEN min_pin_length ELSE DEFAULT_MIN_PIN_LENGTH
  /\ PinLength[pin] # PIN_PADDED_LENGTH

(* Mutant: the token survives a new PIN. *)
check_and_store_new_pin_KeepToken ==
  /\ step = "set_pin_hash"
  /\ IF SatisfiesPolicy(command.new_pin)
       THEN /\ pin_hash' = command.new_pin
            /\ wrong' = 0 /\ wrong_since_boot' = 0
            /\ IF command.name = "ChangePin"
                 THEN Reply("OK")
                 ELSE step' = "set_pin_done" /\ UNCHANGED <<command, reply>>
       ELSE /\ Reply("PIN_POLICY_VIOLATION")
            /\ UNCHANGED <<pin_hash, guesses>>
  /\ UNCHANGED <<pin_retries, min_pin_length, consecutive_pin_mismatches, reset_allowed,
                 key_known, token>>

check_and_store_new_pin ==
  /\ step = "set_pin_hash"
  /\ IF SatisfiesPolicy(command.new_pin)
       THEN /\ pin_hash' = command.new_pin
            /\ wrong' = 0 /\ wrong_since_boot' = 0
            /\ IF command.name = "ChangePin"
                 THEN NewToken /\ Reply("OK")
                 ELSE /\ step' = "set_pin_done"
                      /\ UNCHANGED <<command, reply, token_pin, served>>
       ELSE /\ Reply("PIN_POLICY_VIOLATION")
            /\ UNCHANGED <<pin_hash, guesses, token_pin, served>>
  /\ UNCHANGED <<pin_retries, min_pin_length, consecutive_pin_mismatches, reset_allowed,
                 key_known, permissions, permissions_rp_id>>

(* The last step of process_set_pin. *)
SetPinDone ==
  /\ step = "set_pin_done"
  /\ pin_retries' = MAX_PIN_RETRIES
  /\ Reply("OK")
  /\ UNCHANGED <<pin_hash, min_pin_length, consecutive_pin_mismatches, reset_allowed,
                 key_known, token, guesses>>

-----------------------------------------------------------------------------
(* The commands of CtapState that read or reset the PIN protocol. *)

has_permission(permission) == permission \in permissions

(* Mutant: the token is not bound to its first relying party. *)
has_permission_for_rp_id_Unbound(rp_id) ==
  /\ permissions_rp_id \in {NoRp, rp_id}
  /\ UNCHANGED permissions_rp_id

(* A token that has no relying party is bound to the first one it serves. *)
has_permission_for_rp_id(rp_id) ==
  /\ permissions_rp_id \in {NoRp, rp_id}
  /\ permissions_rp_id' = rp_id

(* MakeCredential or GetAssertion with a PIN auth parameter, up to the     *)
(* user verification flag.                                                 *)
UserVerification(permission, rp_id, good) ==
  /\ Accept
  /\ good => token_pin # NoPin
  /\ \/ /\ pin_hash = NoPin
        /\ Reply("PIN_NOT_SET")
        /\ UNCHANGED <<permissions_rp_id, served>>
     \/ /\ pin_hash # NoPin
        /\ \/ ~good
           \/ WithCtap21 /\ ~has_permission(permission)
           \/ WithCtap21 /\ permissions_rp_id \notin {NoRp, rp_id}
        /\ Reply("PIN_AUTH_INVALID")
        /\ UNCHANGED <<permissions_rp_id, served>>
     \/ /\ pin_hash # NoPin /\ good
        /\ IF WithCtap21
             THEN has_permission(permission) /\ has_permission_for_rp_id(rp_id)
             ELSE UNCHANGED permissions_rp_id
        /\ served' = served \cup {rp_id}
        /\ Reply("VERIFIED")
  /\ UNCHANGED <<stored, consecutive_pin_mismatches, key_known, permissions, token_pin, guesses>>

(* Resets are only possible in the first 10 seconds after booting. *)
ResetTimeout ==
  /\ reset_allowed
  /\ reset_allowed' = FALSE
  /\ UNCHANGED <<stored, consecutive_pin_mismatches, step, command, reply, key_known,
                 token, guesses>>

(* The user may be absent. *)
process_reset ==
  /\ step = "idle"
  /\ \/ reset_allowed /\ Start("clear", Command("Reset", Garbage, WrongLength, {}, NoRp))
     \/ Reply(IF reset_allowed THEN "USER_ACTION_TIMEOUT" ELSE "NOT_ALLOWED")
  /\ UNCHANGED <<stored, consecutive_pin_mismatches, reset_allowed, key_known, token, guesses>>

(* Mutant: the retries are not among the entries that a reset removes. *)
ResetClear_KeepRetries ==
  /\ step = "clear"
  /\ pin_hash' = NoPin
  /\ min_pin_length' = DEFAULT_MIN_PIN_LENGTH
  /\ wrong' = 0 /\ wrong_since_boot' = 0
  /\ step' = "init"
  /\ UNCHANGED <<pin_retries, consecutive_pin_mismatches, reset_allowed, command, reply,
                 key_known, token>>

(* store.clear removes every entry of the PIN protocol at once. *)
ResetClear ==
  /\ step = "clear"
  /\ pin_hash' = NoPin
  /\ pin_retries' = MAX_PIN_RETRIES
  /\ min_pin_length' = DEFAULT_MIN_PIN_LENGTH
  /\ wrong' = 0 /\ wrong_since_boot' = 0
  /\ step' = "init"
  /\ UNCHANGED <<consecutive_pin_mismatches, reset_allowed, command, reply, key_known, token>>

(* The master keys and the CredRandom secrets exist again; then            *)
(* PinProtocolV1::reset.                                                   *)
ResetInit ==
  /\ step = "init"
  /\ Reply("OK")
  /\ consecutive_pin_mismatches' = 0
  /\ key_known' = FALSE
  /\ NewToken
  /\ permissions' = {} /\ permissions_rp_id' = NoRp
  /\ UNCHANGED <<stored, reset_allowed, guesses>>

-----------------------------------------------------------------------------
(* An update of the store fails: the command stops with its error. *)
StoreFails ==
  /\ step \notin {"idle", "compare"}
  /\ Reply("STORE_ERROR")
  /\ UNCHANGED <<stored, consecutive_pin_mismatches, reset_allowed, key_known, token, guesses>>

(* The power is lost at any time; CtapState::new runs again. *)
PowerLoss ==
  /\ consecutive_pin_mismatches' = 0
  /\ permissions' = {} /\ permissions_rp_id' = NoRp
  /\ reset_allowed' = TRUE
  /\ Reply("none")
  /\ key_known' = FALSE
  /\ NewToken
  /\ wrong_since_boot' = 0
  /\ UNCHANGED <<stored, wrong>>

Subcommand ==
  \/ InvalidSubcommand
  \/ process_get_pin_retries
  \/ process_get_key_agreement
  \/ \E pin_auth \in BOOLEAN, new_pin \in NewPins : process_set_pin(pin_auth, new_pin)
  \/ \E pin_auth \in BOOLEAN, hash \in Hashes, new_pin \in NewPins :
       process_change_pin(pin_auth, hash, new_pin)
  \/ \E hash \in Hashes : process_get_pin_token(hash)
  \/ \E hash \in Hashes, bits \in SUBSET Bits, rp_id \in RpIds \cup {NoRp} :
       process_get_pin_uv_auth_token_using_pin_with_permissions(hash, bits, rp_id)
  \/ \E length \in MinLengths, pin_auth \in {"none", "bad", "good"} :
       process_set_min_pin_length(length, pin_auth)

Next ==
  \/ Subcommand
  \/ DecrPinRetries \/ ComparePinHash \/ ResetPinRetries
  \/ check_and_store_new_pin \/ SetPinDone
  \/ \E permission \in {MakeCredential, GetAssertion}, rp_id \in RpIds, good \in BOOLEAN :
       UserVerification(permission, rp_id, good)
  \/ ResetTimeout \/ process_reset \/ ResetClear \/ ResetInit
  \/ StoreFails \/ PowerLoss

Spec == Init /\ [][Next]_vars

-----------------------------------------------------------------------------
(* Properties. *)

(* Every variable has its type; in particular a command is running exactly *)
(* when a step is due, and the counter of mismatches stops at its limit.   *)
TypeOK ==
  /\ pin_hash \in Pins \cup {NoPin}
  /\ pin_retries \in 0..MAX_PIN_RETRIES
  /\ min_pin_length \in Nat
  /\ consecutive_pin_mismatches \in 0..MAX_MISMATCHES
  /\ permissions \in SUBSET Bits
  /\ permissions_rp_id \in RpIds \cup {NoRp}
  /\ reset_allowed \in BOOLEAN
  /\ step \in Steps
  /\ IF step = "idle" THEN command = NoCommand ELSE command \in Commands
  /\ key_known \in BOOLEAN
  /\ token_pin \in Pins \cup {NoPin}
  /\ wrong \in Nat /\ wrong_since_boot \in Nat
  /\ served \subseteq RpIds

(* Every wrong PIN is paid for with a retry that stays spent, whatever     *)
(* power losses and failed updates come between: verify_pin_hash_enc       *)
(* decrements the retries in the store before it compares.  So at most     *)
(* MAX_PIN_RETRIES wrong PINs are compared before a right one or a reset.  *)
GuessesPaid == wrong + pin_retries <= MAX_PIN_RETRIES

(* At most three wrong PINs are compared in a row without a power cycle,   *)
(* although the counter of mismatches is not incremented when the last     *)
(* retry is spent.                                                         *)
GuessesPerBoot == wrong_since_boot <= MAX_MISMATCHES

(* Whoever holds the current token proved the PIN that is set now: a token *)
(* handed out for an earlier PIN is worth nothing after ChangePin and      *)
(* after a reset, even if these were interrupted.                          *)
TokenMatchesPin == token_pin # NoPin => token_pin = pin_hash

(* Between two requests for a token, the token verifies the user to one    *)
(* relying party only (has_permission_for_rp_id).                          *)
OneRpPerToken == WithCtap21 => Cardinality(served) <= 1

(* A PIN that is about to be set finds all its retries, so process_set_pin *)
(* may be interrupted between storing the PIN and resetting the retries:   *)
(* the retries that were there before are the ones it would have stored.   *)
FullRetriesWithoutPin == pin_hash = NoPin => pin_retries = MAX_PIN_RETRIES

(* No PIN is being verified. *)
NotVerifying == step \notin {"compare", "reset_pin_retries"}

Blocked == pin_hash # NoPin /\ pin_retries = 0 /\ NotVerifying

(* Once the last retry is spent, nothing but a reset gives one back: the   *)
(* callers of verify_pin_hash_enc check for it, as decr_pin_retries        *)
(* saturates.                                                              *)
BlockedUntilReset == [][Blocked => Blocked' \/ pin_hash' = NoPin]_vars
=============================================================================
