------------------------- MODULE PinProtocolProofs --------------------------
(***************************************************************************)
(* Proofs about the PIN protocol.                                          *)
(*                                                                         *)
(* The invariants are not inductive by themselves: what makes them hold is *)
(* what every step of a command may rely on, and that is what PinInv adds. *)
(***************************************************************************)
EXTENDS PinProtocol, FiniteSetTheorems, TLAPS

(* A verification has a PIN to compare with, and a mismatch to spare.  The *)
(* decrement is real, and it is paid before the comparison.                *)
VerificationInv ==
  /\ step \in {"decr_pin_retries", "compare", "reset_pin_retries"} =>
       /\ pin_hash # NoPin
       /\ consecutive_pin_mismatches < MAX_MISMATCHES
       /\ wrong_since_boot <= consecutive_pin_mismatches
  /\ step = "decr_pin_retries" => pin_retries > 0
  /\ step \in {"compare", "reset_pin_retries"} => wrong + pin_retries < MAX_PIN_RETRIES

(* The counter of mismatches misses the wrong PIN that spends the last     *)
(* retry, and no other.                                                    *)
MismatchInv ==
  \/ wrong_since_boot <= consecutive_pin_mismatches
  \/ /\ pin_retries = 0
     /\ wrong_since_boot <= consecutive_pin_mismatches + 1
     /\ consecutive_pin_mismatches < MAX_MISMATCHES

(* SetPin runs without a PIN; once the PIN is set its retries are full. *)
SetPinInv ==
  /\ step = "set_pin_hash" /\ command.name # "ChangePin" => pin_hash = NoPin
  /\ step = "set_pin_done" => /\ pin_retries = MAX_PIN_RETRIES
                              /\ wrong = 0 /\ wrong_since_boot = 0

(* While a reset is possible or running, nobody holds the token. *)
ResetInv ==
  /\ reset_allowed \/ step \in {"clear", "init"} => token_pin = NoPin
  /\ step \notin {"idle", "clear", "init"} => ~reset_allowed
  /\ step = "init" => wrong = 0 /\ wrong_since_boot = 0

(* The relying parties that were served are the one the token is bound to. *)
BindingInv == WithCtap21 => served \subseteq {permissions_rp_id}

PinInv ==
  /\ TypeOK
  /\ GuessesPaid
  /\ TokenMatchesPin
  /\ FullRetriesWithoutPin
  /\ VerificationInv
  /\ MismatchInv
  /\ SetPinInv
  /\ ResetInv
  /\ BindingInv

-----------------------------------------------------------------------------
(* The initial states satisfy the inductive invariant. *)
LEMMA PinInit == Init => PinInv
<1> SUFFICES ASSUME Init PROVE PinInv
  OBVIOUS
<1>1. reset_allowed \in BOOLEAN /\ key_known \in BOOLEAN
  BY DEF Init
<1>2. TypeOK
  BY <1>1, PinAssumption DEF Init, TypeOK, Steps
<1>3. ResetInv
  BY DEF Init, ResetInv
<1> QED
  BY <1>2, <1>3, PinAssumption
  DEF Init, PinInv, GuessesPaid, TokenMatchesPin, FullRetriesWithoutPin,
      VerificationInv, MismatchInv, SetPinInv, BindingInv

(* The commands that the handlers build are commands. *)
LEMMA CommandType ==
  ASSUME NEW name \in {"SetPin", "ChangePin", "GetPinToken", "WithPermissions", "Reset"},
         NEW hash \in Hashes, NEW new_pin \in NewPins, NEW bits \in SUBSET Bits,
         NEW rp_id \in RpIds \cup {NoRp}
  PROVE  /\ Command(name, hash, new_pin, bits, rp_id) \in Commands
         /\ Command(name, hash, new_pin, bits, rp_id).name = name
BY DEF Command, Commands

(* What a handler relies on, when it leaves the store, the token and the   *)
(* counters alone and either replies or starts a command: the conditions   *)
(* of the step it starts with.                                             *)
Quiet ==
  UNCHANGED <<stored, consecutive_pin_mismatches, token, guesses>>

(* A handler that changes nothing of what PinInv is about, and replies,    *)
(* preserves it.                                                           *)
LEMMA ReplyStep ==
  ASSUME PinInv, Quiet, step' = "idle", command' = NoCommand, key_known' \in BOOLEAN,
         reset_allowed' \in BOOLEAN, reset_allowed' => reset_allowed
  PROVE  PinInv'
BY PinAssumption
DEF Quiet, stored, token, guesses, PinInv, TypeOK, GuessesPaid, TokenMatchesPin,
    FullRetriesWithoutPin, Steps, VerificationInv, MismatchInv, SetPinInv, ResetInv, BindingInv

(* A handler that changes nothing of what PinInv is about, and starts the  *)
(* verification of a PIN, preserves it.                                    *)
LEMMA VerifyStep ==
  ASSUME PinInv, Quiet, step = "idle", key_known' = key_known, reset_allowed' \in BOOLEAN,
         ~reset_allowed',
         step' = "decr_pin_retries", command' \in Commands,
         pin_hash # NoPin, pin_retries # 0, consecutive_pin_mismatches < MAX_MISMATCHES
  PROVE  PinInv'
BY PinAssumption
DEF Quiet, stored, token, guesses, PinInv, TypeOK, GuessesPaid, TokenMatchesPin,
    FullRetriesWithoutPin, Steps, VerificationInv, MismatchInv, SetPinInv, ResetInv, BindingInv

(* A handler that starts SetPin when no PIN is set preserves it. *)
LEMMA StartSetPin ==
  ASSUME PinInv, Quiet, key_known' = key_known, reset_allowed' \in BOOLEAN,
         ~reset_allowed', step' = "set_pin_hash", command' \in Commands,
         pin_hash = NoPin
  PROVE  PinInv'
BY PinAssumption
DEF Quiet, stored, token, guesses, PinInv, TypeOK, GuessesPaid, TokenMatchesPin,
    FullRetriesWithoutPin, Steps, VerificationInv, MismatchInv, SetPinInv, ResetInv, BindingInv

(* A command other than Reset ends the time in which a reset is possible. *)
LEMMA Accepted ==
  ASSUME Accept
  PROVE  reset_allowed' \in BOOLEAN /\ ~reset_allowed' /\ step = "idle"
BY DEF Accept

(* verify_pin_hash_enc refuses, or starts a verification that PinInv allows. *)
LEMMA VerifyPinHashEnc ==
  ASSUME PinInv, Quiet, Accept, key_known' = key_known, pin_retries # 0,
         NEW cmd \in Commands, verify_pin_hash_enc(cmd)
  PROVE  PinInv'
<1> key_known' \in BOOLEAN
  BY DEF PinInv, TypeOK
<1>1. \/ step' = "idle" /\ command' = NoCommand
      \/ /\ step' = "decr_pin_retries" /\ command' = cmd
         /\ pin_hash # NoPin /\ ~(consecutive_pin_mismatches >= MAX_MISMATCHES)
  BY DEF verify_pin_hash_enc, Reply, Start
<1>2. CASE step' = "idle" /\ command' = NoCommand
  BY <1>2, Accepted, ReplyStep
<1>3. CASE /\ step' = "decr_pin_retries" /\ command' = cmd
           /\ pin_hash # NoPin /\ ~(consecutive_pin_mismatches >= MAX_MISMATCHES)
  <2>1. consecutive_pin_mismatches < MAX_MISMATCHES
    BY <1>3, PinAssumption DEF PinInv, TypeOK
  <2> QED
    BY <1>3, <2>1, Accepted, VerifyStep
<1> QED
  BY <1>1, <1>2, <1>3

(* GetToken refuses, or starts a verification that PinInv allows. *)
LEMMA GetTokenStep ==
  ASSUME PinInv, Accept, NEW cmd \in Commands, GetToken(cmd)
  PROVE  PinInv'
<1>1. Quiet /\ key_known' = key_known /\ key_known' \in BOOLEAN
  BY DEF GetToken, Quiet, PinInv, TypeOK
<1>2. CASE pin_retries = 0
  BY <1>1, <1>2, Accepted, ReplyStep DEF GetToken, Reply
<1>3. CASE pin_retries # 0
  BY <1>1, <1>3, VerifyPinHashEnc DEF GetToken
<1> QED
  BY <1>2, <1>3

(* The subcommands preserve the inductive invariant up to their first      *)
(* update of the store.                                                    *)
LEMMA SubcommandStep == PinInv /\ Subcommand => PinInv'
<1> SUFFICES ASSUME PinInv, Subcommand PROVE PinInv'
  OBVIOUS
<1> key_known \in BOOLEAN
  BY DEF PinInv, TypeOK
<1> WrongLength \in NewPins /\ Garbage \in Hashes /\ {} \in SUBSET Bits
    /\ NoRp \in RpIds \cup {NoRp}
  BY DEF NewPins, Hashes
<1>1. CASE InvalidSubcommand \/ process_get_pin_retries
  BY <1>1, Accepted, ReplyStep DEF InvalidSubcommand, process_get_pin_retries, Reply, Quiet
<1>2. CASE process_get_key_agreement
  <2>1. key_known' \in BOOLEAN
    BY <1>2 DEF process_get_key_agreement
  <2> QED
    BY <1>2, <2>1, Accepted, ReplyStep DEF process_get_key_agreement, Reply, Quiet
<1>3. ASSUME NEW pin_auth \in BOOLEAN, NEW new_pin \in NewPins,
             process_set_pin(pin_auth, new_pin)
      PROVE  PinInv'
  <2> DEFINE cmd == Command("SetPin", Garbage, new_pin, {}, NoRp)
  <2>1. cmd \in Commands
    BY CommandType
  <2> HIDE DEF cmd
  <2>2. Quiet /\ key_known' = key_known /\ Accept
    BY <1>3 DEF process_set_pin, Quiet
  <2>3. CASE pin_hash # NoPin \/ ~pin_auth
    BY <1>3, <2>2, <2>3, Accepted, ReplyStep DEF process_set_pin, Reply
  <2>4. CASE ~(pin_hash # NoPin \/ ~pin_auth)
    <3>1. step' = "set_pin_hash" /\ command' = cmd
      BY <1>3, <2>4 DEF process_set_pin, Start, cmd
    <3> QED
      BY <2>1, <2>2, <2>4, <3>1, Accepted, StartSetPin
  <2> QED
    BY <2>3, <2>4
<1>4. ASSUME NEW pin_auth \in BOOLEAN, NEW hash \in Hashes, NEW new_pin \in NewPins,
             process_change_pin(pin_auth, hash, new_pin)
      PROVE  PinInv'
  <2> DEFINE cmd == Command("ChangePin", hash, new_pin, {}, NoRp)
  <2>1. cmd \in Commands
    BY CommandType
  <2>2. Quiet /\ key_known' = key_known /\ Accept
    BY <1>4 DEF process_change_pin, Quiet
  <2>3. CASE pin_retries = 0 \/ ~pin_auth
    <3>1. step' = "idle" /\ command' = NoCommand
      BY <1>4, <2>3 DEF process_change_pin, Reply
    <3> QED
      BY <2>2, <3>1, Accepted, ReplyStep
  <2>4. CASE pin_retries # 0 /\ pin_auth
    <3>1. verify_pin_hash_enc(cmd)
      BY <1>4, <2>4 DEF process_change_pin
    <3> HIDE DEF cmd
    <3> QED
      BY <2>1, <2>2, <2>4, <3>1, VerifyPinHashEnc
  <2> QED
    BY <2>3, <2>4
<1>5. ASSUME NEW hash \in Hashes, process_get_pin_token(hash)
      PROVE  PinInv'
  <2> DEFINE cmd == Command("GetPinToken", hash, WrongLength, {}, NoRp)
  <2>1. cmd \in Commands
    BY CommandType
  <2>2. Accept /\ GetToken(cmd)
    BY <1>5 DEF process_get_pin_token
  <2> HIDE DEF cmd
  <2> QED
    BY <2>1, <2>2, GetTokenStep
<1>6. ASSUME NEW hash \in Hashes, NEW bits \in SUBSET Bits, NEW rp_id \in RpIds \cup {NoRp},
             process_get_pin_uv_auth_token_using_pin_with_permissions(hash, bits, rp_id)
      PROVE  PinInv'
  <2> DEFINE cmd == Command("WithPermissions", hash, WrongLength, bits, rp_id)
             bad == bits = {} \/ (bits \cap {MakeCredential, GetAssertion} # {} /\ rp_id = NoRp)
  <2>1. cmd \in Commands
    BY CommandType
  <2>2. Accept /\ \/ Reply("INVALID_PARAMETER") /\ Quiet /\ key_known' = key_known
                  \/ GetToken(cmd)
    BY <1>6 DEF process_get_pin_uv_auth_token_using_pin_with_permissions, Quiet
  <2> HIDE DEF cmd, bad
  <2>3. CASE Reply("INVALID_PARAMETER") /\ Quiet /\ key_known' = key_known
    BY <2>2, <2>3, Accepted, ReplyStep DEF Reply
  <2>4. CASE GetToken(cmd)
    BY <2>1, <2>2, <2>4, GetTokenStep
  <2> QED
    BY <2>2, <2>3, <2>4
<1>7. ASSUME NEW length \in MinLengths, NEW pin_auth \in {"none", "bad", "good"},
             process_set_min_pin_length(length, pin_auth)
      PROVE  PinInv'
  <2>1. /\ step' = "idle" /\ command' = NoCommand
        /\ key_known' = key_known /\ Accept
        /\ min_pin_length' \in {length, min_pin_length}
        /\ UNCHANGED <<pin_hash, pin_retries, consecutive_pin_mismatches, token, guesses>>
    BY <1>7 DEF process_set_min_pin_length, Reply
  <2>2. min_pin_length' \in Nat
    BY <2>1, PinAssumption DEF PinInv, TypeOK
  <2> QED
    BY <2>1, <2>2, Accepted, PinAssumption
    DEF token, guesses, PinInv, TypeOK, GuessesPaid, TokenMatchesPin,
        FullRetriesWithoutPin, Steps, VerificationInv, MismatchInv, SetPinInv, ResetInv,
        BindingInv
<1> QED
  BY <1>1, <1>2, <1>3, <1>4, <1>5, <1>6, <1>7 DEF Subcommand

-----------------------------------------------------------------------------
(* The retry is spent before the comparison. *)
LEMMA DecrStep == PinInv /\ DecrPinRetries => PinInv'
BY PinAssumption
DEF DecrPinRetries, token, guesses, PinInv, TypeOK, GuessesPaid, TokenMatchesPin,
    FullRetriesWithoutPin, Steps, VerificationInv, MismatchInv, SetPinInv, ResetInv, BindingInv

(* A wrong PIN was paid for; the counter of mismatches counts it unless    *)
(* it spent the last retry.                                                *)
LEMMA CompareStep == PinInv /\ ComparePinHash => PinInv'
<1> SUFFICES ASSUME PinInv, ComparePinHash PROVE PinInv'
  OBVIOUS
<1> /\ step = "compare" /\ command \in Commands
    /\ UNCHANGED <<stored, reset_allowed, token>>
  BY DEF ComparePinHash, PinInv, TypeOK
<1>1. CASE command.hash = WrongLength
  <2>1. /\ step' = "idle" /\ command' = NoCommand
        /\ UNCHANGED <<consecutive_pin_mismatches, key_known, guesses>>
    <3>1. pin_hash # WrongLength
      BY PinAssumption DEF PinInv, TypeOK
    <3> QED
      BY <1>1, <3>1 DEF ComparePinHash, Reply
  <2> QED
    BY <2>1, ReplyStep DEF Quiet, PinInv, TypeOK
<1>2. CASE command.hash # WrongLength /\ command.hash = pin_hash
  <2>1. /\ step' = "reset_pin_retries"
        /\ UNCHANGED <<command, consecutive_pin_mismatches, key_known, guesses>>
    BY <1>2 DEF ComparePinHash
  <2> QED
    BY <2>1, PinAssumption
    DEF stored, token, guesses, PinInv, TypeOK, GuessesPaid, TokenMatchesPin,
        FullRetriesWithoutPin, Steps, VerificationInv, MismatchInv, SetPinInv, ResetInv,
        BindingInv
<1>3. CASE command.hash # WrongLength /\ command.hash # pin_hash
  <2>1. /\ step' = "idle" /\ command' = NoCommand
        /\ key_known' = FALSE
        /\ wrong' = wrong + 1 /\ wrong_since_boot' = wrong_since_boot + 1
        /\ consecutive_pin_mismatches' = IF pin_retries = 0 THEN consecutive_pin_mismatches
                                         ELSE consecutive_pin_mismatches + 1
    BY <1>3 DEF ComparePinHash, Reply
  <2>2. key_known' \in BOOLEAN
    BY <2>1
  <2> QED
    BY <2>1, <2>2, PinAssumption
    DEF stored, token, PinInv, TypeOK, GuessesPaid, TokenMatchesPin,
        FullRetriesWithoutPin, Steps, VerificationInv, MismatchInv, SetPinInv, ResetInv,
        BindingInv
<1> QED
  BY <1>1, <1>2, <1>3

(* The right PIN gives the retries back, and a token or a new PIN. *)
LEMMA ResetRetriesStep == PinInv /\ ResetPinRetries => PinInv'
<1> SUFFICES ASSUME PinInv, ResetPinRetries PROVE PinInv'
  OBVIOUS
<1> /\ step = "reset_pin_retries" /\ command \in Commands
    /\ pin_retries' = MAX_PIN_RETRIES /\ consecutive_pin_mismatches' = 0
    /\ wrong' = 0 /\ wrong_since_boot' = 0
    /\ UNCHANGED <<pin_hash, min_pin_length, reset_allowed, key_known>>
  BY DEF ResetPinRetries, PinInv, TypeOK
<1>1. CASE command.name = "ChangePin"
  <2>1. step' = "set_pin_hash" /\ UNCHANGED <<command, token>>
    BY <1>1 DEF ResetPinRetries
  <2> QED
    BY <1>1, <2>1, PinAssumption
    DEF token, PinInv, TypeOK, GuessesPaid, TokenMatchesPin,
        FullRetriesWithoutPin, Steps, VerificationInv, MismatchInv, SetPinInv, ResetInv,
        BindingInv
<1>2. CASE command.name # "ChangePin"
  <2>1. /\ step' = "idle" /\ command' = NoCommand
        /\ token_pin' = pin_hash /\ served' = {}
        /\ permissions' \in {{MakeCredential, GetAssertion}, command.permissions}
        /\ permissions_rp_id' \in {NoRp, command.rp_id}
    BY <1>2 DEF ResetPinRetries, Reply
  <2>2. permissions' \in SUBSET Bits /\ permissions_rp_id' \in RpIds \cup {NoRp}
    BY <2>1 DEF Commands, Bits, MakeCredential, GetAssertion
  <2> QED
    BY <2>1, <2>2, PinAssumption
    DEF PinInv, TypeOK, GuessesPaid, TokenMatchesPin,
        FullRetriesWithoutPin, Steps, VerificationInv, MismatchInv, SetPinInv, ResetInv,
        BindingInv
<1> QED
  BY <1>1, <1>2

(* A new PIN has a new token, or nobody had the token. *)
LEMMA StorePinStep == PinInv /\ check_and_store_new_pin => PinInv'
<1> SUFFICES ASSUME PinInv, check_and_store_new_pin PROVE PinInv'
  OBVIOUS
<1> /\ step = "set_pin_hash" /\ command \in Commands
    /\ UNCHANGED <<pin_retries, min_pin_length, consecutive_pin_mismatches, reset_allowed,
                   key_known, permissions, permissions_rp_id>>
  BY DEF check_and_store_new_pin, PinInv, TypeOK
<1>1. CASE ~SatisfiesPolicy(command.new_pin)
  <2>1. /\ step' = "idle" /\ command' = NoCommand
        /\ UNCHANGED <<pin_hash, guesses, token_pin, served>>
    BY <1>1 DEF check_and_store_new_pin, Reply
  <2> QED
    BY <2>1, ReplyStep DEF Quiet, stored, token, PinInv, TypeOK
<1>2. CASE SatisfiesPolicy(command.new_pin)
  <2>1. /\ pin_hash' = command.new_pin
        /\ wrong' = 0 /\ wrong_since_boot' = 0
    BY <1>2 DEF check_and_store_new_pin
  <2>2. pin_hash' \in Pins /\ pin_hash' # NoPin
    BY <1>2, <2>1, PinAssumption DEF SatisfiesPolicy, Commands, NewPins
  <2>3. CASE command.name = "ChangePin"
    <3>1. /\ step' = "idle" /\ command' = NoCommand
          /\ token_pin' = NoPin /\ served' = {}
      BY <1>2, <2>3 DEF check_and_store_new_pin, Reply, NewToken
    <3> QED
      BY <2>1, <2>2, <3>1, PinAssumption
      DEF PinInv, TypeOK, GuessesPaid, TokenMatchesPin,
          FullRetriesWithoutPin, Steps, VerificationInv, MismatchInv, SetPinInv, ResetInv,
          BindingInv
  <2>4. CASE command.name # "ChangePin"
    <3>1. step' = "set_pin_done" /\ UNCHANGED <<command, token_pin, served>>
      BY <1>2, <2>4 DEF check_and_store_new_pin
    <3>2. pin_hash = NoPin /\ token_pin = NoPin /\ pin_retries = MAX_PIN_RETRIES
      BY <2>4 DEF PinInv, SetPinInv, TokenMatchesPin, FullRetriesWithoutPin
    <3> QED
      BY <2>1, <2>2, <2>4, <3>1, <3>2, PinAssumption
      DEF PinInv, TypeOK, GuessesPaid, TokenMatchesPin,
          FullRetriesWithoutPin, Steps, VerificationInv, MismatchInv, SetPinInv, ResetInv,
          BindingInv
  <2> QED
    BY <2>3, <2>4
<1> QED
  BY <1>1, <1>2

(* SetPin ends with retries that were full already. *)
LEMMA SetPinDoneStep == PinInv /\ SetPinDone => PinInv'
BY PinAssumption
DEF SetPinDone, Reply, token, guesses, PinInv, TypeOK, GuessesPaid, TokenMatchesPin,
    FullRetriesWithoutPin, Steps, VerificationInv, MismatchInv, SetPinInv, ResetInv, BindingInv

(* The token is used for the relying party it is bound to. *)
LEMMA UserVerificationStep ==
  ASSUME PinInv, NEW permission, NEW rp_id \in RpIds, NEW good \in BOOLEAN,
         UserVerification(permission, rp_id, good)
  PROVE  PinInv'
<1>1. /\ step' = "idle" /\ command' = NoCommand /\ Accept
      /\ UNCHANGED <<stored, consecutive_pin_mismatches, key_known, permissions, token_pin,
                     guesses>>
  BY DEF UserVerification, Reply
<1>2. \/ UNCHANGED <<permissions_rp_id, served>>
      \/ /\ WithCtap21 => permissions_rp_id \in {NoRp, rp_id}
         /\ permissions_rp_id' = IF WithCtap21 THEN rp_id ELSE permissions_rp_id
         /\ served' = served \cup {rp_id}
  BY DEF UserVerification, has_permission_for_rp_id
<1>3. CASE UNCHANGED <<permissions_rp_id, served>>
  BY <1>1, <1>3, Accepted, ReplyStep DEF Quiet, token, PinInv, TypeOK
<1>4. CASE /\ WithCtap21 => permissions_rp_id \in {NoRp, rp_id}
           /\ permissions_rp_id' = IF WithCtap21 THEN rp_id ELSE permissions_rp_id
           /\ served' = served \cup {rp_id}
  <2>1. permissions_rp_id' \in RpIds \cup {NoRp} /\ served' \subseteq RpIds
    BY <1>4 DEF PinInv, TypeOK
  <2>2. BindingInv'
    BY <1>4, PinAssumption DEF PinInv, TypeOK, BindingInv
  <2> QED
    BY <1>1, <2>1, <2>2, Accepted, PinAssumption
    DEF stored, guesses, PinInv, TypeOK, GuessesPaid, TokenMatchesPin,
        FullRetriesWithoutPin, Steps, VerificationInv, MismatchInv, SetPinInv, ResetInv
<1> QED
  BY <1>2, <1>3, <1>4

-----------------------------------------------------------------------------
(* A reset is only possible as long as nobody holds the token, so it may   *)
(* stop at any of its steps.                                               *)
LEMMA ResetStep ==
  PinInv /\ (ResetTimeout \/ process_reset \/ ResetClear \/ ResetInit) => PinInv'
<1> SUFFICES ASSUME PinInv, ResetTimeout \/ process_reset \/ ResetClear \/ ResetInit
             PROVE  PinInv'
  OBVIOUS
<1> /\ key_known \in BOOLEAN /\ reset_allowed \in BOOLEAN
    /\ WrongLength \in NewPins /\ Garbage \in Hashes
  BY DEF PinInv, TypeOK, NewPins, Hashes
<1>1. CASE ResetTimeout
  <2>1. ~reset_allowed' /\ reset_allowed' \in BOOLEAN /\ Quiet
        /\ UNCHANGED <<step, command, key_known>>
    BY <1>1 DEF ResetTimeout, Quiet
  <2> QED
    BY <2>1, PinAssumption
    DEF Quiet, stored, token, guesses, PinInv, TypeOK, GuessesPaid, TokenMatchesPin,
        FullRetriesWithoutPin, Steps, VerificationInv, MismatchInv, SetPinInv, ResetInv,
        BindingInv
<1>2. CASE process_reset
  <2> DEFINE cmd == Command("Reset", Garbage, WrongLength, {}, NoRp)
  <2>1. cmd \in Commands
    BY CommandType
  <2>2. /\ Quiet /\ UNCHANGED <<reset_allowed, key_known>>
        /\ \/ reset_allowed /\ step' = "clear" /\ command' = cmd
           \/ step' = "idle" /\ command' = NoCommand
    BY <1>2 DEF process_reset, Quiet, Start, Reply
  <2> HIDE DEF cmd
  <2>3. CASE reset_allowed /\ step' = "clear" /\ command' = cmd
    BY <2>1, <2>2, <2>3, PinAssumption
    DEF Quiet, stored, token, guesses, PinInv, TypeOK, GuessesPaid, TokenMatchesPin,
        FullRetriesWithoutPin, Steps, VerificationInv, MismatchInv, SetPinInv, ResetInv,
        BindingInv
  <2>4. CASE step' = "idle" /\ command' = NoCommand
    BY <2>2, <2>4, ReplyStep
  <2> QED
    BY <2>2, <2>3, <2>4
<1>3. CASE ResetClear
  BY <1>3, PinAssumption
  DEF ResetClear, token, PinInv, TypeOK, GuessesPaid, TokenMatchesPin,
      FullRetriesWithoutPin, Steps, VerificationInv, MismatchInv, SetPinInv, ResetInv,
      BindingInv
<1>4. CASE ResetInit
  <2>1. key_known' \in BOOLEAN
    BY <1>4 DEF ResetInit
  <2> QED
    BY <1>4, <2>1, PinAssumption
    DEF ResetInit, Reply, NewToken, stored, guesses, PinInv, TypeOK, GuessesPaid,
        TokenMatchesPin, FullRetriesWithoutPin, Steps, VerificationInv, MismatchInv, SetPinInv,
        ResetInv, BindingInv
<1> QED
  BY <1>1, <1>2, <1>3, <1>4

(* An update of the store fails, or the power is lost. *)
LEMMA FaultStep == PinInv /\ (StoreFails \/ PowerLoss) => PinInv'
<1> SUFFICES ASSUME PinInv, StoreFails \/ PowerLoss PROVE PinInv'
  OBVIOUS
<1>1. CASE StoreFails
  BY <1>1, ReplyStep DEF StoreFails, Reply, Quiet, PinInv, TypeOK
<1>2. CASE PowerLoss
  <2>1. key_known' \in BOOLEAN /\ reset_allowed' \in BOOLEAN
    BY <1>2 DEF PowerLoss
  <2> QED
    BY <1>2, <2>1, PinAssumption
    DEF PowerLoss, Reply, NewToken, stored, PinInv, TypeOK, GuessesPaid,
        TokenMatchesPin, FullRetriesWithoutPin, Steps, VerificationInv, MismatchInv, SetPinInv,
        ResetInv, BindingInv
<1> QED
  BY <1>1, <1>2

(* Every step preserves the inductive invariant. *)
LEMMA PinStep == PinInv /\ [Next]_vars => PinInv'
<1> SUFFICES ASSUME PinInv, [Next]_vars PROVE PinInv'
  OBVIOUS
<1>1. CASE UNCHANGED vars
  BY <1>1
  DEF vars, stored, token, guesses, PinInv, TypeOK, GuessesPaid, TokenMatchesPin,
      FullRetriesWithoutPin, VerificationInv, MismatchInv, SetPinInv, ResetInv, BindingInv
<1>2. CASE Subcommand
  BY <1>2, SubcommandStep
<1>3. CASE DecrPinRetries
  BY <1>3, DecrStep
<1>4. CASE ComparePinHash
  BY <1>4, CompareStep
<1>5. CASE ResetPinRetries
  BY <1>5, ResetRetriesStep
<1>6. CASE check_and_store_new_pin
  BY <1>6, StorePinStep
<1>7. CASE SetPinDone
  BY <1>7, SetPinDoneStep
<1>8. ASSUME NEW permission \in {MakeCredential, GetAssertion}, NEW rp_id \in RpIds,
             NEW good \in BOOLEAN, UserVerification(permission, rp_id, good)
      PROVE  PinInv'
  BY <1>8, UserVerificationStep
<1>9. CASE ResetTimeout \/ process_reset \/ ResetClear \/ ResetInit
  BY <1>9, ResetStep
<1>10. CASE StoreFails \/ PowerLoss
  BY <1>10, FaultStep
<1> QED
  BY <1>1, <1>2, <1>3, <1>4, <1>5, <1>6, <1>7, <1>8, <1>9, <1>10 DEF Next

-----------------------------------------------------------------------------
(* The inductive invariant holds in every reachable state. *)
THEOREM PinInvariant == Spec => []PinInv
BY PinInit, PinStep, PTL DEF Spec

(* Every variable of the PIN protocol has its type, whatever the numbers   *)
(* of PINs, retries and mismatches.                                        *)
THEOREM PinTypeCorrect == Spec => []TypeOK
<1>1. PinInv => TypeOK
  BY DEF PinInv
<1> QED
  BY <1>1, PinInvariant, PTL

(* No power loss and no failure of the store gives a guess for free: wrong *)
(* PINs that were compared and retries that are left never exceed          *)
(* MAX_PIN_RETRIES together.                                               *)
THEOREM GuessesArePaid == Spec => []GuessesPaid
<1>1. PinInv => GuessesPaid
  BY DEF PinInv
<1> QED
  BY <1>1, PinInvariant, PTL

(* Without a power cycle, at most MAX_MISMATCHES wrong PINs are compared   *)
(* in a row.                                                               *)
THEOREM GuessesBoundedPerBoot == Spec => []GuessesPerBoot
<1>1. PinInv => GuessesPerBoot
  BY PinAssumption DEF PinInv, TypeOK, MismatchInv, GuessesPerBoot
<1> QED
  BY <1>1, PinInvariant, PTL

(* Whoever holds the current token proved the PIN that is set now. *)
THEOREM TokensMatchPin == Spec => []TokenMatchesPin
<1>1. PinInv => TokenMatchesPin
  BY DEF PinInv
<1> QED
  BY <1>1, PinInvariant, PTL

(* The retries are full whenever no PIN is set, so SetPin may be           *)
(* interrupted.                                                            *)
THEOREM RetriesFullWithoutPin == Spec => []FullRetriesWithoutPin
<1>1. PinInv => FullRetriesWithoutPin
  BY DEF PinInv
<1> QED
  BY <1>1, PinInvariant, PTL

(* A token serves one relying party between two requests for it. *)
THEOREM TokenServesOneRp == Spec => []OneRpPerToken
<1>1. ASSUME PinInv PROVE OneRpPerToken
  <2>1. SUFFICES ASSUME WithCtap21 PROVE Cardinality(served) <= 1
    BY DEF OneRpPerToken
  <2>2. served \subseteq {permissions_rp_id}
    BY <1>1, <2>1 DEF PinInv, BindingInv
  <2>3. /\ IsFiniteSet({permissions_rp_id})
        /\ Cardinality({permissions_rp_id}) = 1
    BY FS_Singleton
  <2>4. Cardinality(served) <= Cardinality({permissions_rp_id})
    BY <2>2, <2>3, FS_Subset
  <2> QED
    BY <2>3, <2>4
<1> QED
  BY <1>1, PinInvariant, PTL

(* Once the last retry is spent, only a reset gives one back. *)
THEOREM BlockedPinsStayBlocked == Spec => BlockedUntilReset
<1>1. ASSUME PinInv, [Next]_vars PROVE [Blocked => Blocked' \/ pin_hash' = NoPin]_vars
  <2> SUFFICES ASSUME Next, Blocked PROVE Blocked' \/ pin_hash' = NoPin
    BY <1>1
  <2> pin_hash # NoPin /\ pin_retries = 0 /\ step \notin {"compare", "reset_pin_retries"}
    BY DEF Blocked, NotVerifying
  <2> HIDE DEF Blocked
  <2>1. CASE Subcommand
    <3>1. /\ UNCHANGED <<pin_hash, pin_retries>>
          /\ step' \in {"idle", "set_pin_hash", "decr_pin_retries"}
      BY <2>1
      DEF Subcommand, InvalidSubcommand, process_get_pin_retries, process_get_key_agreement,
          process_set_pin, process_change_pin, process_get_pin_token, GetToken,
          process_get_pin_uv_auth_token_using_pin_with_permissions, verify_pin_hash_enc,
          process_set_min_pin_length, Reply, Start, stored
    <3> QED
      BY <3>1 DEF Blocked, NotVerifying
  <2>2. CASE DecrPinRetries
    BY <1>1, <2>2 DEF DecrPinRetries, PinInv, VerificationInv
  <2>3. CASE ComparePinHash \/ ResetPinRetries
    BY <2>3 DEF ComparePinHash, ResetPinRetries
  <2>4. CASE check_and_store_new_pin
    <3>1. /\ pin_retries' = pin_retries
          /\ step' \in {"idle", "set_pin_done"}
          /\ pin_hash' = pin_hash \/ (SatisfiesPolicy(command.new_pin) /\ pin_hash' = command.new_pin)
      BY <2>4 DEF check_and_store_new_pin, Reply
    <3> QED
      BY <3>1 DEF Blocked, NotVerifying
  <2>5. CASE SetPinDone
    BY <1>1, <2>5, PinAssumption DEF SetPinDone, PinInv, SetPinInv
  <2>6. ASSUME NEW permission \in {MakeCredential, GetAssertion}, NEW rp_id \in RpIds,
               NEW good \in BOOLEAN, UserVerification(permission, rp_id, good)
        PROVE  Blocked'
    BY <2>6 DEF UserVerification, Reply, stored, Blocked, NotVerifying
  <2>7. CASE ResetTimeout \/ process_reset
    BY <2>7 DEF ResetTimeout, process_reset, Start, Reply, stored, Blocked, NotVerifying
  <2>8. CASE ResetClear
    BY <2>8 DEF ResetClear
  <2>9. CASE ResetInit \/ StoreFails \/ PowerLoss
    BY <2>9 DEF ResetInit, StoreFails, PowerLoss, Reply, stored, Blocked, NotVerifying
  <2> QED
    BY <2>1, <2>2, <2>3, <2>4, <2>5, <2>6, <2>7, <2>8, <2>9 DEF Next
<1> QED
  BY <1>1, PinInvariant, PTL DEF Spec, BlockedUntilReset
=============================================================================
