--------------------------- MODULE Authenticator ----------------------------
(***************************************************************************)
(* The credentials of the authenticator and the commands that use them     *)
(* (ctap/mod.rs, the credentials, the signature counter and the master     *)
(* keys of ctap/storage.rs, and ctap/ctap1.rs), and the configuration of   *)
(* the attestation, whose certificate and private key survive resets.      *)
(*                                                                         *)
(* A credential is resident (kept in the store) or a key handle: encrypted *)
(* with the master keys and kept by the relying party.  Its identifier is  *)
(* random, here the number of credentials issued so far.  An update of the *)
(* store is atomic, or fails and changes nothing.                          *)
(*                                                                         *)
(* A command that needs the user waits (step "presence") until the button  *)
(* is touched, the wait times out or is cancelled; time passes meanwhile,  *)
(* and the power may be lost.  What the command found out before the wait  *)
(* is in pending.                                                          *)
(*                                                                         *)
(* The PIN protocol is a module of its own: here a PIN is set or not, and  *)
(* a PIN auth parameter is absent, empty, bad or good.  So is the user     *)
(* presence of U2F.                                                        *)
(***************************************************************************)
EXTENDS Integers, Sequences, FiniteSetsExt

CONSTANTS
  RpIds,                           \* the relying parties
  Users,                           \* the user handles
  Creations,                       \* the credentials that platforms ask for
  MAX_SUPPORTED_RESIDENTIAL_KEYS,  \* 150
  INITIAL_SIGNATURE_COUNTER,       \* 1
  Increments,                      \* of the signature counter (1 .. 8)
  CounterModulus,                  \* 2^32
  RESET_TIMEOUT,                   \* 10 s
  STATEFUL_COMMAND_TIMEOUT,        \* 30 s
  TOUCH_TIMEOUT,                   \* 30 s
  WithCtap1,                       \* the feature with_ctap1
  Materials,                       \* attestation materials: a certificate and its key
  MaxIssued,                       \* bound on the credentials issued
  MaxUnattested,                   \* the same while the attestation is not programmed
  MaxEra,                          \* bound on the resets
  MaxListed,                       \* bound on the length of a credential list
  NoCredential, NoUser, NoInput, NoCommand, NoMaterial

ASSUME AuthenticatorAssumption ==
  /\ MAX_SUPPORTED_RESIDENTIAL_KEYS \in Nat \ {0}
  /\ INITIAL_SIGNATURE_COUNTER \in Nat \ {0}
  /\ Increments \subseteq Nat \ {0}
  /\ CounterModulus \in Nat /\ INITIAL_SIGNATURE_COUNTER < CounterModulus
  /\ RESET_TIMEOUT \in Nat \ {0}
  /\ TOUCH_TIMEOUT \in Nat
  /\ STATEFUL_COMMAND_TIMEOUT \in Nat /\ STATEFUL_COMMAND_TIMEOUT >= TOUCH_TIMEOUT
  /\ WithCtap1 \in BOOLEAN
  /\ {MaxIssued, MaxUnattested, MaxEra, MaxListed} \subseteq Nat
  /\ Creations \subseteq
       [rp_id : RpIds, user : Users, rk : BOOLEAN,
        policy : {"Optional", "OptionalWithList", "Required"}]
  /\ NoUser \notin Users /\ NoMaterial \notin Materials
  /\ NoCredential \notin
       [id : Nat, rp_id : RpIds, user : Users,
        policy : {"Optional", "OptionalWithList", "Required"}, creation_order : Nat]

VARIABLES
  (* The persistent store. *)
  credentials,            \* the resident credential of each key, or NoCredential
  counter,                \* INITIAL_SIGNATURE_COUNTER when the entry is absent
  master_keys,            \* 0 when they are absent
  pin_set,                \* a PIN hash is stored
  certificate,            \* of the attestation: the material it is of, or NoMaterial
  private_key,            \* of the attestation
  (* CtapState. *)
  stateful_command_type,  \* "None", "Reset" or "GetAssertion"
  next_credentials,       \* of GetAssertion
  assertion_input,        \* of GetAssertion
  permission,             \* how long stateful_command_permission still lasts
  (* The command that is running. *)
  step,                   \* "idle", "presence", or the update of the store that is next
  pending,
  waited,                 \* how long it has waited for the user
  reply,                  \* the last response
  (* History. *)
  issued,                 \* the credentials, in the order they were created
  generated,              \* how often master keys were generated
  era,                    \* the number of resets
  uptime,                 \* time since the last boot, up to RESET_TIMEOUT
  quiet,                  \* no command since then that ends the right to reset
  wrapped                 \* the signature counter has wrapped since the last reset

attestation == <<certificate, private_key>>
store == <<credentials, counter, master_keys, pin_set, attestation>>
session == <<stateful_command_type, next_credentials, assertion_input>>
clock == <<permission, uptime>>
running == <<step, pending, waited>>
vars == <<store, session, clock, running, reply, issued, generated, era, quiet, wrapped>>

-----------------------------------------------------------------------------
\* Credentials.

Keys == 0 .. MAX_SUPPORTED_RESIDENTIAL_KEYS - 1

Credential(id, rp_id, user, policy, order) ==
  [id |-> id, rp_id |-> rp_id, user |-> user, policy |-> policy,
   creation_order |-> order]

\* iter_credentials
Stored == {credentials[k] : k \in Keys} \ {NoCredential}

\* Mutant: does not look at the policy.
find_credential_Unprotected(rp_id, id, check_cred_protect) ==
  {c \in Stored : c.rp_id = rp_id /\ c.id = id}

\* The credential with an identifier, if it may be used.
find_credential(rp_id, id, check_cred_protect) ==
  {c \in Stored : /\ c.rp_id = rp_id /\ c.id = id
                  /\ ~(check_cred_protect /\ c.policy = "Required")}

is_discoverable(c) == c.policy = "Optional"

filter_credential(rp_id, check_cred_protect) ==
  {c \in Stored : c.rp_id = rp_id /\ (check_cred_protect => is_discoverable(c))}

\* Mutant: counts the credentials.
new_creation_order_Count == 1 + Cardinality(Stored)

new_creation_order == 1 + Max({0} \cup {c.creation_order : c \in Stored})

\* A key handle opens if it was made for the relying party with the master keys
\* of now.
IsHandle(id) == ~issued[id].resident

decrypt_credential_source(id, rp_id) ==
  IF IsHandle(id) /\ issued[id].master_keys = master_keys /\ issued[id].rp_id = rp_id
  THEN {Credential(id, rp_id, NoUser, "Optional", 0)} ELSE {}

\* decrypt_credential_source fails on a key handle without master keys.
Unreadable(listed) == master_keys = 0 /\ \E id \in listed : IsHandle(id)

\* The credentials of a list that may be used.
Usable(listed, rp_id, check_cred_protect) ==
  UNION { find_credential(rp_id, id, check_cred_protect)
          \cup (IF master_keys = 0 THEN {} ELSE decrypt_credential_source(id, rp_id)) :
          id \in listed }

\* The list of a request: identifiers of credentials issued before.
Lists == {l \in SUBSET (DOMAIN issued) : Cardinality(l) <= MaxListed}

-----------------------------------------------------------------------------
\* Responses.

NoReply == [kind |-> "none"]

\* A response without an assertion.
Respond(kind) ==
  /\ step' = "idle" /\ pending' = NoCommand /\ waited' = 0
  /\ reply' = [kind |-> kind]

\* Waits for the user.
Wait(command) ==
  /\ step' = "presence" /\ pending' = command /\ waited' = 0
  /\ reply' = NoReply

Command(name) == [name |-> name]

\* Certificate and private key of the attestation are there.
Programmed == certificate # NoMaterial /\ private_key # NoMaterial

\* The bounds on the credentials issued.
MayIssue == Len(issued) < (IF Programmed THEN MaxIssued ELSE MaxUnattested)

\* A credential is issued.
Issue(rp_id, resident, last) ==
  /\ issued' = Append(issued, [rp_id |-> rp_id, resident |-> resident,
                               master_keys |-> IF resident THEN 0 ELSE master_keys,
                               era |-> era, last |-> last])
  /\ Respond("ok")

\* The response of an assertion: what is signed, and, for the properties, the
\* last value of the counter that the credential signed and the credentials
\* that GetNextAssertion will use.
Assertion(c, count, has_uv, listed, rest) ==
  [kind |-> "assertion", id |-> c.id, rp_id |-> c.rp_id, counter |-> count, uv |-> has_uv,
   listed |-> listed, previous |-> issued[c.id].last, rest |-> {r.id : r \in rest}]

\* A credential signs the counter.
Sign(c, input, rest) ==
  /\ step' = "idle" /\ pending' = NoCommand /\ waited' = 0
  /\ reply' = Assertion(c, input.counter, input.has_uv, input.listed, rest)
  /\ issued' = [issued EXCEPT ![c.id].last = input.counter]

\* Fails if the input of the hmac-secret extension is bad.
assertion_response(c, input, rest) ==
  \/ Sign(c, input, rest)
  \/ Respond("error") /\ UNCHANGED issued

\* incr_global_signature_counter
increment_global_signature_counter ==
  \E increment \in Increments :
    /\ counter' = (counter + increment) % CounterModulus
    /\ wrapped' = (wrapped \/ counter + increment >= CounterModulus)

-----------------------------------------------------------------------------
\* process_command.

\* Mutant: a command does not end the stateful command.
EndStateful_Keep == UNCHANGED session

\* Commands end the stateful command.
EndStateful ==
  /\ stateful_command_type' = "None"
  /\ next_credentials' = {}
  /\ assertion_input' = NoInput

\* A command that ends the stateful command is accepted.
Accept ==
  /\ step = "idle"
  /\ quiet' = FALSE

\* A command that is refused for its arguments, or a ClientPin command, which
\* may set a PIN.
OtherCommand ==
  /\ Accept
  /\ EndStateful
  /\ pin_set' \in {pin_set, TRUE}
  /\ (Respond("ok") \/ Respond("error"))
  /\ UNCHANGED <<credentials, counter, master_keys, attestation, clock, issued, generated, era,
                 wrapped>>

process_get_info ==
  /\ step = "idle"
  /\ Respond("ok")
  /\ UNCHANGED <<store, session, clock, issued, generated, era, quiet, wrapped>>

process_selection ==
  /\ step = "idle"
  /\ Wait(Command("Selection"))
  /\ UNCHANGED <<store, session, clock, issued, generated, era, quiet, wrapped>>

\* PIN auth parameters: "none", "empty", "bad" or "good".
PinAuths == {"none", "empty", "bad"} \cup (IF pin_set THEN {"good"} ELSE {})

\* process_make_credential, up to the user presence check.
process_make_credential(params, excluded, pin_auth) ==
  /\ Accept
  /\ MayIssue
  /\ EndStateful
  /\ \/ pin_auth = "empty" /\ Wait(Command("Probe"))
     \/ /\ pin_auth # "empty"
        /\ Usable(excluded, params.rp_id, pin_auth = "none") # {}
        /\ Wait(Command("Probe"))
     \/ pin_auth # "empty" /\ Unreadable(excluded) /\ Respond("error")
     \/ /\ pin_auth # "empty"
        /\ Usable(excluded, params.rp_id, pin_auth = "none") = {}
        /\ ~Unreadable(excluded)
        /\ \/ pin_auth = "bad" /\ Respond("error")
           \/ pin_auth = "none" /\ pin_set /\ Respond("error")
           \/ /\ pin_auth = "good" \/ (pin_auth = "none" /\ ~pin_set)
              /\ Wait([name |-> "MakeCredential", params |-> params])
  /\ UNCHANGED <<store, clock, issued, generated, era, wrapped>>

\* The keys of the credentials of a user at a relying party.
OldKeys(rp_id, user) ==
  {k \in Keys : /\ credentials[k] # NoCredential
                /\ credentials[k].rp_id = rp_id /\ credentials[k].user = user}

FreeKeys == {k \in Keys : credentials[k] = NoCredential}

\* Mutant: never updates a credential.
key_of_credential_New(rp_id, user) == Min(FreeKeys)

\* The key under which a credential is stored: the one of the credential it
\* replaces, or the first one that is free.
key_of_credential(rp_id, user) ==
  IF OldKeys(rp_id, user) # {} THEN Min(OldKeys(rp_id, user)) ELSE Min(FreeKeys)

\* An error: there are no free keys, several credentials to replace, or the
\* update of the store fails.
store_credential(m) ==
  \/ Respond("error") /\ UNCHANGED <<credentials, issued>>
  \/ /\ Cardinality(OldKeys(m.rp_id, m.user)) <= 1
     /\ OldKeys(m.rp_id, m.user) \cup FreeKeys # {}
     /\ credentials' = [credentials EXCEPT ![key_of_credential(m.rp_id, m.user)] =
                          Credential(Len(issued) + 1, m.rp_id, m.user, m.policy,
                                     new_creation_order)]
     /\ Issue(m.rp_id, TRUE, counter)

\* process_make_credential, after the user presence check.
FinishMakeCredential(m) ==
  /\ \/ m.rk /\ store_credential(m)
     \/ /\ ~m.rk /\ master_keys # 0
        /\ Issue(m.rp_id, FALSE, counter)
        /\ UNCHANGED credentials
     \/ /\ ~m.rk /\ master_keys = 0
        /\ Respond("error")
        /\ UNCHANGED <<credentials, issued>>
  /\ UNCHANGED <<counter, master_keys, pin_set, attestation, session, clock, generated, era,
                 quiet, wrapped>>

\* The most recent of a set of credentials: the last one when they are sorted
\* by creation order.
Newest(creds) == {c \in creds : \A d \in creds : d.creation_order <= c.creation_order}

\* process_get_assertion, after the user presence check, which took elapsed.
FinishGetAssertion(g, elapsed) ==
  /\ \/ /\ Respond("error")
        /\ EndStateful
        /\ UNCHANGED <<counter, permission, issued, wrapped>>
     \/ /\ g.creds # {}
        /\ increment_global_signature_counter
        /\ \E c \in Newest(g.creds) :
             LET rest == g.creds \ {c}
                 input == [counter |-> counter', has_uv |-> g.has_uv, listed |-> g.listed]
             IN  /\ IF rest = {} THEN EndStateful /\ UNCHANGED permission
                    ELSE /\ stateful_command_type' = "GetAssertion"
                         /\ next_credentials' = rest
                         /\ assertion_input' = input
                         /\ permission' = STATEFUL_COMMAND_TIMEOUT - elapsed
                 /\ assertion_response(c, input, rest)
  /\ UNCHANGED <<credentials, master_keys, pin_set, attestation, uptime, generated, era>>

\* process_get_assertion, up to the user presence check.  Of a list that has
\* several credentials to use, the first one is taken: any of them.
process_get_assertion(rp_id, with_list, listed, up, pin_auth) ==
  LET has_uv == pin_auth = "good"
      applicable ==
        IF with_list
        THEN LET usable == Usable(listed, rp_id, ~has_uv)
             IN  IF usable = {} /\ ~Unreadable(listed) THEN {{}}
                 ELSE {{c} : c \in usable}
        ELSE {filter_credential(rp_id, ~has_uv)}
      request(creds) ==
        [name |-> "GetAssertion", has_uv |-> has_uv, listed |-> with_list, creds |-> creds]
  IN  /\ Accept
      /\ \/ /\ \/ pin_auth = "empty" /\ Wait(Command("Probe"))
               \/ pin_auth = "bad" /\ Respond("error")
               \/ /\ pin_auth \in {"none", "good"}
                  /\ with_list /\ Unreadable(listed)
                  /\ Respond("error")
               \/ /\ pin_auth \in {"none", "good"} /\ up
                  /\ \E creds \in applicable : Wait(request(creds))
            /\ EndStateful
            /\ UNCHANGED <<store, clock, issued, generated, era, wrapped>>
         \/ /\ pin_auth \in {"none", "good"} /\ ~up
            /\ \E creds \in applicable : FinishGetAssertion(request(creds), 0)

process_get_next_assertion ==
  /\ step = "idle"
  /\ \/ /\ stateful_command_type # "GetAssertion"
        /\ EndStateful
        /\ quiet' = FALSE
        /\ Respond("error")
        /\ UNCHANGED issued
     \/ /\ stateful_command_type = "GetAssertion"
        /\ permission = 0 \/ next_credentials = {}
        /\ Respond("error")
        /\ UNCHANGED <<session, issued, quiet>>
     \/ /\ stateful_command_type = "GetAssertion"
        /\ permission > 0
        /\ \E c \in Newest(next_credentials) :
             /\ next_credentials' = next_credentials \ {c}
             /\ assertion_response(c, assertion_input, next_credentials \ {c})
        /\ UNCHANGED <<stateful_command_type, assertion_input, quiet>>
  /\ UNCHANGED <<store, clock, generated, era, wrapped>>

\* Mutant: any permission will do.
process_reset_AnyType ==
  /\ step = "idle"
  /\ era < MaxEra
  /\ \/ permission = 0 /\ Respond("error")
     \/ permission > 0 /\ Wait(Command("Reset"))
  /\ UNCHANGED <<store, session, clock, issued, generated, era, quiet, wrapped>>

\* process_reset, up to the user presence check.
process_reset ==
  /\ step = "idle"
  /\ era < MaxEra
  /\ \/ /\ stateful_command_type # "Reset"
        /\ EndStateful
        /\ quiet' = FALSE
        /\ Respond("error")
     \/ /\ stateful_command_type = "Reset"
        /\ \/ permission = 0 /\ Respond("error")
           \/ permission > 0 /\ Wait(Command("Reset"))
        /\ UNCHANGED <<session, quiet>>
  /\ UNCHANGED <<store, clock, issued, generated, era, wrapped>>

\* store.clear removes every entry that is not persistent at once.
ResetClear ==
  /\ step = "clear"
  /\ credentials' = [k \in Keys |-> NoCredential]
  /\ counter' = INITIAL_SIGNATURE_COUNTER
  /\ master_keys' = 0
  /\ pin_set' = FALSE
  /\ step' = "init"
  /\ era' = era + 1
  /\ wrapped' = FALSE
  /\ UNCHANGED <<attestation, session, clock, pending, waited, reply, issued, generated, quiet>>

\* Mutant: generates the master keys again.
init_Always ==
  /\ master_keys' = generated + 1
  /\ generated' = generated + 1

\* Generates the master keys if they are missing.
init ==
  IF master_keys = 0
  THEN /\ master_keys' = generated + 1
       /\ generated' = generated + 1
  ELSE UNCHANGED <<master_keys, generated>>

ResetInit ==
  /\ step = "init"
  /\ init
  /\ Respond("ok")
  /\ UNCHANGED <<credentials, counter, pin_set, attestation, session, clock, issued, era, quiet,
                 wrapped>>

-----------------------------------------------------------------------------
\* Configuration of the attestation.

\* process_vendor_configure, up to the user presence check.
process_vendor_configure(material, lockdown) ==
  /\ Accept
  /\ EndStateful
  /\ Wait([name |-> "VendorConfigure", material |-> material, lockdown |-> lockdown])
  /\ UNCHANGED <<store, clock, issued, generated, era, wrapped>>

USE_BATCH_ATTESTATION == FALSE

need_certificate == WithCtap1 \/ USE_BATCH_ATTESTATION

\* The debug port is locked at last if that was asked for, which needs the
\* attestation if anything uses it (set_protection may fail).
Lockdown(v, cert, key) ==
  \/ ~v.lockdown /\ Respond("ok")
  \/ v.lockdown /\ Respond("error")
  \/ /\ v.lockdown /\ (need_certificate => NoMaterial \notin {cert, key})
     /\ Respond("locked")

\* Mutant: does not compare the certificate that is there with the new one.
FinishVendorConfigure_AnyCert(v) ==
  /\ \/ /\ v.material = NoMaterial \/ Programmed
        /\ Lockdown(v, certificate, private_key)
     \/ /\ v.material # NoMaterial /\ ~Programmed
        /\ step' = IF certificate = NoMaterial THEN "certificate" ELSE "private_key"
        /\ UNCHANGED <<pending, waited, reply>>
  /\ UNCHANGED <<store, session, clock, issued, generated, era, quiet, wrapped>>

\* process_vendor_configure, after the user presence check: nothing to program,
\* other material than what is there, or the parts that are missing.
FinishVendorConfigure(v) ==
  LET current == {certificate, private_key} \ {NoMaterial}
  IN  /\ \/ /\ v.material = NoMaterial \/ Programmed
            /\ Lockdown(v, certificate, private_key)
         \/ /\ v.material # NoMaterial /\ ~Programmed
            /\ ~(current \subseteq {v.material})
            /\ Respond("error")
         \/ /\ v.material # NoMaterial /\ ~Programmed
            /\ current \subseteq {v.material}
            /\ step' = IF certificate = NoMaterial THEN "certificate" ELSE "private_key"
            /\ UNCHANGED <<pending, waited, reply>>
      /\ UNCHANGED <<store, session, clock, issued, generated, era, quiet, wrapped>>

\* The setters refuse to overwrite what is there.
set_attestation_certificate ==
  /\ step = "certificate"
  /\ IF certificate # NoMaterial
     THEN Respond("error") /\ UNCHANGED certificate
     ELSE /\ certificate' = pending.material
          /\ \/ /\ private_key = NoMaterial
                /\ step' = "private_key"
                /\ UNCHANGED <<pending, waited, reply>>
             \/ private_key # NoMaterial /\ Lockdown(pending, certificate', private_key)
  /\ UNCHANGED <<credentials, counter, master_keys, pin_set, private_key, session, clock, issued,
                 generated, era, quiet, wrapped>>

set_attestation_private_key ==
  /\ step = "private_key"
  /\ IF private_key # NoMaterial
     THEN Respond("error") /\ UNCHANGED private_key
     ELSE /\ private_key' = pending.material
          /\ Lockdown(pending, certificate, private_key')
  /\ UNCHANGED <<credentials, counter, master_keys, pin_set, certificate, session, clock, issued,
                 generated, era, quiet, wrapped>>

-----------------------------------------------------------------------------
\* U2F.  These commands leave the stateful command alone.

\* The response needs the attestation certificate and key: it fails without.
process_register(rp_id) ==
  /\ WithCtap1 /\ step = "idle"
  /\ MayIssue
  /\ \/ master_keys # 0 /\ Programmed /\ Issue(rp_id, FALSE, 0)
     \/ Respond("error") /\ UNCHANGED issued
  /\ UNCHANGED <<store, session, clock, generated, era, quiet, wrapped>>

\* What a key handle signs: without user verification, and it is always listed.
U2fInput(count) == [counter |-> count, has_uv |-> FALSE, listed |-> TRUE]

\* Mutant: signs the counter without incrementing it.
process_authenticate_SameCounter(rp_id, id, check_only) ==
  /\ WithCtap1 /\ step = "idle"
  /\ master_keys # 0 /\ ~check_only
  /\ \E c \in decrypt_credential_source(id, rp_id) : Sign(c, U2fInput(counter), {})
  /\ UNCHANGED <<store, session, clock, generated, era, quiet, wrapped>>

\* An error: the key handle does not open, it was only to be checked, or the
\* update of the counter fails.
process_authenticate(rp_id, id, check_only) ==
  /\ WithCtap1 /\ step = "idle"
  /\ \/ Respond("error") /\ UNCHANGED <<counter, issued, wrapped>>
     \/ /\ master_keys # 0 /\ ~check_only
        /\ increment_global_signature_counter
        /\ \E c \in decrypt_credential_source(id, rp_id) : Sign(c, U2fInput(counter'), {})
  /\ UNCHANGED <<credentials, master_keys, pin_set, attestation, session, clock, generated, era,
                 quiet>>

-----------------------------------------------------------------------------
\* The user, time and power.

\* The button is touched: the command goes on.
Touch ==
  /\ step = "presence"
  /\ \/ pending.name = "MakeCredential" /\ FinishMakeCredential(pending.params)
     \/ /\ pending.name = "GetAssertion"
        /\ FinishGetAssertion(pending, waited)
        /\ UNCHANGED quiet
     \/ pending.name = "VendorConfigure" /\ FinishVendorConfigure(pending)
     \/ /\ pending.name \in {"Probe", "Selection"}
        /\ Respond(IF pending.name = "Selection" THEN "ok" ELSE "error")
        /\ UNCHANGED <<store, session, clock, issued, generated, era, quiet, wrapped>>
     \/ /\ pending.name = "Reset"
        /\ step' = "clear"
        /\ UNCHANGED <<store, session, clock, pending, waited, reply, issued, generated,
                       era, quiet, wrapped>>

\* The wait times out, or the host cancels it.
NoTouch ==
  /\ step = "presence"
  /\ Respond("error")
  /\ UNCHANGED <<store, session, clock, issued, generated, era, quiet, wrapped>>

\* Time passes.
Tick ==
  /\ step = "idle" \/ (step = "presence" /\ waited < TOUCH_TIMEOUT)
  /\ permission' = Max({permission - 1, 0})
  /\ uptime' = Min({uptime + 1, RESET_TIMEOUT})
  /\ waited' = IF step = "presence" THEN waited + 1 ELSE 0
  /\ UNCHANGED <<store, session, step, pending, reply, issued, generated, era, quiet, wrapped>>

\* An update of the store fails during a reset or a configuration.
UpdateFails ==
  /\ step \in {"clear", "init", "certificate", "private_key"}
  /\ Respond("error")
  /\ UNCHANGED <<store, session, clock, issued, generated, era, quiet, wrapped>>

\* The power is lost at any time; CtapState::new runs again.
PowerLoss ==
  /\ init
  /\ stateful_command_type' = "Reset"
  /\ next_credentials' = {}
  /\ assertion_input' = NoInput
  /\ permission' = RESET_TIMEOUT
  /\ step' = "idle" /\ pending' = NoCommand /\ waited' = 0
  /\ reply' = NoReply
  /\ uptime' = 0
  /\ quiet' = TRUE
  /\ UNCHANGED <<credentials, counter, pin_set, attestation, issued, era, wrapped>>

Init ==
  /\ credentials = [k \in Keys |-> NoCredential]
  /\ counter = INITIAL_SIGNATURE_COUNTER
  /\ master_keys = 1
  /\ pin_set = FALSE
  /\ certificate = NoMaterial /\ private_key = NoMaterial
  /\ stateful_command_type = "Reset"
  /\ next_credentials = {}
  /\ assertion_input = NoInput
  /\ permission = RESET_TIMEOUT
  /\ step = "idle" /\ pending = NoCommand /\ waited = 0
  /\ reply = NoReply
  /\ issued = <<>>
  /\ generated = 1
  /\ era = 0
  /\ uptime = 0
  /\ quiet = TRUE
  /\ wrapped = FALSE

Request ==
  \/ OtherCommand
  \/ process_get_info
  \/ process_selection
  \/ \E params \in Creations, excluded \in Lists, pin_auth \in PinAuths :
       process_make_credential(params, excluded, pin_auth)
  \/ \E rp_id \in RpIds, with_list \in BOOLEAN, listed \in Lists, up \in BOOLEAN,
       pin_auth \in PinAuths :
       /\ ~with_list => listed = {}
       /\ process_get_assertion(rp_id, with_list, listed, up, pin_auth)
  \/ process_get_next_assertion
  \/ process_reset
  \/ \E material \in Materials \cup {NoMaterial}, lockdown \in BOOLEAN :
       Materials # {} /\ process_vendor_configure(material, lockdown)
  \/ \E rp_id \in RpIds : process_register(rp_id)
  \/ \E rp_id \in RpIds, id \in DOMAIN issued, check_only \in BOOLEAN :
       process_authenticate(rp_id, id, check_only)

Next ==
  \/ Request
  \/ Touch \/ NoTouch \/ Tick
  \/ ResetClear \/ ResetInit \/ UpdateFails
  \/ set_attestation_certificate \/ set_attestation_private_key
  \/ PowerLoss

Spec == Init /\ [][Next]_vars

-----------------------------------------------------------------------------
\* Properties.

\* A relying party has at most one resident credential of a user, whatever
\* updates and interruptions come between: store_credential never takes its
\* internal error.
OneCredentialPerUser ==
  \A j, k \in Keys :
    /\ credentials[j] # NoCredential /\ credentials[k] # NoCredential
    /\ credentials[j].rp_id = credentials[k].rp_id
    /\ credentials[j].user = credentials[k].user
    => j = k

\* GetAssertion and GetNextAssertion answer with the credential that was created
\* last, of those that are left: creation orders, which are computed from the
\* credentials in the store, are those of time.
NewestFirst == reply.kind = "assertion" => \A id \in reply.rest : id < reply.id

\* Only a credential that exists signs: a resident one that is in the store and
\* has not been replaced, or a key handle made since the last reset; and only for
\* its relying party.  GetNextAssertion signs with copies.
AssertionsLive ==
  reply.kind = "assertion" =>
    /\ issued[reply.id].era = era
    /\ issued[reply.id].rp_id = reply.rp_id
    /\ issued[reply.id].resident => \E c \in Stored : c.id = reply.id

\* The counters that a credential signs increase, over power losses and
\* interleaved CTAP1 and CTAP2 commands, until the counter wraps.
CounterIncreases ==
  reply.kind = "assertion" /\ ~wrapped => reply.counter > reply.previous

\* A credential that is protected signs with user verification only, or, if it
\* is optional for listed credentials, when it is listed.
ProtectedNeedsUv ==
  reply.kind = "assertion" =>
    \A c \in Stored : c.id = reply.id =>
      /\ c.policy = "Required" => reply.uv
      /\ c.policy = "OptionalWithList" => reply.uv \/ reply.listed

\* Every key handle handed out since the last reset opens, whatever power losses
\* and failed resets there were.
HandlesOpen ==
  \A id \in DOMAIN issued :
    IsHandle(id) /\ issued[id].era = era => issued[id].master_keys = master_keys

\* The certificate and the private key of the attestation are of one material
\* once both are there, and stay for ever: neither an update that fails or is
\* interrupted after the first of them, another configuration with other
\* material, nor a reset separates them.  The setters are never asked to replace
\* a part that is there: the comments of storage.rs say that they overwrite it,
\* the code refuses, and no command can tell.  And the device is not locked
\* without the attestation if anything needs it.
AttestationPaired ==
  [][/\ Programmed' => certificate' = private_key'
     /\ Programmed => UNCHANGED attestation
     /\ step = "certificate" => certificate = NoMaterial
     /\ step = "private_key" => private_key = NoMaterial
     /\ reply'.kind = "locked" /\ need_certificate => Programmed']_vars

\* "Resets are only possible in the first 10 seconds after booting", and only
\* before any other CTAP2 command but GetInfo and Selection: the permission that
\* GetAssertion grants is not one to reset.
ResetOnlyAfterBoot ==
  [][step = "idle" /\ step' = "presence" /\ pending'.name = "Reset" =>
       quiet /\ uptime < RESET_TIMEOUT]_vars

=============================================================================
