------------------------ MODULE AuthenticatorProofs -------------------------
(***************************************************************************)
(* Proofs about the authenticator.                                         *)
(*                                                                         *)
(* The properties are about replies.  What makes a reply right is what the *)
(* device remembers when it gives it: the credentials in the store, those  *)
(* that GetNextAssertion still has, and those of the command that waits    *)
(* for the user.  AuthInv says what each of them may rely on.              *)
(***************************************************************************)
EXTENDS Authenticator, NatLemmas, SequenceTheorems

Policies == {"Optional", "OptionalWithList", "Required"}

ResidentCredentials ==
  [id : Nat, rp_id : RpIds, user : Users, policy : Policies, creation_order : Nat]

IssuedCredentials ==
  [rp_id : RpIds, resident : BOOLEAN, master_keys : Nat, era : Nat, last : Nat]

Steps == {"idle", "presence", "clear", "init", "certificate", "private_key"}

TypeInv ==
  /\ credentials \in [Keys -> ResidentCredentials \cup {NoCredential}]
  /\ counter \in 0 .. CounterModulus - 1
  /\ generated \in Nat /\ master_keys \in 0 .. generated
  /\ {certificate, private_key} \subseteq Materials \cup {NoMaterial}
  /\ issued \in Seq(IssuedCredentials)
  /\ era \in Nat
  /\ permission \in Nat
  /\ waited \in 0 .. TOUCH_TIMEOUT
  /\ uptime \in 0 .. RESET_TIMEOUT
  /\ pin_set \in BOOLEAN /\ quiet \in BOOLEAN /\ wrapped \in BOOLEAN
  /\ step \in Steps

(* A resident credential was issued since the last reset.  Identifiers are *)
(* unique, and creation orders are those of the identifiers, that is, of   *)
(* time.                                                                   *)
StoredInv ==
  \A c \in Stored :
    /\ c.id \in DOMAIN issued
    /\ issued[c.id].resident
    /\ issued[c.id].era = era
    /\ issued[c.id].rp_id = c.rp_id
    /\ c.creation_order <= c.id
    /\ \A d \in Stored : /\ c.id = d.id => c = d
                         /\ c.id < d.id => c.creation_order < d.creation_order

(* The key handles that the master keys of now open are those handed out   *)
(* since the last reset.                                                   *)
HandleInv ==
  \A id \in DOMAIN issued : IsHandle(id) =>
    /\ issued[id].master_keys \in 1 .. generated
    /\ issued[id].era = era <=> issued[id].master_keys = master_keys

(* No credential has signed more than the counter of now. *)
CounterInv ==
  \A id \in DOMAIN issued :
    /\ issued[id].era <= era
    /\ issued[id].era = era /\ ~wrapped => issued[id].last <= counter

(* What the policy of a credential asks of a request. *)
Allowed(c, input) ==
  /\ c.policy = "Required" => input.has_uv
  /\ c.policy = "OptionalWithList" => input.has_uv \/ input.listed

(* What the assertions of a list of credentials have in common. *)
AssertionInputs == [counter : Nat, has_uv : BOOLEAN, listed : {FALSE}]

(* The credentials that GetNextAssertion uses are copies of those in the   *)
(* store, and have not yet signed the counter of the assertion.            *)
SessionInv ==
  /\ next_credentials \subseteq Stored
  /\ stateful_command_type # "GetAssertion" => next_credentials = {}
  /\ next_credentials # {} =>
       /\ assertion_input \in AssertionInputs
       /\ \A c \in next_credentials :
            /\ Allowed(c, assertion_input)
            /\ ~wrapped => issued[c.id].last < assertion_input.counter
       /\ ~wrapped => assertion_input.counter <= counter

(* A key handle that opens. *)
OpenHandle(c) ==
  /\ c.id \in DOMAIN issued
  /\ IsHandle(c.id)
  /\ issued[c.id].rp_id = c.rp_id
  /\ issued[c.id].master_keys = master_keys

Live(c) == c \in Stored \/ OpenHandle(c)

(* The credentials of a GetAssertion command. *)
RequestInv(g) ==
  /\ g.has_uv \in BOOLEAN /\ g.listed \in BOOLEAN
  /\ \A c \in g.creds : Live(c) /\ Allowed(c, g)
  /\ ~g.listed => g.creds \subseteq Stored
  /\ g.listed => \A c, d \in g.creds : c = d

(* What a command relies on when the user touches the button, although     *)
(* time has passed.                                                        *)
PendingInv ==
  /\ step = "presence" /\ pending.name = "MakeCredential" =>
       pending.params \in Creations /\ next_credentials = {}
  /\ step = "presence" /\ pending.name = "GetAssertion" => RequestInv(pending)
  /\ step = "presence" /\ pending.name = "Reset" => next_credentials = {}
  /\ step = "presence" /\ pending.name = "VendorConfigure" =>
       pending.material \in Materials \cup {NoMaterial}
  /\ step \in {"clear", "init"} => next_credentials = {}

(* The parts of the attestation that are there are of one material, the    *)
(* one that is being programmed.                                           *)
AttestationInv ==
  /\ Programmed => certificate = private_key
  /\ step = "certificate" => /\ certificate = NoMaterial
                             /\ pending.material \in Materials
                             /\ private_key \in {NoMaterial, pending.material}
  /\ step = "private_key" => /\ private_key = NoMaterial
                             /\ pending.material \in Materials
                             /\ certificate = pending.material
  /\ reply.kind = "locked" /\ need_certificate => Programmed

(* While a reset is possible no command was accepted, and the permission   *)
(* ends RESET_TIMEOUT after the boot.                                      *)
BootInv ==
  stateful_command_type = "Reset" =>
    quiet /\ (permission > 0 => permission + uptime <= RESET_TIMEOUT)

ReplyInv ==
  /\ step # "idle" => reply.kind = "none"
  /\ reply.kind = "assertion" => reply.id \in DOMAIN issued
  /\ NewestFirst
  /\ AssertionsLive
  /\ CounterIncreases
  /\ ProtectedNeedsUv

AuthInv ==
  /\ TypeInv
  /\ OneCredentialPerUser
  /\ StoredInv
  /\ HandleInv
  /\ CounterInv
  /\ SessionInv
  /\ PendingInv
  /\ AttestationInv
  /\ BootInv
  /\ ReplyInv

-----------------------------------------------------------------------------
(* The initial states satisfy the inductive invariant. *)
LEMMA AuthInit == Init => AuthInv
<1> SUFFICES ASSUME Init PROVE AuthInv
  OBVIOUS
<1> USE AuthenticatorAssumption DEF Init
<1>1. TypeInv
  <2>1. pin_set \in BOOLEAN /\ quiet \in BOOLEAN /\ wrapped \in BOOLEAN
    BY Zenon
  <2>2. credentials \in [Keys -> ResidentCredentials \cup {NoCredential}]
    OBVIOUS
  <2> QED
    BY <2>1, <2>2 DEF TypeInv, Steps
<1>2. Stored = {}
  BY DEF Stored
<1>3. OneCredentialPerUser
  BY DEF OneCredentialPerUser
<1>4. DOMAIN issued = {}
  OBVIOUS
<1>5. StoredInv /\ HandleInv /\ CounterInv /\ SessionInv
  BY <1>2, <1>4 DEF StoredInv, HandleInv, CounterInv, SessionInv
<1>6. PendingInv /\ AttestationInv /\ BootInv
  BY DEF PendingInv, AttestationInv, Programmed, NoReply, BootInv
<1>7. ReplyInv
  BY DEF ReplyInv, NoReply, NewestFirst, AssertionsLive, CounterIncreases, ProtectedNeedsUv
<1> QED
  BY <1>1, <1>3, <1>5, <1>6, <1>7 DEF AuthInv

(* What is said of the credentials alone survives a step that leaves them, *)
(* the counter and the master keys alone.                                  *)
Steady ==
  UNCHANGED <<credentials, counter, master_keys, attestation, issued, generated, era, wrapped>>

LEMMA SteadyStep ==
  ASSUME AuthInv, Steady
  PROVE  /\ Stored' = Stored
         /\ OneCredentialPerUser' /\ StoredInv' /\ HandleInv' /\ CounterInv'
         /\ Programmed' <=> Programmed
         /\ \A c : OpenHandle(c)' <=> OpenHandle(c)
<1>1. Stored' = Stored
  BY DEF Steady, Stored
<1>2. OneCredentialPerUser' /\ HandleInv' /\ CounterInv'
  BY DEF AuthInv, Steady, OneCredentialPerUser, HandleInv, CounterInv, IsHandle
<1>3. StoredInv'
  BY <1>1 DEF AuthInv, Steady, StoredInv
<1> QED
  BY <1>1, <1>2, <1>3 DEF Steady, attestation, Programmed, OpenHandle, IsHandle

(* The stateful command goes on or ends. *)
LEMMA SessionStep ==
  ASSUME AuthInv, Steady, UNCHANGED <<session, quiet, clock>> \/ (EndStateful /\ UNCHANGED clock)
  PROVE  SessionInv' /\ BootInv' /\ (next_credentials = {} => next_credentials' = {})
<1>1. Stored' = Stored
  BY SteadyStep
<1>2. CASE UNCHANGED <<session, quiet, clock>>
  BY <1>1, <1>2 DEF AuthInv, Steady, session, clock, SessionInv, BootInv, Allowed
<1>3. CASE EndStateful /\ UNCHANGED clock
  BY <1>1, <1>3 DEF EndStateful, SessionInv, BootInv
<1> QED
  BY <1>2, <1>3

(* A command is answered, without an assertion, and changes nothing that   *)
(* the invariant is about.                                                 *)
LEMMA RespondStep ==
  ASSUME AuthInv, Steady, pin_set' \in BOOLEAN, quiet' \in BOOLEAN,
         UNCHANGED <<session, quiet, clock>> \/ (EndStateful /\ UNCHANGED clock),
         NEW kind \in {"ok", "error", "locked"}, kind = "locked" /\ need_certificate => Programmed,
         Respond(kind)
  PROVE  AuthInv'
<1>1. /\ Stored' = Stored
      /\ OneCredentialPerUser' /\ StoredInv' /\ HandleInv' /\ CounterInv'
      /\ Programmed' <=> Programmed
  BY SteadyStep
<1>2. SessionInv' /\ BootInv'
  BY SessionStep
<1>3. TypeInv'
  BY AuthenticatorAssumption
  DEF AuthInv, TypeInv, Steady, attestation, clock, Respond, Steps
<1>4. PendingInv' /\ AttestationInv'
  BY <1>1 DEF AuthInv, AttestationInv, PendingInv, Respond, Steady, attestation
<1>5. ReplyInv'
  BY DEF Respond, ReplyInv, NewestFirst, AssertionsLive, CounterIncreases, ProtectedNeedsUv
<1> QED
  BY <1>1, <1>2, <1>3, <1>4, <1>5 DEF AuthInv

(* A command waits for the user. *)
LEMMA WaitStep ==
  ASSUME AuthInv, Steady, pin_set' \in BOOLEAN, quiet' \in BOOLEAN,
         UNCHANGED <<session, quiet, clock>> \/ (EndStateful /\ UNCHANGED clock),
         NEW command, Wait(command),
         command.name = "MakeCredential" => command.params \in Creations /\ next_credentials' = {},
         command.name = "GetAssertion" => RequestInv(command),
         command.name = "Reset" => next_credentials' = {},
         command.name = "VendorConfigure" => command.material \in Materials \cup {NoMaterial}
  PROVE  AuthInv'
<1>1. /\ Stored' = Stored
      /\ OneCredentialPerUser' /\ StoredInv' /\ HandleInv' /\ CounterInv'
      /\ Programmed' <=> Programmed
      /\ \A c : OpenHandle(c)' <=> OpenHandle(c)
  BY SteadyStep
<1>2. SessionInv' /\ BootInv'
  BY SessionStep
<1>3. TypeInv'
  BY AuthenticatorAssumption
  DEF AuthInv, TypeInv, Steady, attestation, clock, Wait, Steps
<1>4. \A c : Live(c)' <=> Live(c)
  BY <1>1 DEF Live
<1>5. command.name = "GetAssertion" => RequestInv(pending)'
  BY <1>1, <1>4 DEF Wait, RequestInv, Allowed
<1>6. PendingInv'
  BY <1>5 DEF PendingInv, Wait
<1>7. AttestationInv'
  BY <1>1 DEF AuthInv, AttestationInv, Wait, NoReply, Steady, attestation
<1>8. ReplyInv'
  BY DEF Wait, NoReply, ReplyInv, NewestFirst, AssertionsLive, CounterIncreases, ProtectedNeedsUv
<1> QED
  BY <1>1, <1>2, <1>3, <1>6, <1>7, <1>8 DEF AuthInv

-----------------------------------------------------------------------------
(* A credential that may sign was issued since the last reset, to its      *)
(* relying party, and has not signed more than the counter.                *)
LEMMA LiveIssued ==
  ASSUME AuthInv, NEW c, Live(c)
  PROVE  /\ c.id \in DOMAIN issued
         /\ issued[c.id].era = era
         /\ issued[c.id].rp_id = c.rp_id
         /\ issued[c.id].last \in Nat
         /\ ~wrapped => issued[c.id].last <= counter
         /\ issued[c.id].resident => c \in Stored
<1>1. /\ c.id \in DOMAIN issued
      /\ issued[c.id].era = era
      /\ issued[c.id].rp_id = c.rp_id
      /\ issued[c.id].resident => c \in Stored
  BY DEF AuthInv, Live, StoredInv, OpenHandle, HandleInv, IsHandle
<1>2. issued[c.id] \in IssuedCredentials
  BY <1>1 DEF AuthInv, TypeInv
<1> QED
  BY <1>1, <1>2 DEF AuthInv, CounterInv, IssuedCredentials

(* The credentials of a list that may be used may sign. *)
LEMMA UsableLive ==
  ASSUME AuthInv, NEW listed \in Lists, NEW rp_id, NEW check_cred_protect \in BOOLEAN,
         NEW c \in Usable(listed, rp_id, check_cred_protect)
  PROVE  Live(c) /\ ~(check_cred_protect /\ c.policy = "Required")
<1>1. PICK id \in listed :
        \/ c \in find_credential(rp_id, id, check_cred_protect)
        \/ master_keys # 0 /\ c \in decrypt_credential_source(id, rp_id)
  BY DEF Usable
<1>2. id \in DOMAIN issued
  BY DEF Lists
<1>3. CASE c \in find_credential(rp_id, id, check_cred_protect)
  BY <1>3 DEF find_credential, Live
<1>4. CASE c \in decrypt_credential_source(id, rp_id)
  BY <1>2, <1>4 DEF decrypt_credential_source, Credential, Live, OpenHandle
<1> QED
  BY <1>1, <1>3, <1>4

(* An increment of the counter is seen, unless the counter wraps. *)
LEMMA IncrementStep ==
  ASSUME AuthInv, increment_global_signature_counter
  PROVE  /\ counter' \in 0 .. CounterModulus - 1
         /\ wrapped' \in BOOLEAN
         /\ ~wrapped' => ~wrapped /\ counter < counter'
<1>1. PICK increment \in Increments :
        /\ counter' = (counter + increment) % CounterModulus
        /\ wrapped' = (wrapped \/ counter + increment >= CounterModulus)
  BY DEF increment_global_signature_counter
<1>2. /\ counter \in Nat /\ increment \in Nat /\ increment > 0
      /\ CounterModulus \in Nat /\ CounterModulus > 0
      /\ counter + increment \in Nat
  <2>1. counter \in 0 .. CounterModulus - 1
    BY DEF AuthInv, TypeInv
  <2>2. increment \in Nat \ {0} /\ CounterModulus \in Nat
    BY AuthenticatorAssumption
  <2> QED
    BY <2>1, <2>2
<1>3. /\ counter' \in 0 .. CounterModulus - 1
      /\ counter + increment < CounterModulus => counter' = counter + increment
  BY <1>1, <1>2, Remainder
<1>4. wrapped' \in BOOLEAN /\ (~wrapped' => ~wrapped /\ ~(counter + increment >= CounterModulus))
  BY <1>1, Zenon DEF AuthInv, TypeInv
<1> QED
  BY <1>2, <1>3, <1>4

(* A credential signs. *)
LEMMA SignStep ==
  ASSUME AuthInv, NEW c, Live(c), NEW input, input.counter \in Nat, NEW rest,
         Allowed(c, input),
         \A r \in rest : r.id < c.id,
         Sign(c, input, rest),
         UNCHANGED <<credentials, master_keys, attestation, generated, era>>,
         wrapped' \in BOOLEAN,
         counter' \in Nat,
         ~wrapped' => /\ ~wrapped
                      /\ counter <= counter'
                      /\ issued[c.id].last < input.counter
                      /\ input.counter <= counter'
  PROVE  /\ Stored' = Stored
         /\ OneCredentialPerUser' /\ StoredInv' /\ HandleInv' /\ CounterInv'
         /\ PendingInv' /\ AttestationInv' /\ ReplyInv'
         /\ issued' \in Seq(IssuedCredentials)
         /\ \A id \in DOMAIN issued : id # c.id => issued'[id] = issued[id]
<1>1. Stored' = Stored
  BY DEF Stored
<1>2. /\ c.id \in DOMAIN issued
      /\ issued[c.id].era = era
      /\ issued[c.id].rp_id = c.rp_id
      /\ issued[c.id].resident => c \in Stored
  BY LiveIssued
<1>3. issued' = [issued EXCEPT ![c.id].last = input.counter]
  BY DEF Sign
<1>4. /\ issued' \in Seq(IssuedCredentials)
      /\ DOMAIN issued' = DOMAIN issued
      /\ \A id \in DOMAIN issued :
           /\ issued'[id] = IF id = c.id THEN [issued[id] EXCEPT !.last = input.counter]
                            ELSE issued[id]
           /\ issued[id] \in IssuedCredentials
  <2>1. issued \in Seq(IssuedCredentials)
    BY DEF AuthInv, TypeInv
  <2>2. [issued[c.id] EXCEPT !.last = input.counter] \in IssuedCredentials
    <3>1. issued[c.id] \in IssuedCredentials
      BY <1>2, <2>1
    <3> QED
      BY <3>1 DEF IssuedCredentials
  <2> QED
    BY <1>2, <1>3, <2>1, <2>2
<1>5. \A id \in DOMAIN issued :
        /\ issued'[id].rp_id = issued[id].rp_id
        /\ issued'[id].resident = issued[id].resident
        /\ issued'[id].master_keys = issued[id].master_keys
        /\ issued'[id].era = issued[id].era
        /\ issued'[id].last = IF id = c.id THEN input.counter ELSE issued[id].last
  BY <1>4 DEF IssuedCredentials
<1>6. OneCredentialPerUser'
  BY DEF AuthInv, OneCredentialPerUser
<1>7. StoredInv'
  BY <1>1, <1>4, <1>5 DEF AuthInv, StoredInv
<1>8. HandleInv'
  BY <1>4, <1>5 DEF AuthInv, HandleInv, IsHandle
<1>9. CounterInv'
  <2> SUFFICES ASSUME NEW id \in DOMAIN issued
               PROVE  /\ issued'[id].era <= era
                      /\ issued'[id].era = era /\ ~wrapped' => issued'[id].last <= counter'
    BY <1>4 DEF CounterInv
  <2>1. counter \in Nat /\ issued[id].last \in Nat /\ issued[id].era \in Nat /\ era \in Nat
    <3>1. issued[id] \in IssuedCredentials
      BY <1>4
    <3> QED
      BY <3>1, AuthenticatorAssumption DEF AuthInv, TypeInv, IssuedCredentials
  <2> QED
    BY <1>5, <2>1 DEF AuthInv, CounterInv
<1>10. /\ reply' = Assertion(c, input.counter, input.has_uv, input.listed, rest)
       /\ step' = "idle"
  BY DEF Sign
<1>11. PendingInv' /\ AttestationInv'
  BY <1>10 DEF AuthInv, PendingInv, AttestationInv, Assertion, attestation, Programmed
<1>12. /\ reply'.kind = "assertion" /\ reply'.id = c.id /\ reply'.rp_id = c.rp_id
       /\ reply'.counter = input.counter /\ reply'.uv = input.has_uv
       /\ reply'.listed = input.listed /\ reply'.previous = issued[c.id].last
       /\ reply'.rest = {r.id : r \in rest}
  BY <1>10 DEF Assertion
<1>13. NewestFirst' /\ CounterIncreases'
  <2>1. issued[c.id].last \in Nat
    BY LiveIssued
  <2> QED
    BY <1>12, <2>1 DEF NewestFirst, CounterIncreases
<1>14. AssertionsLive'
  BY <1>1, <1>2, <1>5, <1>12 DEF AssertionsLive
<1>15. ProtectedNeedsUv'
  <2> SUFFICES ASSUME NEW d \in Stored, d.id = c.id
               PROVE  /\ d.policy = "Required" => reply'.uv
                      /\ d.policy = "OptionalWithList" => reply'.uv \/ reply'.listed
    BY <1>1, <1>12 DEF ProtectedNeedsUv
  <2>1. d = c
    BY <1>2 DEF AuthInv, StoredInv
  <2> QED
    BY <1>12, <2>1 DEF Allowed
<1>16. ReplyInv'
  BY <1>2, <1>4, <1>10, <1>12, <1>13, <1>14, <1>15 DEF ReplyInv
<1> QED
  BY <1>1, <1>4, <1>6, <1>7, <1>8, <1>9, <1>11, <1>16

(* The counter is incremented, but nothing is signed. *)
LEMMA UnsignedStep ==
  ASSUME AuthInv, Respond("error"),
         UNCHANGED <<credentials, master_keys, attestation, issued, generated, era>>,
         counter' \in Nat,
         ~wrapped' => ~wrapped /\ counter <= counter'
  PROVE  /\ Stored' = Stored
         /\ OneCredentialPerUser' /\ StoredInv' /\ HandleInv' /\ CounterInv'
         /\ PendingInv' /\ AttestationInv' /\ ReplyInv'
<1>1. Stored' = Stored
  BY DEF Stored
<1>2. OneCredentialPerUser' /\ StoredInv' /\ HandleInv'
  BY <1>1 DEF AuthInv, OneCredentialPerUser, StoredInv, HandleInv, IsHandle
<1>3. CounterInv'
  <2> SUFFICES ASSUME NEW id \in DOMAIN issued
               PROVE  /\ issued[id].era <= era
                      /\ issued[id].era = era /\ ~wrapped' => issued[id].last <= counter'
    BY DEF CounterInv
  <2>1. issued[id] \in IssuedCredentials
    BY DEF AuthInv, TypeInv
  <2>2. counter \in Nat /\ issued[id].last \in Nat
    BY <2>1, AuthenticatorAssumption DEF AuthInv, TypeInv, IssuedCredentials
  <2> QED
    BY <2>2 DEF AuthInv, CounterInv
<1>4. PendingInv' /\ AttestationInv'
  BY DEF AuthInv, PendingInv, AttestationInv, Respond, attestation, Programmed
<1>5. ReplyInv'
  BY DEF Respond, ReplyInv, NewestFirst, AssertionsLive, CounterIncreases, ProtectedNeedsUv
<1> QED
  BY <1>1, <1>2, <1>3, <1>4, <1>5

(* The newest of the credentials in the store is the one issued last. *)
LEMMA NewestIssuedLast ==
  ASSUME AuthInv, NEW creds, creds \subseteq Stored, NEW c \in Newest(creds),
         NEW r \in creds \ {c}
  PROVE  r.id < c.id
<1>1. c \in Stored /\ r \in Stored /\ r.creation_order <= c.creation_order
  BY DEF Newest
<1>2. \A d \in Stored : d.id \in Nat /\ d.creation_order \in Nat
  BY DEF Stored, AuthInv, TypeInv, ResidentCredentials
<1>3. r.id # c.id
  BY <1>1 DEF AuthInv, StoredInv
<1>4. c.id < r.id => c.creation_order < r.creation_order
  BY <1>1 DEF AuthInv, StoredInv
<1> QED
  BY <1>1, <1>2, <1>3, <1>4

(* GetAssertion, once the user is present. *)
LEMMA FinishGetAssertionStep ==
  ASSUME AuthInv, NEW g, RequestInv(g), NEW elapsed \in 0 .. TOUCH_TIMEOUT,
         FinishGetAssertion(g, elapsed), quiet' \in BOOLEAN
  PROVE  AuthInv'
<1>1. CASE /\ Respond("error")
           /\ EndStateful
           /\ UNCHANGED <<counter, permission, issued, wrapped>>
  <2>1. Steady /\ UNCHANGED clock /\ pin_set' \in BOOLEAN
    BY <1>1 DEF FinishGetAssertion, Steady, clock, AuthInv, TypeInv
  <2> QED
    BY <1>1, <2>1, RespondStep
<1>2. CASE ~(/\ Respond("error")
             /\ EndStateful
             /\ UNCHANGED <<counter, permission, issued, wrapped>>)
  <2> DEFINE input == [counter |-> counter', has_uv |-> g.has_uv, listed |-> g.listed]
  <2>1. PICK c \in Newest(g.creds) :
          LET rest == g.creds \ {c}
          IN  /\ IF rest = {} THEN EndStateful /\ UNCHANGED permission
                 ELSE /\ stateful_command_type' = "GetAssertion"
                      /\ next_credentials' = rest
                      /\ assertion_input' = input
                      /\ permission' = STATEFUL_COMMAND_TIMEOUT - elapsed
              /\ assertion_response(c, input, rest)
    BY <1>2 DEF FinishGetAssertion
  <2> DEFINE rest == g.creds \ {c}
  <2>2. /\ increment_global_signature_counter
        /\ UNCHANGED <<credentials, master_keys, pin_set, attestation, uptime, generated, era>>
    BY <1>2 DEF FinishGetAssertion
  <2>3. /\ counter' \in 0 .. CounterModulus - 1
        /\ wrapped' \in BOOLEAN
        /\ ~wrapped' => ~wrapped /\ counter < counter'
    BY <2>2, IncrementStep
  <2>4. counter \in Nat /\ counter' \in Nat
    BY <2>3, AuthenticatorAssumption DEF AuthInv, TypeInv
  <2>5. c \in g.creds /\ Live(c) /\ Allowed(c, g)
    BY DEF RequestInv, Newest
  <2>6. rest # {} => ~g.listed /\ g.creds \subseteq Stored
    BY <2>5 DEF RequestInv
  <2>7. \A r \in rest : r.id < c.id
    BY <2>6, NewestIssuedLast
  <2>8. /\ Stored' = Stored
        /\ OneCredentialPerUser' /\ StoredInv' /\ HandleInv' /\ CounterInv'
        /\ PendingInv' /\ AttestationInv' /\ ReplyInv'
        /\ issued' \in Seq(IssuedCredentials)
        /\ \A id \in DOMAIN issued : id # c.id => issued'[id] = issued[id]
        /\ step' = "idle" /\ waited' = 0
    <3>1. CASE Sign(c, input, rest)
      <4>1. issued[c.id].last \in Nat /\ (~wrapped => issued[c.id].last <= counter)
        BY <2>5, LiveIssued
      <4>2. /\ Allowed(c, input)
            /\ input.counter = counter'
        BY <2>5 DEF Allowed
      <4>3. ~wrapped' => /\ ~wrapped
                         /\ counter <= counter'
                         /\ issued[c.id].last < input.counter
                         /\ input.counter <= counter'
        BY <2>3, <2>4, <4>1, <4>2
      <4> HIDE DEF input, rest
      <4> QED
        BY <2>2, <2>3, <2>4, <2>5, <2>7, <3>1, <4>2, <4>3, SignStep DEF Sign
    <3>2. CASE Respond("error") /\ UNCHANGED issued
      <4>1. issued' \in Seq(IssuedCredentials)
        BY <3>2 DEF AuthInv, TypeInv
      <4>2. ~wrapped' => ~wrapped /\ counter <= counter'
        BY <2>3, <2>4
      <4> QED
        BY <2>2, <2>4, <3>2, <4>1, <4>2, UnsignedStep DEF Respond
    <3> QED
      BY <2>1, <3>1, <3>2 DEF assertion_response
  <2>9. TypeInv'
    <3>1. permission' \in Nat /\ pin_set' \in BOOLEAN
      BY <2>1, <2>2, AuthenticatorAssumption DEF AuthInv, TypeInv
    <3> QED
      BY <2>2, <2>3, <2>8, <3>1, AuthenticatorAssumption
      DEF AuthInv, TypeInv, Steps, attestation
  <2>10. BootInv'
    BY <2>1 DEF BootInv, EndStateful
  <2>11. SessionInv'
    <3>1. CASE rest = {}
      BY <2>1, <3>1 DEF EndStateful, SessionInv
    <3>2. CASE rest # {}
      <4>1. /\ stateful_command_type' = "GetAssertion"
            /\ next_credentials' = rest
            /\ assertion_input' = input
        BY <2>1, <3>2
      <4>2. input \in AssertionInputs
        BY <2>4, <2>6, <3>2 DEF RequestInv, AssertionInputs
      <4>3. ASSUME NEW r \in rest
            PROVE  /\ r \in Stored'
                   /\ Allowed(r, input)
                   /\ ~wrapped' => issued'[r.id].last < input.counter
        <5>1. r \in Stored /\ r \in g.creds /\ Live(r) /\ Allowed(r, g)
          BY <2>6, <4>3 DEF RequestInv
        <5>2. /\ r.id \in DOMAIN issued
              /\ issued[r.id].last \in Nat
              /\ ~wrapped => issued[r.id].last <= counter
          BY <5>1, LiveIssued
        <5>3. r.id # c.id
          BY <5>1, <2>5, <2>6, <4>3 DEF AuthInv, StoredInv
        <5>4. issued'[r.id].last = issued[r.id].last
          BY <2>8, <5>2, <5>3
        <5> QED
          BY <2>3, <2>4, <2>8, <5>1, <5>2, <5>4 DEF Allowed
      <4>4. input.counter <= counter'
        BY <2>4
      <4> HIDE DEF input, rest
      <4> QED
        BY <4>1, <4>2, <4>3, <4>4, Zenon DEF SessionInv, Allowed
    <3> QED
      BY <3>1, <3>2
  <2> QED
    BY <2>8, <2>9, <2>10, <2>11 DEF AuthInv
<1> QED
  BY <1>1, <1>2

LEMMA GetNextAssertionStep == AuthInv /\ process_get_next_assertion => AuthInv'
<1> SUFFICES ASSUME AuthInv, process_get_next_assertion PROVE AuthInv'
  OBVIOUS
<1>1. UNCHANGED <<store, clock, generated, era, wrapped>>
  BY DEF process_get_next_assertion
<1>2. quiet' \in BOOLEAN /\ pin_set' \in BOOLEAN
  BY DEF process_get_next_assertion, store, AuthInv, TypeInv
<1>3. CASE /\ stateful_command_type # "GetAssertion"
           /\ EndStateful
           /\ Respond("error")
           /\ UNCHANGED issued
  BY <1>1, <1>2, <1>3, RespondStep DEF store, Steady
<1>4. CASE /\ Respond("error")
           /\ UNCHANGED <<session, issued, quiet>>
  BY <1>1, <1>2, <1>4, RespondStep DEF store, Steady
<1>5. CASE /\ stateful_command_type = "GetAssertion"
           /\ permission > 0
           /\ \E c \in Newest(next_credentials) :
                /\ next_credentials' = next_credentials \ {c}
                /\ assertion_response(c, assertion_input, next_credentials \ {c})
           /\ UNCHANGED <<stateful_command_type, assertion_input, quiet>>
  <2> PICK c \in Newest(next_credentials) :
         /\ next_credentials' = next_credentials \ {c}
         /\ assertion_response(c, assertion_input, next_credentials \ {c})
    BY <1>5
  <2>1. c \in next_credentials /\ c \in Stored /\ next_credentials \subseteq Stored
    BY DEF Newest, AuthInv, SessionInv
  <2>2. /\ assertion_input \in AssertionInputs
        /\ \A d \in next_credentials :
             /\ Allowed(d, assertion_input)
             /\ ~wrapped => issued[d.id].last < assertion_input.counter
        /\ ~wrapped => assertion_input.counter <= counter
    BY <2>1 DEF AuthInv, SessionInv
  <2>3. \A r \in next_credentials \ {c} : r.id < c.id
    BY <2>1, NewestIssuedLast
  <2>4. counter \in Nat /\ counter' = counter /\ wrapped' = wrapped /\ wrapped \in BOOLEAN
    BY <1>1, AuthenticatorAssumption DEF store, AuthInv, TypeInv
  <2>5. /\ Stored' = Stored
        /\ OneCredentialPerUser' /\ StoredInv' /\ HandleInv' /\ CounterInv'
        /\ PendingInv' /\ AttestationInv' /\ ReplyInv'
        /\ issued' \in Seq(IssuedCredentials)
        /\ \A id \in DOMAIN issued : id # c.id => issued'[id] = issued[id]
        /\ step' = "idle" /\ waited' = 0
    <3>1. CASE Sign(c, assertion_input, next_credentials \ {c})
      <4>1. assertion_input.counter \in Nat
        BY <2>2 DEF AssertionInputs
      <4>2. Live(c)
        BY <2>1 DEF Live
      <4>3. ~wrapped' => /\ ~wrapped
                         /\ counter <= counter'
                         /\ issued[c.id].last < assertion_input.counter
                         /\ assertion_input.counter <= counter'
        BY <2>1, <2>2, <2>4
      <4>4. wrapped' \in BOOLEAN /\ counter' \in Nat
        BY <2>4
      <4>5. UNCHANGED <<credentials, master_keys, attestation, generated, era>>
        BY <1>1 DEF store
      <4>6. Allowed(c, assertion_input)
        BY <2>1, <2>2
      <4> QED
        BY <2>3, <3>1, <4>1, <4>2, <4>3, <4>4, <4>5, <4>6, SignStep DEF Sign
    <3>2. CASE Respond("error") /\ UNCHANGED issued
      <4>1. issued' \in Seq(IssuedCredentials)
        BY <3>2 DEF AuthInv, TypeInv
      <4> QED
        BY <1>1, <2>4, <3>2, <4>1, UnsignedStep DEF Respond, store
    <3> QED
      BY <3>1, <3>2 DEF assertion_response
  <2>6. TypeInv'
    BY <1>1, <1>2, <2>4, <2>5, AuthenticatorAssumption
    DEF AuthInv, TypeInv, Steps, store, attestation, clock
  <2>7. BootInv'
    BY <1>5 DEF BootInv
  <2>8. SessionInv'
    <3>1. ASSUME NEW r \in next_credentials'
          PROVE  /\ r \in Stored'
                 /\ Allowed(r, assertion_input)
                 /\ ~wrapped' => issued'[r.id].last < assertion_input.counter
      <4>1. r \in next_credentials /\ r # c /\ r \in Stored
        BY <2>1
      <4>2. r.id \in DOMAIN issued /\ r.id # c.id
        BY <2>1, <4>1 DEF AuthInv, StoredInv
      <4> QED
        BY <2>2, <2>4, <2>5, <4>1, <4>2
    <3> QED
      BY <1>5, <2>2, <2>4, <3>1, Zenon DEF SessionInv, Allowed
  <2> QED
    BY <2>5, <2>6, <2>7, <2>8 DEF AuthInv
<1> QED
  BY <1>3, <1>4, <1>5 DEF process_get_next_assertion

(* U2F signs with key handles, which GetNextAssertion never does. *)
LEMMA AuthenticateStep ==
  ASSUME AuthInv, NEW rp_id \in RpIds, NEW id \in DOMAIN issued, NEW check_only \in BOOLEAN,
         process_authenticate(rp_id, id, check_only)
  PROVE  AuthInv'
<1>1. /\ UNCHANGED <<credentials, master_keys, pin_set, attestation, session, clock, generated,
                     era, quiet>>
      /\ pin_set' \in BOOLEAN /\ quiet' \in BOOLEAN
  BY DEF process_authenticate, AuthInv, TypeInv
<1>2. CASE Respond("error") /\ UNCHANGED <<counter, issued, wrapped>>
  BY <1>1, <1>2, RespondStep DEF Steady
<1>3. CASE /\ master_keys # 0 /\ ~check_only
           /\ increment_global_signature_counter
           /\ \E c \in decrypt_credential_source(id, rp_id) : Sign(c, U2fInput(counter'), {})
  <2>1. PICK c \in decrypt_credential_source(id, rp_id) : Sign(c, U2fInput(counter'), {})
    BY <1>3
  <2>2. OpenHandle(c) /\ c.id = id /\ c.policy = "Optional" /\ IsHandle(id)
    BY DEF decrypt_credential_source, Credential, OpenHandle
  <2>3. /\ counter' \in 0 .. CounterModulus - 1
        /\ wrapped' \in BOOLEAN
        /\ ~wrapped' => ~wrapped /\ counter < counter'
    BY <1>3, IncrementStep
  <2>4. counter \in Nat /\ counter' \in Nat
    BY <2>3, AuthenticatorAssumption DEF AuthInv, TypeInv
  <2>5. /\ issued[c.id].last \in Nat
        /\ ~wrapped => issued[c.id].last <= counter
    BY <2>2, LiveIssued DEF Live
  <2>6. /\ U2fInput(counter').counter = counter'
        /\ Allowed(c, U2fInput(counter'))
    BY <2>2 DEF U2fInput, Allowed
  <2>7. ~wrapped' => /\ ~wrapped
                     /\ counter <= counter'
                     /\ issued[c.id].last < U2fInput(counter').counter
                     /\ U2fInput(counter').counter <= counter'
    BY <2>3, <2>4, <2>5, <2>6
  <2>8. /\ Stored' = Stored
        /\ OneCredentialPerUser' /\ StoredInv' /\ HandleInv' /\ CounterInv'
        /\ PendingInv' /\ AttestationInv' /\ ReplyInv'
        /\ issued' \in Seq(IssuedCredentials)
        /\ \A i \in DOMAIN issued : i # c.id => issued'[i] = issued[i]
    BY <1>1, <2>1, <2>2, <2>3, <2>4, <2>6, <2>7, SignStep DEF Live
  <2>9. TypeInv' /\ BootInv'
    BY <1>1, <2>1, <2>3, <2>8, AuthenticatorAssumption
    DEF AuthInv, TypeInv, BootInv, Steps, attestation, clock, session, Sign
  <2>10. SessionInv'
    <3>1. next_credentials' = next_credentials /\ assertion_input' = assertion_input
          /\ stateful_command_type' = stateful_command_type
      BY <1>1 DEF session
    <3>2. ASSUME NEW r \in next_credentials
          PROVE  issued'[r.id] = issued[r.id]
      <4>1. r.id \in DOMAIN issued /\ issued[r.id].resident
        BY <3>2 DEF AuthInv, SessionInv, StoredInv
      <4> QED
        BY <2>2, <2>8, <4>1 DEF IsHandle
    <3>3. next_credentials # {} =>
            /\ assertion_input \in AssertionInputs
            /\ ~wrapped' => assertion_input.counter <= counter'
      <4>1. next_credentials # {} =>
              /\ assertion_input \in AssertionInputs
              /\ ~wrapped => assertion_input.counter <= counter
        BY DEF AuthInv, SessionInv
      <4>2. next_credentials # {} => assertion_input.counter \in Nat
        BY <4>1 DEF AssertionInputs
      <4>3. \A n \in Nat : n <= counter /\ counter < counter' => n <= counter'
        BY <2>4
      <4> QED
        BY <2>3, <4>1, <4>2, <4>3, Zenon
    <3> QED
      BY <2>3, <2>8, <3>1, <3>2, <3>3, Zenon DEF AuthInv, SessionInv, Allowed
  <2> QED
    BY <2>8, <2>9, <2>10 DEF AuthInv
<1> QED
  BY <1>2, <1>3 DEF process_authenticate

-----------------------------------------------------------------------------
(* A credential is issued. *)
LEMMA IssueStep ==
  ASSUME AuthInv, NEW rp_id \in RpIds, NEW resident \in BOOLEAN, NEW last \in 0 .. counter,
         ~resident => master_keys # 0,
         Issue(rp_id, resident, last),
         UNCHANGED <<counter, master_keys, attestation, generated, era, wrapped>>
  PROVE  /\ issued' \in Seq(IssuedCredentials)
         /\ DOMAIN issued' = DOMAIN issued \cup {Len(issued) + 1}
         /\ \A id \in DOMAIN issued : issued'[id] = issued[id]
         /\ issued'[Len(issued) + 1].resident = resident
         /\ issued'[Len(issued) + 1].rp_id = rp_id
         /\ issued'[Len(issued) + 1].era = era
         /\ HandleInv' /\ CounterInv' /\ PendingInv' /\ AttestationInv' /\ ReplyInv'
<1> DEFINE new == [rp_id |-> rp_id, resident |-> resident,
                   master_keys |-> IF resident THEN 0 ELSE master_keys,
                   era |-> era, last |-> last]
<1>1. issued' = Append(issued, new) /\ Respond("ok")
  BY DEF Issue
<1>2. /\ issued \in Seq(IssuedCredentials) /\ era \in Nat /\ counter \in Nat
      /\ generated \in Nat /\ master_keys \in 0 .. generated
  BY AuthenticatorAssumption DEF AuthInv, TypeInv
<1>3. new \in IssuedCredentials
  BY <1>2 DEF IssuedCredentials
<1>4. /\ issued' \in Seq(IssuedCredentials)
      /\ DOMAIN issued' = DOMAIN issued \cup {Len(issued) + 1}
      /\ \A id \in DOMAIN issued : issued'[id] = issued[id]
      /\ issued'[Len(issued) + 1] = new
  <2> HIDE DEF new
  <2> QED
    BY <1>1, <1>2, <1>3
<1>5. /\ new.rp_id = rp_id /\ new.resident = resident /\ new.era = era /\ new.last = last
      /\ new.master_keys = IF resident THEN 0 ELSE master_keys
  OBVIOUS
<1> HIDE DEF new
<1>6. HandleInv'
  <2> SUFFICES ASSUME NEW id \in DOMAIN issued', ~issued'[id].resident
               PROVE  /\ issued'[id].master_keys \in 1 .. generated
                      /\ issued'[id].era = era <=> issued'[id].master_keys = master_keys
    BY DEF HandleInv, IsHandle
  <2>1. CASE id \in DOMAIN issued
    BY <1>4, <2>1 DEF AuthInv, HandleInv, IsHandle
  <2>2. CASE id = Len(issued) + 1
    BY <1>2, <1>4, <1>5, <2>2
  <2> QED
    BY <1>4, <2>1, <2>2
<1>7. CounterInv'
  <2> SUFFICES ASSUME NEW id \in DOMAIN issued'
               PROVE  /\ issued'[id].era <= era
                      /\ issued'[id].era = era /\ ~wrapped => issued'[id].last <= counter
    BY DEF CounterInv
  <2>1. CASE id \in DOMAIN issued
    BY <1>4, <2>1 DEF AuthInv, CounterInv
  <2>2. CASE id = Len(issued) + 1
    BY <1>2, <1>4, <1>5, <2>2
  <2> QED
    BY <1>4, <2>1, <2>2
<1>8. PendingInv' /\ AttestationInv'
  BY <1>1 DEF AuthInv, PendingInv, AttestationInv, Respond, attestation, Programmed
<1>9. ReplyInv'
  BY <1>1 DEF Respond, ReplyInv, NewestFirst, AssertionsLive, CounterIncreases, ProtectedNeedsUv
<1> QED
  BY <1>4, <1>5, <1>6, <1>7, <1>8, <1>9

(* A key handle is issued: the store stays as it is. *)
LEMMA IssueHandleStep ==
  ASSUME AuthInv, NEW rp_id \in RpIds, NEW last \in 0 .. counter, master_keys # 0,
         Issue(rp_id, FALSE, last),
         UNCHANGED <<store, session, clock, generated, era, quiet, wrapped>>
  PROVE  AuthInv'
<1>1. UNCHANGED <<credentials, counter, master_keys, attestation, generated, era, wrapped>>
  BY DEF store
<1>2. /\ issued' \in Seq(IssuedCredentials)
      /\ DOMAIN issued' = DOMAIN issued \cup {Len(issued) + 1}
      /\ \A id \in DOMAIN issued : issued'[id] = issued[id]
      /\ HandleInv' /\ CounterInv' /\ PendingInv' /\ AttestationInv' /\ ReplyInv'
  BY <1>1, IssueStep
<1>3. Stored' = Stored
  BY <1>1 DEF Stored
<1>4. OneCredentialPerUser' /\ StoredInv'
  BY <1>1, <1>2, <1>3 DEF AuthInv, OneCredentialPerUser, StoredInv
<1>5. TypeInv' /\ BootInv'
  BY <1>2, AuthenticatorAssumption
  DEF AuthInv, TypeInv, BootInv, Steps, store, attestation, clock, session, Issue, Respond
<1>6. \A c \in next_credentials : issued'[c.id] = issued[c.id]
  BY <1>2 DEF AuthInv, SessionInv, StoredInv
<1>7. SessionInv'
  <2>1. /\ next_credentials' = next_credentials
        /\ assertion_input' = assertion_input
        /\ stateful_command_type' = stateful_command_type
        /\ wrapped' = wrapped /\ counter' = counter
    BY <1>1 DEF session
  <2>2. SessionInv
    BY DEF AuthInv
  <2>3. next_credentials' \subseteq Stored'
    BY <1>3, <2>1, <2>2 DEF SessionInv
  <2> QED
    BY <1>6, <2>1, <2>2, <2>3 DEF SessionInv
<1> QED
  BY <1>2, <1>4, <1>5, <1>7 DEF AuthInv

(* The order of a new credential is above all others. *)
LEMMA NewCreationOrder ==
  ASSUME AuthInv
  PROVE  /\ new_creation_order \in Nat
         /\ new_creation_order <= Len(issued) + 1
         /\ \A c \in Stored : c.creation_order < new_creation_order
<1> DEFINE orders == {0} \cup {c.creation_order : c \in Stored}
<1>1. Len(issued) \in Nat /\ DOMAIN issued = 1 .. Len(issued)
  BY DEF AuthInv, TypeInv
<1>2. ASSUME NEW c \in Stored
      PROVE  c.creation_order \in Nat /\ c.creation_order <= Len(issued)
  <2>1. c.id \in Nat /\ c.creation_order \in Nat
    BY <1>2 DEF Stored, AuthInv, TypeInv, ResidentCredentials
  <2>2. c.id \in DOMAIN issued /\ c.creation_order <= c.id
    BY <1>2 DEF AuthInv, StoredInv
  <2> QED
    BY <1>1, <2>1, <2>2
<1>3. orders \in SUBSET Nat /\ orders # {} /\ \A y \in orders : y <= Len(issued)
  BY <1>1, <1>2
<1>4. Max(orders) \in orders /\ \A y \in orders : y <= Max(orders)
  <2> HIDE DEF orders
  <2> QED
    BY <1>1, <1>3, MaxOfNats
<1> QED
  BY <1>1, <1>2, <1>3, <1>4 DEF new_creation_order

(* The key of a new credential is the one of the credential it replaces, if *)
(* there is one.                                                            *)
LEMMA KeyOfCredential ==
  ASSUME NEW rp_id, NEW user, OldKeys(rp_id, user) \cup FreeKeys # {}
  PROVE  /\ key_of_credential(rp_id, user) \in Keys
         /\ OldKeys(rp_id, user) # {} =>
              key_of_credential(rp_id, user) \in OldKeys(rp_id, user)
<1>1. OldKeys(rp_id, user) \in SUBSET Nat /\ FreeKeys \in SUBSET Nat
  BY AuthenticatorAssumption DEF OldKeys, FreeKeys, Keys
<1>2. OldKeys(rp_id, user) # {} => Min(OldKeys(rp_id, user)) \in OldKeys(rp_id, user)
  BY <1>1, MinOfNats
<1>3. FreeKeys # {} => Min(FreeKeys) \in FreeKeys
  BY <1>1, MinOfNats
<1> QED
  BY <1>2, <1>3 DEF key_of_credential, OldKeys, FreeKeys

(* A resident credential is stored: it replaces the one of its user. *)
LEMMA StoreCredentialStep ==
  ASSUME AuthInv, NEW m \in Creations, next_credentials = {},
         store_credential(m),
         UNCHANGED <<counter, master_keys, pin_set, attestation, session, clock, generated, era,
                     quiet, wrapped>>
  PROVE  AuthInv'
<1>1. quiet' \in BOOLEAN /\ pin_set' \in BOOLEAN
  BY DEF AuthInv, TypeInv
<1>2. CASE Respond("error") /\ UNCHANGED <<credentials, issued>>
  BY <1>1, <1>2, RespondStep DEF Steady
<1>3. CASE /\ OldKeys(m.rp_id, m.user) \cup FreeKeys # {}
           /\ credentials' = [credentials EXCEPT ![key_of_credential(m.rp_id, m.user)] =
                                Credential(Len(issued) + 1, m.rp_id, m.user, m.policy,
                                           new_creation_order)]
           /\ Issue(m.rp_id, TRUE, counter)
  <2> DEFINE key == key_of_credential(m.rp_id, m.user)
             new == Credential(Len(issued) + 1, m.rp_id, m.user, m.policy, new_creation_order)
  <2>1. m.rp_id \in RpIds /\ m.user \in Users /\ m.policy \in Policies
    BY AuthenticatorAssumption DEF Policies
  <2>2. counter \in 0 .. counter
    BY AuthenticatorAssumption DEF AuthInv, TypeInv
  <2>3. /\ issued' \in Seq(IssuedCredentials)
        /\ DOMAIN issued' = DOMAIN issued \cup {Len(issued) + 1}
        /\ \A id \in DOMAIN issued : issued'[id] = issued[id]
        /\ issued'[Len(issued) + 1].resident
        /\ issued'[Len(issued) + 1].rp_id = m.rp_id
        /\ issued'[Len(issued) + 1].era = era
        /\ HandleInv' /\ CounterInv' /\ PendingInv' /\ AttestationInv' /\ ReplyInv'
    BY <1>3, <2>1, <2>2, IssueStep
  <2>4. /\ new_creation_order \in Nat
        /\ new_creation_order <= Len(issued) + 1
        /\ \A c \in Stored : c.creation_order < new_creation_order
    BY NewCreationOrder
  <2>5. /\ key \in Keys
        /\ OldKeys(m.rp_id, m.user) # {} => key \in OldKeys(m.rp_id, m.user)
    BY <1>3, KeyOfCredential
  <2>6. Len(issued) \in Nat /\ DOMAIN issued = 1 .. Len(issued)
    BY DEF AuthInv, TypeInv
  <2>7. /\ new \in ResidentCredentials
        /\ new.id = Len(issued) + 1 /\ new.rp_id = m.rp_id /\ new.user = m.user
        /\ new.creation_order = new_creation_order
    BY <2>1, <2>4, <2>6 DEF Credential, ResidentCredentials
  <2> HIDE DEF key, new
  <2>8. credentials' = [credentials EXCEPT ![key] = new]
    BY <1>3 DEF key, new
  <2>9. credentials \in [Keys -> ResidentCredentials \cup {NoCredential}]
    BY DEF AuthInv, TypeInv
  <2>10. /\ credentials' \in [Keys -> ResidentCredentials \cup {NoCredential}]
         /\ \A k \in Keys : credentials'[k] = IF k = key THEN new ELSE credentials[k]
    BY <2>5, <2>7, <2>8, <2>9
  <2>11. Stored' \subseteq Stored \cup {new}
    BY <2>10 DEF Stored
  <2>12. TypeInv' /\ BootInv'
    BY <1>3, <2>3, <2>10, AuthenticatorAssumption
    DEF AuthInv, TypeInv, BootInv, Steps, attestation, clock, session, Issue, Respond
  <2>13. OneCredentialPerUser'
    <3> SUFFICES ASSUME NEW j \in Keys, NEW k \in Keys,
                        credentials'[j] # NoCredential, credentials'[k] # NoCredential,
                        credentials'[j].rp_id = credentials'[k].rp_id,
                        credentials'[j].user = credentials'[k].user
                 PROVE  j = k
      BY DEF OneCredentialPerUser
    <3>1. CASE j # key /\ k # key
      BY <2>10, <3>1 DEF AuthInv, OneCredentialPerUser
    <3>2. ASSUME NEW i \in Keys, i # key, credentials[i] # NoCredential,
                 credentials[i].rp_id = m.rp_id, credentials[i].user = m.user
          PROVE  FALSE
      <4>1. i \in OldKeys(m.rp_id, m.user) /\ key \in OldKeys(m.rp_id, m.user)
        BY <2>5, <3>2 DEF OldKeys
      <4> QED
        BY <3>2, <4>1 DEF OldKeys, AuthInv, OneCredentialPerUser
    <3> QED
      BY <2>7, <2>10, <3>1, <3>2
  <2>14. StoredInv'
    <3> SUFFICES ASSUME NEW c \in Stored'
                 PROVE  /\ c.id \in DOMAIN issued'
                        /\ issued'[c.id].resident
                        /\ issued'[c.id].era = era
                        /\ issued'[c.id].rp_id = c.rp_id
                        /\ c.creation_order <= c.id
                        /\ \A d \in Stored' :
                             /\ c.id = d.id => c = d
                             /\ c.id < d.id => c.creation_order < d.creation_order
      BY DEF StoredInv
    <3>1. \A d \in Stored : /\ d.id \in DOMAIN issued /\ d.id < Len(issued) + 1
                            /\ d.creation_order \in Nat
      BY <2>6 DEF AuthInv, StoredInv, Stored, TypeInv, ResidentCredentials
    <3>2. CASE c = new
      BY <2>3, <2>4, <2>6, <2>7, <2>11, <3>1, <3>2
    <3>3. CASE c \in Stored
      <4>1. /\ c.id \in DOMAIN issued
            /\ issued[c.id].resident
            /\ issued[c.id].era = era
            /\ issued[c.id].rp_id = c.rp_id
            /\ c.creation_order <= c.id
            /\ \A d \in Stored : /\ c.id = d.id => c = d
                                 /\ c.id < d.id => c.creation_order < d.creation_order
        BY <3>3 DEF AuthInv, StoredInv
      <4> QED
        BY <2>3, <2>4, <2>6, <2>7, <2>11, <3>1, <3>3, <4>1
    <3> QED
      BY <2>11, <3>2, <3>3
  <2>15. SessionInv'
    BY DEF AuthInv, SessionInv, session
  <2> QED
    BY <2>3, <2>12, <2>13, <2>14, <2>15 DEF AuthInv
<1> QED
  BY <1>2, <1>3 DEF store_credential

(* MakeCredential, once the user is present. *)
LEMMA FinishMakeCredentialStep ==
  ASSUME AuthInv, NEW m \in Creations, next_credentials = {}, FinishMakeCredential(m)
  PROVE  AuthInv'
<1>1. /\ UNCHANGED <<counter, master_keys, pin_set, attestation, session, clock, generated, era,
                     quiet, wrapped>>
      /\ pin_set' \in BOOLEAN /\ quiet' \in BOOLEAN
  BY DEF FinishMakeCredential, AuthInv, TypeInv
<1>2. CASE m.rk /\ store_credential(m)
  BY <1>1, <1>2, StoreCredentialStep
<1>3. CASE /\ ~m.rk /\ master_keys # 0
           /\ Issue(m.rp_id, FALSE, counter)
           /\ UNCHANGED credentials
  <2>1. m.rp_id \in RpIds /\ counter \in 0 .. counter
    BY AuthenticatorAssumption DEF AuthInv, TypeInv
  <2> QED
    BY <1>1, <1>3, <2>1, IssueHandleStep DEF store
<1>4. CASE /\ ~m.rk /\ master_keys = 0
           /\ Respond("error")
           /\ UNCHANGED <<credentials, issued>>
  BY <1>1, <1>4, RespondStep DEF Steady
<1> QED
  BY <1>2, <1>3, <1>4 DEF FinishMakeCredential

LEMMA RegisterStep ==
  ASSUME AuthInv, NEW rp_id \in RpIds, process_register(rp_id)
  PROVE  AuthInv'
<1>1. /\ UNCHANGED <<store, session, clock, generated, era, quiet, wrapped>>
      /\ pin_set' \in BOOLEAN /\ quiet' \in BOOLEAN
  BY DEF process_register, store, AuthInv, TypeInv
<1>2. CASE master_keys # 0 /\ Issue(rp_id, FALSE, 0)
  <2>1. 0 \in 0 .. counter
    BY AuthenticatorAssumption DEF AuthInv, TypeInv
  <2> QED
    BY <1>1, <1>2, <2>1, IssueHandleStep
<1>3. CASE Respond("error") /\ UNCHANGED issued
  BY <1>1, <1>3, RespondStep DEF Steady, store
<1> QED
  BY <1>2, <1>3 DEF process_register

-----------------------------------------------------------------------------
(* MakeCredential, up to the wait for the user. *)
LEMMA MakeCredentialStep ==
  ASSUME AuthInv, NEW params \in Creations, NEW excluded \in Lists, NEW pin_auth \in PinAuths,
         process_make_credential(params, excluded, pin_auth)
  PROVE  AuthInv'
<1>1. /\ Steady /\ pin_set' \in BOOLEAN /\ quiet' \in BOOLEAN
      /\ EndStateful /\ UNCHANGED clock
  BY DEF process_make_credential, Accept, Steady, store, AuthInv, TypeInv
<1>2. next_credentials' = {}
  BY <1>1 DEF EndStateful
<1>3. CASE Respond("error")
  BY <1>1, <1>3, RespondStep
<1>4. CASE Wait(Command("Probe"))
  BY <1>1, <1>4, WaitStep DEF Command
<1>5. CASE Wait([name |-> "MakeCredential", params |-> params])
  BY <1>1, <1>2, <1>5, WaitStep
<1> QED
  BY <1>3, <1>4, <1>5 DEF process_make_credential

(* GetAssertion, up to the wait for the user or without it. *)
LEMMA GetAssertionStep ==
  ASSUME AuthInv, NEW rp_id \in RpIds, NEW with_list \in BOOLEAN, NEW listed \in Lists,
         NEW up \in BOOLEAN, NEW pin_auth \in PinAuths,
         process_get_assertion(rp_id, with_list, listed, up, pin_auth)
  PROVE  AuthInv'
<1> DEFINE has_uv == pin_auth = "good"
           applicable ==
             IF with_list
             THEN LET usable == Usable(listed, rp_id, ~has_uv)
                  IN  IF usable = {} /\ ~Unreadable(listed) THEN {{}}
                      ELSE {{c} : c \in usable}
             ELSE {filter_credential(rp_id, ~has_uv)}
           request(creds) ==
             [name |-> "GetAssertion", has_uv |-> has_uv, listed |-> with_list,
              creds |-> creds]
<1>1. ASSUME NEW creds \in applicable
      PROVE  RequestInv(request(creds))
  <2>1. CASE with_list
    <3>1. creds = {} \/ \E c \in Usable(listed, rp_id, ~has_uv) : creds = {c}
      BY <1>1, <2>1
    <3>2. \A c \in creds : Live(c) /\ ~(~has_uv /\ c.policy = "Required")
      BY <3>1, UsableLive
    <3>3. \A c, d \in creds : c = d
      BY <3>1
    <3> QED
      BY <2>1, <3>2, <3>3 DEF RequestInv, Allowed
  <2>2. CASE ~with_list
    <3>1. creds = filter_credential(rp_id, ~has_uv)
      BY <1>1, <2>2
    <3>2. \A c \in creds : c \in Stored /\ (~has_uv => c.policy = "Optional")
      BY <3>1 DEF filter_credential, is_discoverable
    <3> QED
      BY <2>2, <3>2 DEF RequestInv, Allowed, Live
  <2> QED
    BY <2>1, <2>2
<1>2. quiet' \in BOOLEAN
  BY DEF process_get_assertion, Accept
<1>3. CASE /\ \/ pin_auth = "empty" /\ Wait(Command("Probe"))
              \/ Respond("error")
              \/ \E creds \in applicable : Wait(request(creds))
           /\ EndStateful
           /\ UNCHANGED <<store, clock, issued, generated, era, wrapped>>
  <2>1. Steady /\ pin_set' \in BOOLEAN /\ UNCHANGED clock
    BY <1>3 DEF Steady, store, AuthInv, TypeInv
  <2>2. CASE Wait(Command("Probe"))
    BY <1>2, <1>3, <2>1, <2>2, WaitStep DEF Command
  <2>3. CASE Respond("error")
    BY <1>2, <1>3, <2>1, <2>3, RespondStep
  <2>4. CASE \E creds \in applicable : Wait(request(creds))
    <3>1. PICK creds \in applicable : Wait(request(creds))
      BY <2>4
    <3>2. RequestInv(request(creds)) /\ request(creds).name = "GetAssertion"
      BY <1>1
    <3> QED
      BY <1>2, <1>3, <2>1, <3>1, <3>2, WaitStep
  <2> QED
    BY <1>3, <2>2, <2>3, <2>4
<1>4. CASE \E creds \in applicable : FinishGetAssertion(request(creds), 0)
  <2>1. PICK creds \in applicable : FinishGetAssertion(request(creds), 0)
    BY <1>4
  <2>2. 0 \in 0 .. TOUCH_TIMEOUT
    BY AuthenticatorAssumption
  <2> QED
    BY <1>1, <1>2, <2>1, <2>2, FinishGetAssertionStep
<1> QED
  BY <1>3, <1>4 DEF process_get_assertion

(* The other commands. *)
LEMMA RequestStep == AuthInv /\ Request => AuthInv'
<1> SUFFICES ASSUME AuthInv, Request PROVE AuthInv'
  OBVIOUS
<1> pin_set \in BOOLEAN /\ quiet \in BOOLEAN
  BY DEF AuthInv, TypeInv
<1>1. CASE OtherCommand
  <2>1. Steady /\ pin_set' \in BOOLEAN /\ quiet' \in BOOLEAN /\ UNCHANGED clock /\ EndStateful
    BY <1>1 DEF OtherCommand, Accept, Steady
  <2>2. Respond("ok") \/ Respond("error")
    BY <1>1 DEF OtherCommand
  <2> QED
    BY <2>1, <2>2, RespondStep
<1>2. CASE process_get_info
  BY <1>2, RespondStep DEF process_get_info, Steady, store
<1>3. CASE process_selection
  BY <1>3, WaitStep DEF process_selection, Steady, store, Command
<1>4. CASE process_get_next_assertion
  BY <1>4, GetNextAssertionStep
<1>5. CASE process_reset
  <2>1. Steady /\ pin_set' \in BOOLEAN /\ UNCHANGED clock
    BY <1>5 DEF process_reset, Steady, store
  <2>2. CASE EndStateful /\ quiet' = FALSE /\ Respond("error")
    BY <2>1, <2>2, RespondStep
  <2>3. CASE UNCHANGED <<session, quiet>> /\ Respond("error")
    BY <2>1, <2>3, RespondStep
  <2>4. CASE /\ stateful_command_type = "Reset"
             /\ UNCHANGED <<session, quiet>>
             /\ Wait(Command("Reset"))
    <3>1. next_credentials' = {}
      BY <2>4 DEF AuthInv, SessionInv, session
    <3> QED
      BY <2>1, <2>4, <3>1, WaitStep DEF Command
  <2> QED
    BY <1>5, <2>2, <2>3, <2>4 DEF process_reset
<1>6. ASSUME NEW material \in Materials \cup {NoMaterial}, NEW lockdown \in BOOLEAN,
             process_vendor_configure(material, lockdown)
      PROVE  AuthInv'
  BY <1>6, WaitStep DEF process_vendor_configure, Accept, Steady, store
<1> QED
  BY <1>1, <1>2, <1>3, <1>4, <1>5, <1>6, MakeCredentialStep, GetAssertionStep, RegisterStep,
     AuthenticateStep
  DEF Request

-----------------------------------------------------------------------------
(* The end of a configuration: the device is locked only if the            *)
(* attestation is there or nothing needs it.                               *)
LEMMA LockdownKinds ==
  ASSUME NEW v, NEW cert, NEW key, Lockdown(v, cert, key)
  PROVE  \E kind \in {"ok", "error", "locked"} :
           /\ Respond(kind)
           /\ kind = "locked" /\ need_certificate => NoMaterial \notin {cert, key}
BY DEF Lockdown

(* The configuration goes on without the user, from the step it was at or  *)
(* after an update of the attestation.                                     *)
LEMMA ConfigureStep ==
  ASSUME AuthInv, UNCHANGED <<credentials, counter, master_keys, pin_set, session, clock, issued,
                              generated, era, quiet, wrapped>>,
         {certificate', private_key'} \subseteq Materials \cup {NoMaterial},
         AttestationInv',
         \/ /\ step' \in {"certificate", "private_key"} /\ step # "idle"
            /\ UNCHANGED <<pending, waited, reply>>
         \/ \E kind \in {"ok", "error", "locked"} : Respond(kind)
  PROVE  AuthInv'
<1>1. Stored' = Stored
  BY DEF Stored
<1>2. OneCredentialPerUser' /\ StoredInv' /\ HandleInv' /\ CounterInv'
  BY <1>1 DEF AuthInv, OneCredentialPerUser, StoredInv, HandleInv, CounterInv, IsHandle
<1>3. SessionInv' /\ BootInv'
  BY <1>1 DEF AuthInv, SessionInv, BootInv, session, clock
<1>4. TypeInv'
  BY AuthenticatorAssumption DEF AuthInv, TypeInv, Steps, Respond, clock
<1>5. PendingInv'
  BY DEF PendingInv, Respond
<1>6. ReplyInv'
  <2>1. (reply'.kind \in {"ok", "error", "locked"} /\ step' = "idle") \/ reply'.kind = "none"
    BY DEF AuthInv, ReplyInv, Respond
  <2> QED
    BY <2>1 DEF ReplyInv, NewestFirst, AssertionsLive, CounterIncreases, ProtectedNeedsUv
<1> QED
  BY <1>2, <1>3, <1>4, <1>5, <1>6 DEF AuthInv

LEMMA FinishVendorConfigureStep ==
  ASSUME AuthInv, step = "presence", pending.material \in Materials \cup {NoMaterial},
         FinishVendorConfigure(pending)
  PROVE  AuthInv'
<1> DEFINE current == {certificate, private_key} \ {NoMaterial}
<1>1. /\ UNCHANGED <<store, session, clock, issued, generated, era, quiet, wrapped>>
      /\ Steady /\ pin_set' \in BOOLEAN /\ quiet' \in BOOLEAN
  BY DEF FinishVendorConfigure, Steady, store, AuthInv, TypeInv
<1>2. CASE /\ pending.material = NoMaterial \/ Programmed
           /\ Lockdown(pending, certificate, private_key)
  <2>1. PICK kind \in {"ok", "error", "locked"} :
          /\ Respond(kind)
          /\ kind = "locked" /\ need_certificate => NoMaterial \notin {certificate, private_key}
    BY <1>2, LockdownKinds
  <2>2. kind = "locked" /\ need_certificate => Programmed
    BY <2>1 DEF Programmed
  <2> QED
    BY <1>1, <2>1, <2>2, RespondStep
<1>3. CASE Respond("error")
  BY <1>1, <1>3, RespondStep
<1>4. CASE /\ pending.material # NoMaterial /\ ~Programmed
           /\ current \subseteq {pending.material}
           /\ step' = IF certificate = NoMaterial THEN "certificate" ELSE "private_key"
           /\ UNCHANGED <<pending, waited, reply>>
  <2>1. UNCHANGED <<certificate, private_key>>
    BY <1>1 DEF store, attestation
  <2>2. /\ {certificate, private_key} \subseteq Materials \cup {NoMaterial}
        /\ reply.kind = "none"
    BY DEF AuthInv, TypeInv, ReplyInv
  <2>3. AttestationInv'
    BY <1>4, <2>1, <2>2 DEF AttestationInv, Programmed
  <2> QED
    BY <1>1, <1>4, <2>1, <2>2, <2>3, ConfigureStep DEF store
<1> QED
  BY <1>2, <1>3, <1>4 DEF FinishVendorConfigure

LEMMA SetCertificateStep == AuthInv /\ set_attestation_certificate => AuthInv'
<1> SUFFICES ASSUME AuthInv, set_attestation_certificate PROVE AuthInv'
  OBVIOUS
<1>0. step = "certificate" /\ certificate = NoMaterial
  BY DEF set_attestation_certificate, AuthInv, AttestationInv
<1>1. /\ step = "certificate" /\ certificate' = pending.material
      /\ UNCHANGED <<credentials, counter, master_keys, pin_set, private_key, session, clock,
                     issued, generated, era, quiet, wrapped>>
  BY <1>0 DEF set_attestation_certificate
<1>2. /\ pending.material \in Materials /\ pending.material # NoMaterial
      /\ private_key \in {NoMaterial, pending.material}
      /\ reply.kind = "none"
  BY <1>1, AuthenticatorAssumption DEF AuthInv, AttestationInv, ReplyInv
<1>3. CASE /\ private_key = NoMaterial
           /\ step' = "private_key"
           /\ UNCHANGED <<pending, waited, reply>>
  <2>1. AttestationInv'
    BY <1>1, <1>2, <1>3 DEF AttestationInv, Programmed
  <2> QED
    BY <1>1, <1>2, <1>3, <2>1, ConfigureStep
<1>4. CASE private_key # NoMaterial /\ Lockdown(pending, certificate', private_key)
  <2>1. PICK kind \in {"ok", "error", "locked"} :
          /\ Respond(kind)
          /\ kind = "locked" /\ need_certificate => NoMaterial \notin {certificate', private_key}
    BY <1>4, LockdownKinds
  <2>2. AttestationInv'
    BY <1>1, <1>2, <1>4, <2>1 DEF AttestationInv, Programmed, Respond
  <2> QED
    BY <1>1, <1>2, <2>1, <2>2, ConfigureStep
<1> QED
  BY <1>0, <1>3, <1>4 DEF set_attestation_certificate

LEMMA SetPrivateKeyStep == AuthInv /\ set_attestation_private_key => AuthInv'
<1> SUFFICES ASSUME AuthInv, set_attestation_private_key PROVE AuthInv'
  OBVIOUS
<1>0. step = "private_key" /\ private_key = NoMaterial
  BY DEF set_attestation_private_key, AuthInv, AttestationInv
<1>1. /\ step = "private_key" /\ private_key' = pending.material
      /\ Lockdown(pending, certificate, private_key')
      /\ UNCHANGED <<credentials, counter, master_keys, pin_set, certificate, session, clock,
                     issued, generated, era, quiet, wrapped>>
  BY <1>0 DEF set_attestation_private_key
<1>2. /\ pending.material \in Materials /\ pending.material # NoMaterial
      /\ certificate = pending.material
  BY <1>1, AuthenticatorAssumption DEF AuthInv, AttestationInv
<1>3. PICK kind \in {"ok", "error", "locked"} :
        /\ Respond(kind)
        /\ kind = "locked" /\ need_certificate => NoMaterial \notin {certificate, private_key'}
  BY <1>1, LockdownKinds
<1>4. AttestationInv'
  BY <1>1, <1>2, <1>3 DEF AttestationInv, Programmed, Respond
<1> QED
  BY <1>1, <1>2, <1>3, <1>4, ConfigureStep

-----------------------------------------------------------------------------
(* The user touches the button. *)
LEMMA TouchStep == AuthInv /\ Touch => AuthInv'
<1> SUFFICES ASSUME AuthInv, Touch PROVE AuthInv'
  OBVIOUS
<1> step = "presence" /\ pin_set \in BOOLEAN /\ quiet \in BOOLEAN
  BY DEF Touch, AuthInv, TypeInv
<1>1. CASE pending.name = "MakeCredential" /\ FinishMakeCredential(pending.params)
  <2>1. pending.params \in Creations /\ next_credentials = {}
    BY <1>1 DEF AuthInv, PendingInv
  <2> QED
    BY <1>1, <2>1, FinishMakeCredentialStep
<1>2. CASE /\ pending.name = "GetAssertion"
           /\ FinishGetAssertion(pending, waited)
           /\ UNCHANGED quiet
  <2>1. RequestInv(pending) /\ waited \in 0 .. TOUCH_TIMEOUT
    BY <1>2 DEF AuthInv, PendingInv, TypeInv
  <2> QED
    BY <1>2, <2>1, FinishGetAssertionStep
<1>3. CASE pending.name = "VendorConfigure" /\ FinishVendorConfigure(pending)
  <2>1. pending.material \in Materials \cup {NoMaterial}
    BY <1>3 DEF AuthInv, PendingInv
  <2> QED
    BY <1>3, <2>1, FinishVendorConfigureStep
<1>4. CASE /\ pending.name \in {"Probe", "Selection"}
           /\ Respond(IF pending.name = "Selection" THEN "ok" ELSE "error")
           /\ UNCHANGED <<store, session, clock, issued, generated, era, quiet, wrapped>>
  BY <1>4, RespondStep DEF Steady, store
<1>5. CASE /\ pending.name = "Reset"
           /\ step' = "clear"
           /\ UNCHANGED <<store, session, clock, pending, waited, reply, issued, generated,
                          era, quiet, wrapped>>
  <2>1. Steady
    BY <1>5 DEF Steady, store
  <2>2. /\ Stored' = Stored
        /\ OneCredentialPerUser' /\ StoredInv' /\ HandleInv' /\ CounterInv'
        /\ Programmed' <=> Programmed
    BY <2>1, SteadyStep
  <2>3. SessionInv' /\ BootInv' /\ next_credentials' = {}
    BY <1>5, <2>1, SessionStep DEF AuthInv, PendingInv
  <2>4. TypeInv'
    BY <1>5 DEF AuthInv, TypeInv, Steps, store, attestation, clock
  <2>5. PendingInv' /\ AttestationInv'
    BY <1>5, <2>2, <2>3
    DEF AuthInv, PendingInv, AttestationInv, store, attestation
  <2>6. ReplyInv'
    BY <1>5
    DEF AuthInv, ReplyInv, NewestFirst, AssertionsLive, CounterIncreases, ProtectedNeedsUv
  <2> QED
    BY <2>2, <2>3, <2>4, <2>5, <2>6 DEF AuthInv
<1> QED
  BY <1>1, <1>2, <1>3, <1>4, <1>5 DEF Touch

(* The wait ends without the user, or an update of the store fails. *)
LEMMA FailStep == AuthInv /\ (NoTouch \/ UpdateFails) => AuthInv'
<1> SUFFICES ASSUME AuthInv, NoTouch \/ UpdateFails PROVE AuthInv'
  OBVIOUS
<1>1. /\ Respond("error")
      /\ UNCHANGED <<store, session, clock, issued, generated, era, quiet, wrapped>>
  BY DEF NoTouch, UpdateFails
<1>2. Steady /\ pin_set' \in BOOLEAN /\ quiet' \in BOOLEAN
  BY <1>1 DEF Steady, store, AuthInv, TypeInv
<1> QED
  BY <1>1, <1>2, RespondStep

LEMMA TickStep == AuthInv /\ Tick => AuthInv'
<1> SUFFICES ASSUME AuthInv, Tick PROVE AuthInv'
  OBVIOUS
<1>1. /\ Steady
      /\ UNCHANGED <<store, session, step, pending, reply, issued, generated, era, quiet, wrapped>>
  BY DEF Tick, Steady, store
<1>2. /\ permission \in Nat /\ uptime \in 0 .. RESET_TIMEOUT /\ RESET_TIMEOUT \in Nat
      /\ waited \in 0 .. TOUCH_TIMEOUT /\ TOUCH_TIMEOUT \in Nat
  BY AuthenticatorAssumption DEF AuthInv, TypeInv
<1>3. /\ permission' = IF permission - 1 >= 0 THEN permission - 1 ELSE 0
      /\ uptime' = IF uptime + 1 <= RESET_TIMEOUT THEN uptime + 1 ELSE RESET_TIMEOUT
  BY <1>2, MaxOfTwo, MinOfTwo DEF Tick
<1>4. waited' \in 0 .. TOUCH_TIMEOUT
  BY <1>2 DEF Tick
<1>5. /\ Stored' = Stored
      /\ OneCredentialPerUser' /\ StoredInv' /\ HandleInv' /\ CounterInv'
      /\ Programmed' <=> Programmed
      /\ \A c : OpenHandle(c)' <=> OpenHandle(c)
  BY <1>1, SteadyStep
<1>6. TypeInv'
  BY <1>1, <1>2, <1>3, <1>4 DEF AuthInv, TypeInv, store, attestation
<1>7. BootInv'
  BY <1>1, <1>2, <1>3 DEF AuthInv, BootInv, session
<1>8. SessionInv'
  BY <1>1, <1>5 DEF AuthInv, SessionInv, session, Steady
<1>9. RequestInv(pending) => RequestInv(pending)'
  BY <1>1, <1>5 DEF RequestInv, Live, Allowed
<1>10. PendingInv'
  BY <1>1, <1>9 DEF AuthInv, PendingInv, session
<1>11. AttestationInv'
  BY <1>1, <1>5 DEF AuthInv, AttestationInv, store, attestation
<1>12. ReplyInv'
  BY <1>1, <1>5
  DEF AuthInv, ReplyInv, NewestFirst, AssertionsLive, CounterIncreases, ProtectedNeedsUv
<1> QED
  BY <1>5, <1>6, <1>7, <1>8, <1>10, <1>11, <1>12 DEF AuthInv

(* A reset removes the resident credentials, and with the master keys the  *)
(* key handles.                                                            *)
LEMMA ResetClearStep == AuthInv /\ ResetClear => AuthInv'
<1> SUFFICES ASSUME AuthInv, ResetClear PROVE AuthInv'
  OBVIOUS
<1> USE DEF ResetClear
<1>1. reply.kind = "none" /\ next_credentials = {} /\ step = "clear"
  BY DEF AuthInv, ReplyInv, PendingInv
<1>2. Stored' = {}
  BY DEF Stored
<1>3. TypeInv'
  <2>1. wrapped' \in BOOLEAN /\ pin_set' \in BOOLEAN
    BY Zenon
  <2>2. credentials' \in [Keys -> ResidentCredentials \cup {NoCredential}]
    OBVIOUS
  <2> QED
    BY <2>1, <2>2, AuthenticatorAssumption
    DEF AuthInv, TypeInv, Steps, attestation, clock
<1>4. OneCredentialPerUser' /\ StoredInv'
  BY <1>2 DEF OneCredentialPerUser, StoredInv
<1>5. ASSUME NEW id \in DOMAIN issued
      PROVE  issued[id].era < era + 1 /\ issued[id].era \in Nat /\ era \in Nat
  <2>1. issued[id] \in IssuedCredentials /\ era \in Nat
    BY <1>5 DEF AuthInv, TypeInv
  <2>2. issued[id].era \in Nat /\ issued[id].era <= era
    BY <1>5, <2>1 DEF AuthInv, CounterInv, IssuedCredentials
  <2> QED
    BY <2>1, <2>2
<1>6. CounterInv'
  BY <1>5 DEF CounterInv
<1>7. HandleInv'
  <2> SUFFICES ASSUME NEW id \in DOMAIN issued, ~issued[id].resident
               PROVE  /\ issued[id].master_keys \in 1 .. generated
                      /\ issued[id].era # era + 1
                      /\ issued[id].master_keys # 0
    BY DEF HandleInv, IsHandle
  <2>1. issued[id].master_keys \in 1 .. generated
    BY DEF AuthInv, HandleInv, IsHandle
  <2> QED
    BY <1>5, <2>1 DEF AuthInv, TypeInv
<1>8. SessionInv' /\ PendingInv' /\ BootInv'
  BY <1>1, <1>2 DEF AuthInv, SessionInv, PendingInv, BootInv, session, clock
<1>9. AttestationInv'
  BY <1>1 DEF AuthInv, AttestationInv, Programmed, attestation
<1>10. ReplyInv'
  BY <1>1 DEF ReplyInv, NewestFirst, AssertionsLive, CounterIncreases, ProtectedNeedsUv
<1> QED
  BY <1>3, <1>4, <1>6, <1>7, <1>8, <1>9, <1>10 DEF AuthInv

(* Master keys are generated if they are missing: no key handle opens with *)
(* them yet.                                                               *)
LEMMA InitKeysStep ==
  ASSUME AuthInv, init, UNCHANGED <<issued, era>>
  PROVE  /\ HandleInv'
         /\ generated' \in Nat /\ master_keys' \in 0 .. generated'
<1>1. generated \in Nat /\ master_keys \in 0 .. generated
  BY DEF AuthInv, TypeInv
<1>2. generated' \in Nat /\ master_keys' \in 0 .. generated' /\ generated <= generated'
  BY <1>1 DEF init
<1>3. ASSUME NEW id \in DOMAIN issued, ~issued[id].resident
      PROVE  /\ issued[id].master_keys \in 1 .. generated'
             /\ issued[id].era = era <=> issued[id].master_keys = master_keys'
  <2>1. /\ issued[id].master_keys \in 1 .. generated
        /\ issued[id].era = era <=> issued[id].master_keys = master_keys
    BY <1>3 DEF AuthInv, HandleInv, IsHandle
  <2> QED
    BY <1>1, <1>2, <2>1 DEF init
<1> QED
  BY <1>2, <1>3 DEF HandleInv, IsHandle

LEMMA ResetInitStep == AuthInv /\ ResetInit => AuthInv'
<1> SUFFICES ASSUME AuthInv, ResetInit PROVE AuthInv'
  OBVIOUS
<1> USE DEF ResetInit
<1>1. /\ HandleInv'
      /\ generated' \in Nat /\ master_keys' \in 0 .. generated'
  BY InitKeysStep
<1>2. Stored' = Stored
  BY DEF Stored
<1>3. OneCredentialPerUser' /\ StoredInv' /\ CounterInv' /\ SessionInv' /\ BootInv'
  BY <1>2 DEF AuthInv, OneCredentialPerUser, StoredInv, CounterInv, SessionInv, BootInv,
              session, clock
<1>4. TypeInv'
  BY <1>1, AuthenticatorAssumption
  DEF AuthInv, TypeInv, Steps, attestation, clock, Respond
<1>5. PendingInv' /\ AttestationInv'
  BY DEF AuthInv, PendingInv, AttestationInv, Programmed, attestation, Respond
<1>6. ReplyInv'
  BY DEF Respond, ReplyInv, NewestFirst, AssertionsLive, CounterIncreases, ProtectedNeedsUv
<1> QED
  BY <1>1, <1>3, <1>4, <1>5, <1>6 DEF AuthInv

(* After a power loss nothing is left of the command, and a reset is       *)
(* possible.                                                               *)
LEMMA PowerLossStep == AuthInv /\ PowerLoss => AuthInv'
<1> SUFFICES ASSUME AuthInv, PowerLoss PROVE AuthInv'
  OBVIOUS
<1> USE DEF PowerLoss
<1>1. /\ HandleInv'
      /\ generated' \in Nat /\ master_keys' \in 0 .. generated'
  BY InitKeysStep
<1>2. Stored' = Stored
  BY DEF Stored
<1>3. OneCredentialPerUser' /\ StoredInv' /\ CounterInv'
  BY <1>2 DEF AuthInv, OneCredentialPerUser, StoredInv, CounterInv
<1>4. SessionInv' /\ BootInv'
  BY AuthenticatorAssumption DEF SessionInv, BootInv
<1>5. TypeInv'
  <2>1. quiet' \in BOOLEAN
    BY Zenon
  <2> QED
    BY <1>1, <2>1, AuthenticatorAssumption DEF AuthInv, TypeInv, Steps, attestation
<1>6. PendingInv' /\ AttestationInv'
  BY DEF AuthInv, PendingInv, AttestationInv, Programmed, attestation, NoReply
<1>7. ReplyInv'
  BY DEF NoReply, ReplyInv, NewestFirst, AssertionsLive, CounterIncreases, ProtectedNeedsUv
<1> QED
  BY <1>1, <1>3, <1>4, <1>5, <1>6, <1>7 DEF AuthInv

LEMMA AuthStep == AuthInv /\ [Next]_vars => AuthInv'
<1> SUFFICES ASSUME AuthInv, [Next]_vars PROVE AuthInv'
  OBVIOUS
<1>1. CASE UNCHANGED vars
  <2>1. /\ Steady
        /\ UNCHANGED <<store, session, clock, running, reply, quiet>>
    BY <1>1 DEF vars, Steady, store
  <2>2. /\ Stored' = Stored
        /\ OneCredentialPerUser' /\ StoredInv' /\ HandleInv' /\ CounterInv'
        /\ Programmed' <=> Programmed
        /\ \A c : OpenHandle(c)' <=> OpenHandle(c)
    BY <2>1, SteadyStep
  <2>3. SessionInv' /\ BootInv'
    BY <2>1, SessionStep
  <2>4. TypeInv'
    BY <2>1 DEF AuthInv, TypeInv, Steady, store, attestation, clock, running
  <2>5. RequestInv(pending) => RequestInv(pending)'
    BY <2>1, <2>2 DEF RequestInv, Live, Allowed, running
  <2>6. PendingInv' /\ AttestationInv'
    BY <2>1, <2>2, <2>5
    DEF AuthInv, PendingInv, AttestationInv, session, running, store, attestation
  <2>7. ReplyInv'
    BY <2>1, <2>2
    DEF AuthInv, ReplyInv, NewestFirst, AssertionsLive, CounterIncreases, ProtectedNeedsUv,
        Steady, running
  <2> QED
    BY <2>2, <2>3, <2>4, <2>6, <2>7 DEF AuthInv
<1>2. CASE Next
  BY <1>2, RequestStep, TouchStep, FailStep, TickStep, ResetClearStep, ResetInitStep,
     SetCertificateStep, SetPrivateKeyStep, PowerLossStep
  DEF Next
<1> QED
  BY <1>1, <1>2

-----------------------------------------------------------------------------
(* The inductive invariant holds of every behaviour of the authenticator. *)
THEOREM AuthInvariant == Spec => []AuthInv
BY AuthInit, AuthStep, PTL DEF Spec

(* Whatever updates, failures of the store and power losses there are, a   *)
(* relying party has at most one resident credential of a user:            *)
(* store_credential never takes its internal error.                        *)
THEOREM OneCredential == Spec => []OneCredentialPerUser
<1>1. AuthInv => OneCredentialPerUser
  BY DEF AuthInv
<1> QED
  BY AuthInvariant, <1>1, PTL

(* GetAssertion and GetNextAssertion answer with the newest credential of  *)
(* those that are left.                                                    *)
THEOREM NewestAnswersFirst == Spec => []NewestFirst
<1>1. AuthInv => NewestFirst
  BY DEF AuthInv, ReplyInv
<1> QED
  BY AuthInvariant, <1>1, PTL

(* Only credentials that exist sign, and only for their relying party,     *)
(* although the ones that sign are copies made before the user was there.  *)
THEOREM OnlyLiveCredentialsSign == Spec => []AssertionsLive
<1>1. AuthInv => AssertionsLive
  BY DEF AuthInv, ReplyInv
<1> QED
  BY AuthInvariant, <1>1, PTL

(* The counters that a credential signs increase until the counter wraps,  *)
(* although GetNextAssertion signs the counter of an earlier command.      *)
THEOREM CountersIncrease == Spec => []CounterIncreases
<1>1. AuthInv => CounterIncreases
  BY DEF AuthInv, ReplyInv
<1> QED
  BY AuthInvariant, <1>1, PTL

(* The policy of a credential is respected. *)
THEOREM PoliciesRespected == Spec => []ProtectedNeedsUv
<1>1. AuthInv => ProtectedNeedsUv
  BY DEF AuthInv, ReplyInv
<1> QED
  BY AuthInvariant, <1>1, PTL

(* Every key handle handed out since the last reset opens. *)
THEOREM HandlesStayOpen == Spec => []HandlesOpen
<1>1. AuthInv => HandlesOpen
  BY DEF AuthInv, HandleInv, HandlesOpen
<1> QED
  BY AuthInvariant, <1>1, PTL

(* An attestation that is complete is of one material and stays for ever,  *)
(* no part of it is ever set twice, and the device is not locked without   *)
(* the attestation if U2F or batch attestation needs it.                   *)
THEOREM AttestationStays == Spec => AttestationPaired
<1>1. ASSUME AuthInv, AuthInv', [Next]_vars
      PROVE  /\ Programmed' => certificate' = private_key'
             /\ Programmed => UNCHANGED attestation
             /\ step = "certificate" => certificate = NoMaterial
             /\ step = "private_key" => private_key = NoMaterial
             /\ reply'.kind = "locked" /\ need_certificate => Programmed'
  <2>1. /\ Programmed' => certificate' = private_key'
        /\ step = "certificate" => certificate = NoMaterial
        /\ step = "private_key" => private_key = NoMaterial
        /\ reply'.kind = "locked" /\ need_certificate => Programmed'
    BY <1>1 DEF AuthInv, AttestationInv
  <2>2. ASSUME Programmed
        PROVE  step \notin {"certificate", "private_key"}
    BY <1>1, <2>2 DEF AuthInv, AttestationInv, Programmed
  <2>3. CASE Request
    <3> USE DEF store
    <3>1. ASSUME NEW params, NEW excluded, NEW pin_auth,
                 process_make_credential(params, excluded, pin_auth)
          PROVE  UNCHANGED attestation
      BY <3>1 DEF process_make_credential
    <3>2. ASSUME NEW rp_id, NEW with_list, NEW listed, NEW up, NEW pin_auth,
                 process_get_assertion(rp_id, with_list, listed, up, pin_auth)
          PROVE  UNCHANGED attestation
      BY <3>2 DEF process_get_assertion, FinishGetAssertion
    <3>3. ASSUME NEW rp_id, process_register(rp_id)
          PROVE  UNCHANGED attestation
      BY <3>3 DEF process_register
    <3>4. ASSUME NEW rp_id, NEW id, NEW check_only, process_authenticate(rp_id, id, check_only)
          PROVE  UNCHANGED attestation
      BY <3>4 DEF process_authenticate
    <3>5. ASSUME NEW material, NEW lockdown, process_vendor_configure(material, lockdown)
          PROVE  UNCHANGED attestation
      BY <3>5 DEF process_vendor_configure
    <3>6. CASE OtherCommand \/ process_get_info \/ process_selection
               \/ process_get_next_assertion \/ process_reset
      BY <2>1, <3>6 DEF OtherCommand, process_get_info, process_selection,
                        process_get_next_assertion, process_reset
    <3> QED
      BY <2>1, <2>3, <3>1, <3>2, <3>3, <3>4, <3>5, <3>6 DEF Request
  <2>4. CASE Touch
    BY <2>1, <2>4
    DEF Touch, FinishMakeCredential, FinishGetAssertion, FinishVendorConfigure, store
  <2>5. CASE NoTouch \/ Tick \/ ResetClear \/ ResetInit \/ UpdateFails \/ PowerLoss
    BY <2>1, <2>5 DEF NoTouch, Tick, ResetClear, ResetInit, UpdateFails, PowerLoss, store
  <2>6. CASE set_attestation_certificate \/ set_attestation_private_key
    BY <2>1, <2>2, <2>6 DEF set_attestation_certificate, set_attestation_private_key
  <2>7. CASE UNCHANGED vars
    BY <2>1, <2>7 DEF vars, store
  <2> QED
    BY <1>1, <2>3, <2>4, <2>5, <2>6, <2>7 DEF Next
<1> QED
  BY AuthInvariant, <1>1, PTL DEF Spec, AttestationPaired

(* A reset starts only in the first seconds after a boot, and only before  *)
(* any command that ends the right to it.                                  *)
THEOREM ResetsOnlyAfterBoot == Spec => ResetOnlyAfterBoot
<1>1. ASSUME AuthInv, [Next]_vars, step = "idle", step' = "presence", pending'.name = "Reset"
      PROVE  quiet /\ uptime < RESET_TIMEOUT
  <2>1. process_reset
    <3>1. ASSUME NEW name, Wait(Command(name)), name # "Reset"
          PROVE  FALSE
      BY <1>1, <3>1 DEF Wait, Command
    <3>2. ASSUME NEW kind, Respond(kind)
          PROVE  FALSE
      BY <1>1, <3>2 DEF Respond
    <3>3. ASSUME NEW params, NEW excluded, NEW pin_auth,
                 process_make_credential(params, excluded, pin_auth)
          PROVE  FALSE
      BY <1>1, <3>1, <3>2, <3>3 DEF process_make_credential, Wait
    <3>4. ASSUME NEW g, NEW elapsed, FinishGetAssertion(g, elapsed)
          PROVE  FALSE
      BY <1>1, <3>2, <3>4 DEF FinishGetAssertion, assertion_response, Sign
    <3>5. ASSUME NEW rp_id, NEW with_list, NEW listed, NEW up, NEW pin_auth,
                 process_get_assertion(rp_id, with_list, listed, up, pin_auth)
          PROVE  FALSE
      <4>1. CASE \E request : FinishGetAssertion(request, 0)
        BY <3>4, <4>1
      <4>2. CASE Wait(Command("Probe")) \/ Respond("error")
        BY <3>1, <3>2, <4>2
      <4>3. ASSUME NEW uv, NEW creds,
                   Wait([name |-> "GetAssertion", has_uv |-> uv, listed |-> with_list,
                         creds |-> creds])
            PROVE  FALSE
        BY <1>1, <4>3 DEF Wait
      <4> QED
        BY <3>5, <4>1, <4>2, <4>3, Zenon DEF process_get_assertion
    <3>6. ASSUME NEW rp_id, process_register(rp_id)
          PROVE  FALSE
      BY <3>2, <3>6 DEF process_register, Issue
    <3>7. ASSUME NEW rp_id, NEW id, NEW check_only, process_authenticate(rp_id, id, check_only)
          PROVE  FALSE
      BY <1>1, <3>2, <3>7 DEF process_authenticate, Sign
    <3>8. ASSUME NEW material, NEW lockdown, process_vendor_configure(material, lockdown)
          PROVE  FALSE
      BY <1>1, <3>8 DEF process_vendor_configure, Wait
    <3>9. ~(OtherCommand \/ process_get_info \/ process_selection)
      BY <3>1, <3>2 DEF OtherCommand, process_get_info, process_selection
    <3>10. ~process_get_next_assertion
      BY <1>1, <3>2 DEF process_get_next_assertion, assertion_response, Sign
    <3>11. Request
      BY <1>1
      DEF Next, vars, running, Touch, NoTouch, Tick, ResetClear, ResetInit, UpdateFails,
          set_attestation_certificate, set_attestation_private_key, PowerLoss
    <3> QED
      BY <3>3, <3>5, <3>6, <3>7, <3>8, <3>9, <3>10, <3>11 DEF Request
  <2>2. stateful_command_type = "Reset" /\ permission > 0
    BY <1>1, <2>1 DEF process_reset, Respond
  <2>3. /\ quiet /\ permission + uptime <= RESET_TIMEOUT
        /\ permission \in Nat /\ uptime \in Nat /\ RESET_TIMEOUT \in Nat
    BY <1>1, <2>2, AuthenticatorAssumption DEF AuthInv, BootInv, TypeInv
  <2> QED
    BY <2>2, <2>3
<1> QED
  BY AuthInvariant, <1>1, PTL DEF Spec, ResetOnlyAfterBoot

=============================================================================
