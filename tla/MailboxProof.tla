---------------------------- MODULE MailboxProof ----------------------------
(***************************************************************************)
(* How an application proves a mailbox to the mailer: MailerClient of      *)
(* mailer.rs. The client remembers one one-time-code challenge for each    *)
(* mailbox and purpose, the mailbox of each ID-token challenge, and the    *)
(* mailer's ID-token configuration until its max-age has passed.           *)
(*                                                                         *)
(* Every method takes &mut self, so that the calls of a client come one    *)
(* after the other. The transport is DirectoryCalls'; of a request it      *)
(* leaves here how often it took effect and whether its last answer was    *)
(* read. The Rust client sends no Idempotency-Key, so that each attempt    *)
(* that arrives counts.                                                    *)
(*                                                                         *)
(* The mailer is not in the repository: it gives out a grant for the right *)
(* answer to an unused challenge of the mailbox in the path, and names the *)
(* identity in it for the purposes the vault consumes (MailerOtpGrant).    *)
(***************************************************************************)
EXTENDS Integers, Sequences, FiniteSetsExt, TLC

CONSTANTS
  Mailbox,
  VaultPurpose,   \* purposes whose grants the vault consumes
  OtherPurpose,   \* enroll, replace_msk
  MaxAge,         \* values of max-age the mailer may send
  Overflow,       \* the least max-age the clock cannot be moved on by; a
                  \* negative one is as large, once it is cast to u64
  MaxDelay,       \* how long the answer to a request may be on its way
  MaxChallenges,  \* bound: challenges the mailer makes
  MaxFaults,      \* bound: answers that are lost or malformed
  MaxTime         \* bound: the clock

ASSUME MailboxAssumption ==
  /\ VaultPurpose \cap OtherPurpose = {}
  /\ MaxAge \subseteq Nat /\ MaxDelay \in Nat
  /\ Overflow \in Nat /\ Overflow > MaxTime
  /\ MaxChallenges \in Nat /\ MaxFaults \in Nat /\ MaxTime \in Nat

Purpose == VaultPurpose \cup OtherPurpose

VARIABLES
  challenges,          \* the mailer's challenges, in the order it made them
  otp_challenge_ids,   \* the client's, 0 where it has none
  challenge_mailboxes, \* the client's: the ID-token challenges it knows
  faults,
  now,                 \* the client's clock
  id_token_config,     \* the cached configuration: when the mailer gave it out,
                       \* and for how long
  id_token_config_until,
  fetch                \* the mailer's answer to the open request

proofs == <<challenges, otp_challenge_ids, challenge_mailboxes, faults>>
config == <<now, id_token_config, id_token_config_until, fetch>>
vars   == <<proofs, config>>

NoTime == -1
NoConfig == [at |-> NoTime, max_age |-> 0]
Config == [at : 0 .. MaxTime, max_age : MaxAge]
Ask  == [mailbox : Mailbox, purpose : Purpose]
NotAsked == [mailbox |-> "none", purpose |-> "none"]

\* What became of a challenge: "open", answered and its grant with the
\* application, or answered and its grant lost ("used"). asked is the call
\* that got the grant; heard tells whether the client was told its id, and
\* unheard whether an answer to its solution was lost or malformed.
Made(kind, m, p, heard) ==
  [kind |-> kind, mailbox |-> m, purpose |-> p, state |-> "open",
   asked |-> NotAsked, heard |-> heard, unheard |-> FALSE]

\* Mutant: one challenge for each mailbox, whatever its purpose.
KeyWithoutPurpose(m, p) == <<m>>

\* The key under which a challenge is remembered: "{sha}:{purpose}".
KeyOf(m, p) == <<m, p>>

TypeOK ==
  /\ challenges \in Seq([kind : {"otp", "id_token"}, mailbox : Mailbox,
       purpose : Purpose, state : {"open", "granted", "used"},
       asked : Ask \cup {NotAsked}, heard : BOOLEAN, unheard : BOOLEAN])
  /\ otp_challenge_ids \in [{KeyOf(m, p) : m \in Mailbox, p \in Purpose}
                            -> 0 .. Len(challenges)]
  /\ challenge_mailboxes \subseteq (DOMAIN challenges) \X Mailbox
  /\ faults \in 0 .. MaxFaults
  /\ now \in 0 .. MaxTime
  /\ {id_token_config, fetch} \subseteq Config \cup {NoConfig}
  /\ id_token_config_until \in {NoTime} \cup Nat

Init ==
  /\ challenges = <<>>
  /\ otp_challenge_ids =
       [k \in {KeyOf(m, p) : m \in Mailbox, p \in Purpose} |-> 0]
  /\ challenge_mailboxes = {}
  /\ faults = 0
  /\ now = 0
  /\ id_token_config = NoConfig /\ id_token_config_until = NoTime
  /\ fetch = NoConfig

is_vault_purpose(p) == p \in VaultPurpose

-----------------------------------------------------------------------------
(* Requests for a challenge. Each attempt that arrives makes one. The      *)
(* client hears of one of them, or of none where the last answer is lost   *)
(* or cannot be read; an attempt whose answer came too late may arrive     *)
(* after the one that was heard.                                           *)

MailerMakes(kind, m, p, made, heard) ==
  LET lost == IF heard = 0 THEN made ELSE made - 1 IN
    /\ Len(challenges) + made <= MaxChallenges
    /\ faults + lost <= MaxFaults
    /\ faults' = faults + lost
    /\ challenges' = challenges
         \o [i \in 1 .. made |-> Made(kind, m, p, i = heard)]

\* Mutant: the first challenge stays.
RememberFirst(m, p, id) ==
  IF otp_challenge_ids[KeyOf(m, p)] # 0 THEN otp_challenge_ids
  ELSE [otp_challenge_ids EXCEPT ![KeyOf(m, p)] = id]

\* The insert into otp_challenge_ids replaces what is there.
Remember(m, p, id) == [otp_challenge_ids EXCEPT ![KeyOf(m, p)] = id]

RequestOtp(m, p) ==
  /\ \E made \in 1 .. 2, heard \in 0 .. 2 :
       /\ heard <= made
       /\ MailerMakes("otp", m, p, made, heard)
       /\ otp_challenge_ids' =
            IF heard = 0 THEN otp_challenge_ids
                         ELSE Remember(m, p, Len(challenges) + heard)
  /\ UNCHANGED <<challenge_mailboxes, config>>

CreateIdTokenChallenge(m, p) ==
  /\ \E made \in 1 .. 2, heard \in 0 .. 2 :
       /\ heard <= made
       /\ MailerMakes("id_token", m, p, made, heard)
       /\ challenge_mailboxes' = challenge_mailboxes \cup
            (IF heard = 0 THEN {} ELSE {<<Len(challenges) + heard, m>>})
  /\ UNCHANGED <<otp_challenge_ids, config>>

-----------------------------------------------------------------------------
(* Answers to a challenge.                                                 *)

\* Mutant: every grant has to name an identity.
ParseGrantAlways(p, granted) == is_vault_purpose(granted)

\* parse_grant: a grant for the vault has to name an identity, which the
\* mailer does in grants of the vault's purposes.
ParseGrant(p, granted) == is_vault_purpose(p) => is_vault_purpose(granted)

\* The mailer has taken the right answer to challenge id, which the call
\* ask gave. Where its reply is lost, an attempt after it is refused, the
\* challenge being used; a reply that is no grant loses it as well.
MailerGrants(id, ask) ==
  LET ch == challenges[id] IN
  \/ /\ challenges' = [challenges EXCEPT ![id] =
          IF ParseGrant(ask.purpose, ch.purpose)
            THEN [ch EXCEPT !.state = "granted", !.asked = ask]
            ELSE [ch EXCEPT !.state = "used", !.asked = ask]]
     /\ UNCHANGED faults
  \/ /\ faults < MaxFaults
     /\ faults' = faults + 1
     /\ challenges' = [challenges EXCEPT
          ![id] = [ch EXCEPT !.state = "used", !.unheard = TRUE]]

\* The user types the code of some challenge the mailer mailed to m. The
\* mailer compares it with the challenge the client names.
VerifyOtp(m, p, code) ==
  /\ challenges[code].kind = "otp" /\ challenges[code].mailbox = m
  /\ otp_challenge_ids[KeyOf(m, p)] = code
  /\ challenges[code].state = "open"
  /\ MailerGrants(code, [mailbox |-> m, purpose |-> p])
  /\ UNCHANGED <<otp_challenge_ids, challenge_mailboxes, config>>

\* The application has a token with the nonce of challenge id. Nothing ties
\* the purpose it names now to the one the challenge was made for.
VerifyIdToken(id, p) ==
  /\ \E known \in challenge_mailboxes :
       /\ known[1] = id
       /\ known[2] = challenges[id].mailbox
       /\ challenges[id].state = "open"
       /\ MailerGrants(id, [mailbox |-> known[2], purpose |-> p])
  /\ UNCHANGED <<otp_challenge_ids, challenge_mailboxes, config>>

-----------------------------------------------------------------------------
(* The ID-token configuration.                                             *)

Cached == /\ id_token_config # NoConfig
          /\ id_token_config_until # NoTime
          /\ now < id_token_config_until

\* The mailer answers the request with its configuration of the moment. A
\* request that fails here leaves everything as it was: there is no retry.
AskConfig ==
  /\ ~Cached
  /\ fetch = NoConfig
  /\ \E age \in MaxAge : fetch' = [at |-> now, max_age |-> age]
  /\ UNCHANGED <<proofs, now, id_token_config, id_token_config_until>>

\* The time until which an answer read now is served.
Until(max_age) == now + max_age

\* fetch_id_token_config stores the configuration and then its time. Where
\* the addition overflows it panics in between, and the time of an older
\* configuration stays beside the new one.
StoreConfig ==
  /\ id_token_config' = fetch
  /\ IF fetch.max_age >= Overflow
       THEN UNCHANGED id_token_config_until
       ELSE id_token_config_until' = Until(fetch.max_age)

\* Mutant: the time is set before the status and the body are looked at.
ReadConfigTimeFirst ==
  /\ fetch # NoConfig
  /\ fetch' = NoConfig
  /\ \/ StoreConfig
     \/ /\ UNCHANGED id_token_config
        /\ id_token_config_until' = Until(fetch.max_age)
  /\ UNCHANGED <<proofs, now>>

\* A refusal, or a body that is no object, stores nothing.
ReadConfig ==
  /\ fetch # NoConfig
  /\ fetch' = NoConfig
  /\ \/ StoreConfig
     \/ UNCHANGED <<id_token_config, id_token_config_until>>
  /\ UNCHANGED <<proofs, now>>

\* An answer is on its way for at most MaxDelay ticks.
Tick ==
  /\ now < MaxTime
  /\ fetch # NoConfig => now < fetch.at + MaxDelay
  /\ now' = now + 1
  /\ UNCHANGED <<proofs, id_token_config, id_token_config_until, fetch>>

-----------------------------------------------------------------------------
Prove ==
  \/ \E m \in Mailbox, p \in Purpose :
       \/ RequestOtp(m, p)
       \/ CreateIdTokenChallenge(m, p)
       \/ \E code \in DOMAIN challenges : VerifyOtp(m, p, code)
  \/ \E p \in Purpose, id \in DOMAIN challenges : VerifyIdToken(id, p)

Configure == AskConfig \/ ReadConfig \/ Tick

\* &mut self: no call begins while fetch_id_token_config waits.
Next == (fetch = NoConfig /\ Prove) \/ Configure

Spec == Init /\ [][Next]_vars

\* The mailboxes are interchangeable.
MailboxSymmetry == Permutations(Mailbox)

-----------------------------------------------------------------------------
(* Properties.                                                             *)

\* verify_otp and verify_id_token, mailer.rs:252 and 402: a grant that a call
\* returns is for the mailbox the call is about; one that a code earned is for
\* the purpose of the call. One that an ID token earned may be for another:
\* a call for a purpose of the vault returns none that names no identity, but
\* it returns that of another operation of the vault, and a call for any
\* other purpose returns whatever the challenge was made for.
GrantFitsItsCall ==
  \A id \in DOMAIN challenges :
    LET ch == challenges[id] IN ch.state = "granted" =>
      /\ ch.asked.mailbox = ch.mailbox
      /\ ch.kind = "otp" => ch.asked.purpose = ch.purpose
      /\ ch.asked.purpose \in VaultPurpose => ch.purpose \in VaultPurpose

\* request_otp, mailer.rs:246: the challenge that the next code is compared
\* with is the newest one for that mailbox and purpose of which the client
\* was told, after any number of requests, lost answers and other purposes.
RememberedIsNewest ==
  \A m \in Mailbox, p \in Purpose :
    LET heard == {id \in DOMAIN challenges :
                    /\ challenges[id].kind = "otp"
                    /\ challenges[id].mailbox = m
                    /\ challenges[id].purpose = p
                    /\ challenges[id].heard}
    IN  otp_challenge_ids[KeyOf(m, p)] =
          IF heard = {} THEN 0 ELSE Max(heard)

\* verify_otp and parse_grant, mailer.rs:273 and 443: a right answer uses its
\* challenge up. It earns the application a grant unless the mailer's reply
\* was lost, or the application asked for the vault with the ID-token
\* challenge of another operation.
RightAnswerIsGranted ==
  \A id \in DOMAIN challenges :
    LET ch == challenges[id] IN ch.state = "used" =>
      \/ ch.unheard
      \/ /\ ch.kind = "id_token"
         /\ ch.asked.purpose \in VaultPurpose
         /\ ch.purpose \in OtherPurpose

\* fetch_id_token_config, mailer.rs:279 and 339: a configuration is served
\* from the cache only while the mailer's max-age for that configuration
\* lasts, give or take the time its answer was on its way, also after a
\* refetch that failed or panicked half-way.
CachedConfigIsFresh ==
  Cached => /\ id_token_config.max_age < Overflow
            /\ now < id_token_config.at + id_token_config.max_age + MaxDelay
=============================================================================
