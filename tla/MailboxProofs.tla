--------------------------- MODULE MailboxProofs ---------------------------
(***************************************************************************)
(* What the mailer client promises an application, for any mailboxes and   *)
(* purposes and any number of challenges, lost answers and refetched       *)
(* configurations.                                                         *)
(***************************************************************************)
EXTENDS MailboxProof, SequenceTheorems, TLAPS

Challenge == [kind : {"otp", "id_token"}, mailbox : Mailbox,
       purpose : Purpose, state : {"open", "granted", "used"},
       asked : Ask \cup {NotAsked}, heard : BOOLEAN, unheard : BOOLEAN]

Ids == 1 .. Len(challenges)

\* The client was told of challenge id as the one-time code for m and p.
Told(id, m, p) == /\ challenges[id].kind = "otp"
                  /\ challenges[id].mailbox = m
                  /\ challenges[id].purpose = p
                  /\ challenges[id].heard

\* What the client remembers of its challenges.
NewestRemembered ==
  \A m \in Mailbox, p \in Purpose :
    LET id == otp_challenge_ids[KeyOf(m, p)] IN
      /\ id # 0 => id \in Ids /\ Told(id, m, p)
      /\ \A x \in Ids : Told(x, m, p) => x <= id

IdTokensKnown ==
  \A known \in challenge_mailboxes :
    known[1] \in Ids /\ challenges[known[1]].kind = "id_token"

\* The configuration that is fetched replaces one that is no longer served,
\* and one that is served is no older than its max-age and its way here.
ConfigIsRead ==
  /\ id_token_config = NoConfig => id_token_config_until = NoTime
  /\ fetch # NoConfig => /\ id_token_config_until <= now
                         /\ now <= fetch.at + MaxDelay
  /\ id_token_config # NoConfig /\ now < id_token_config_until =>
       /\ id_token_config.max_age < Overflow
       /\ id_token_config_until
            <= id_token_config.at + id_token_config.max_age + MaxDelay

ProofType == /\ challenges \in Seq(Challenge)
             /\ otp_challenge_ids \in
                  [{KeyOf(m, p) : m \in Mailbox, p \in Purpose}
                     -> 0 .. Len(challenges)]
             /\ challenge_mailboxes \subseteq Ids \X Mailbox
             /\ faults \in 0 .. MaxFaults

ConfigType == /\ now \in 0 .. MaxTime
              /\ {id_token_config, fetch} \subseteq Config \cup {NoConfig}
              /\ id_token_config_until \in {NoTime} \cup Nat

ProofInv == /\ ProofType
            /\ NewestRemembered
            /\ IdTokensKnown
            /\ GrantFitsItsCall
            /\ RightAnswerIsGranted

Inv == ProofInv /\ ConfigType /\ ConfigIsRead

\* The two halves of the state are typed as the module says.
LEMMA TypeSplits == TypeOK <=> ProofType /\ ConfigType
<1>1. challenges \in Seq(Challenge) => DOMAIN challenges = Ids
  BY DEF Ids
<1> QED
  BY <1>1 DEF TypeOK, ProofType, ConfigType, Challenge

-----------------------------------------------------------------------------
(* Requests for a challenge.                                               *)

\* A challenge is made open, and for what it was asked for.
LEMMA MadeOpen ==
  ASSUME NEW kind, NEW m, NEW p, NEW heard \in BOOLEAN
  PROVE  /\ Made(kind, m, p, heard).kind = kind
         /\ Made(kind, m, p, heard).mailbox = m
         /\ Made(kind, m, p, heard).purpose = p
         /\ Made(kind, m, p, heard).heard <=> heard
         /\ Made(kind, m, p, heard).state = "open"
<1>1. CASE heard = TRUE
  BY <1>1 DEF Made
<1>2. CASE heard = FALSE
  BY <1>2 DEF Made
<1> QED
  BY <1>1, <1>2

\* The mailer's new challenges come after the ones there are, and the client
\* is told of at most one of them.
LEMMA MakesChallenges ==
  ASSUME ProofType, NEW kind \in {"otp", "id_token"}, NEW m \in Mailbox,
         NEW p \in Purpose, NEW made \in 1 .. 2, NEW heard \in 0 .. 2,
         MailerMakes(kind, m, p, made, heard)
  PROVE  /\ challenges' \in Seq(Challenge)
         /\ Len(challenges') = Len(challenges) + made
         /\ \A i \in Ids : challenges'[i] = challenges[i]
         /\ \A i \in Ids' \ Ids :
              /\ challenges'[i].kind = kind
              /\ challenges'[i].mailbox = m
              /\ challenges'[i].purpose = p
              /\ challenges'[i].heard <=> i = Len(challenges) + heard
              /\ challenges'[i].state = "open"
         /\ faults' \in 0 .. MaxFaults
<1> DEFINE new == [i \in 1 .. made |-> Made(kind, m, p, i = heard)]
<1>1. new \in Seq(Challenge) /\ Len(new) = made
  <2>1. \A i \in 1 .. made : Made(kind, m, p, i = heard) \in Challenge
    BY DEF Made, Challenge
  <2>2. new \in [1 .. made -> Challenge]
    BY <2>1
  <2> HIDE DEF new
  <2> QED
    BY <2>2
<1>2. \A i \in 1 .. made :
        /\ new[i].kind = kind
        /\ new[i].mailbox = m
        /\ new[i].purpose = p
        /\ new[i].heard <=> i = heard
        /\ new[i].state = "open"
  <2> SUFFICES ASSUME NEW i \in 1 .. made
               PROVE  <1>2!(i)
    OBVIOUS
  <2>1. PICK told \in BOOLEAN : told <=> i = heard
    OBVIOUS
  <2>2. new[i] = Made(kind, m, p, told)
    BY <2>1
  <2> HIDE DEF new
  <2> QED
    BY <2>1, <2>2, MadeOpen
<1>3. challenges' = challenges \o new /\ faults' \in 0 .. MaxFaults
  BY MailboxAssumption DEF MailerMakes, ProofType
<1> HIDE DEF new
<1>4. /\ challenges' \in Seq(Challenge)
      /\ Len(challenges') = Len(challenges) + made
      /\ \A i \in 1 .. Len(challenges) + made : challenges'[i] =
           IF i <= Len(challenges) THEN challenges[i]
                                   ELSE new[i - Len(challenges)]
  BY <1>1, <1>3, ConcatProperties DEF ProofType
<1>5. Len(challenges) \in Nat
  BY DEF ProofType
<1>6. \A i \in Ids : challenges'[i] = challenges[i]
  BY <1>4, <1>5 DEF Ids
<1>7. ASSUME NEW i \in Ids' \ Ids
      PROVE  /\ challenges'[i].kind = kind
             /\ challenges'[i].mailbox = m
             /\ challenges'[i].purpose = p
             /\ challenges'[i].heard <=> i = Len(challenges) + heard
             /\ challenges'[i].state = "open"
  <2>1. PICK j \in 1 .. made : i = Len(challenges) + j
    <3>1. i \in 1 .. Len(challenges) + made /\ ~(i <= Len(challenges))
      BY <1>4, <1>5 DEF Ids
    <3>2. i - Len(challenges) \in 1 .. made
      BY <1>5, <3>1
    <3> QED
      BY <1>5, <3>1, <3>2
  <2>2. challenges'[i] = new[j]
    <3>1. i \in 1 .. Len(challenges) + made /\ ~(i <= Len(challenges))
      BY <1>5, <2>1
    <3>2. i - Len(challenges) = j
      BY <1>5, <2>1
    <3> QED
      BY <1>4, <3>1, <3>2
  <2>3. i = Len(challenges) + heard <=> j = heard
    BY <1>5, <2>1
  <2>4. challenges'[i].heard <=> new[j].heard
    BY <2>2
  <2>5. new[j].heard <=> j = heard
    BY <1>2
  <2>6. /\ challenges'[i].kind = kind
        /\ challenges'[i].mailbox = m
        /\ challenges'[i].purpose = p
        /\ challenges'[i].state = "open"
    BY <1>2, <2>2
  <2> QED
    BY <2>3, <2>4, <2>5, <2>6
<1> QED
  BY <1>3, <1>4, <1>6, <1>7

\* So nothing that was granted or answered changes.
LEMMA OldGrantsFit ==
  ASSUME ProofInv, challenges' \in Seq(Challenge),
         \A i \in Ids : challenges'[i] = challenges[i],
         \A i \in Ids' \ Ids : challenges'[i].state = "open"
  PROVE  GrantFitsItsCall' /\ RightAnswerIsGranted'
<1>1. DOMAIN challenges = Ids /\ DOMAIN challenges' = Ids'
  BY DEF ProofInv, ProofType, Ids
<1> QED
  BY <1>1 DEF ProofInv, GrantFitsItsCall, RightAnswerIsGranted

\* Keys tell mailboxes and purposes apart.
LEMMA KeysDiffer ==
  ASSUME NEW m, NEW p, NEW n, NEW q, KeyOf(m, p) = KeyOf(n, q)
  PROVE  m = n /\ p = q
  BY DEF KeyOf

\* A code request is remembered under its mailbox and purpose, in the place
\* of the challenge before it.
LEMMA RequestOtpInv ==
  ASSUME ProofInv, NEW m \in Mailbox, NEW p \in Purpose, RequestOtp(m, p)
  PROVE  ProofInv'
<1> USE DEF ProofInv
<1>1. PICK made \in 1 .. 2, heard \in 0 .. 2 :
        /\ heard <= made
        /\ MailerMakes("otp", m, p, made, heard)
        /\ otp_challenge_ids' =
             IF heard = 0 THEN otp_challenge_ids
                          ELSE Remember(m, p, Len(challenges) + heard)
  BY DEF RequestOtp
<1>2. UNCHANGED challenge_mailboxes
  BY DEF RequestOtp
<1>3. /\ challenges' \in Seq(Challenge)
      /\ Len(challenges') = Len(challenges) + made
      /\ \A i \in Ids : challenges'[i] = challenges[i]
      /\ \A i \in Ids' \ Ids :
           /\ challenges'[i].kind = "otp"
           /\ challenges'[i].mailbox = m
           /\ challenges'[i].purpose = p
           /\ challenges'[i].heard <=> i = Len(challenges) + heard
           /\ challenges'[i].state = "open"
      /\ faults' \in 0 .. MaxFaults
  BY <1>1, MakesChallenges
<1>4. Len(challenges) \in Nat /\ Ids \subseteq Ids'
  BY <1>3 DEF ProofType, Ids
<1>5. /\ \A n \in Mailbox, q \in Purpose : otp_challenge_ids'[KeyOf(n, q)] =
           IF heard # 0 /\ n = m /\ q = p THEN Len(challenges) + heard
                                          ELSE otp_challenge_ids[KeyOf(n, q)]
      /\ otp_challenge_ids' \in
           [{KeyOf(n, q) : n \in Mailbox, q \in Purpose} -> 0 .. Len(challenges')]
  <2> DEFINE K == {KeyOf(n, q) : n \in Mailbox, q \in Purpose}
  <2>1. otp_challenge_ids \in [K -> 0 .. Len(challenges)] /\ KeyOf(m, p) \in K
    BY DEF ProofType
  <2>2. \A n \in Mailbox, q \in Purpose :
          KeyOf(n, q) \in K /\ (KeyOf(n, q) = KeyOf(m, p) <=> n = m /\ q = p)
    BY KeysDiffer
  <2> HIDE DEF K
  <2>3. CASE heard = 0
    BY <1>1, <1>3, <1>4, <2>1, <2>3 DEF K
  <2>4. CASE heard # 0
    <3>1. otp_challenge_ids' =
            [otp_challenge_ids EXCEPT ![KeyOf(m, p)] = Len(challenges) + heard]
      BY <1>1, <2>4 DEF Remember
    <3>2. Len(challenges) + heard \in 0 .. Len(challenges')
      BY <1>1, <1>3, <1>4
    <3>3. otp_challenge_ids' \in [K -> 0 .. Len(challenges')]
      BY <1>3, <1>4, <2>1, <3>1, <3>2
    <3>4. ASSUME NEW n \in Mailbox, NEW q \in Purpose
          PROVE  otp_challenge_ids'[KeyOf(n, q)] =
                   IF n = m /\ q = p THEN Len(challenges) + heard
                                    ELSE otp_challenge_ids[KeyOf(n, q)]
      <4>1. KeyOf(n, q) \in K /\ (KeyOf(n, q) = KeyOf(m, p) <=> n = m /\ q = p)
        BY <2>2
      <4> QED
        BY <2>1, <3>1, <4>1
    <3> QED
      BY <2>4, <3>3, <3>4 DEF K
  <2> QED
    BY <2>3, <2>4
<1>6. ProofType'
  BY <1>2, <1>3, <1>4, <1>5 DEF ProofType
<1>7. NewestRemembered'
  <2> SUFFICES ASSUME NEW n \in Mailbox, NEW q \in Purpose
               PROVE  NewestRemembered!(n, q)'
    BY DEF NewestRemembered
  <2> DEFINE old == otp_challenge_ids[KeyOf(n, q)]
  <2>1. /\ old \in 0 .. Len(challenges)
        /\ old # 0 => old \in Ids /\ Told(old, n, q)
        /\ \A x \in Ids : Told(x, n, q) => x <= old
    <3>1. KeyOf(n, q) \in {KeyOf(a, b) : a \in Mailbox, b \in Purpose}
      OBVIOUS
    <3> QED
      BY <3>1 DEF ProofType, NewestRemembered
  <2>2. \A x \in Ids : Told(x, n, q)' <=> Told(x, n, q)
    BY <1>3 DEF Told
  <2>3. \A x \in Ids' \ Ids : Told(x, n, q)'
          <=> n = m /\ q = p /\ x = Len(challenges) + heard
    BY <1>3 DEF Told
  <2>4. \A x \in Ids : x <= Len(challenges)
    BY <1>4 DEF Ids
  <2>5. CASE heard # 0 /\ n = m /\ q = p
    <3>1. /\ otp_challenge_ids'[KeyOf(n, q)] = Len(challenges) + heard
          /\ Len(challenges) + heard \in Ids' \ Ids
      BY <1>1, <1>3, <1>4, <1>5, <2>5 DEF Ids
    <3>2. \A x \in Ids' : Told(x, n, q)' => x <= Len(challenges) + heard
      BY <1>4, <2>3, <2>4 DEF Ids
    <3> QED
      BY <1>4, <2>3, <2>5, <3>1, <3>2 DEF Told
  <2>6. CASE ~(heard # 0 /\ n = m /\ q = p)
    <3>1. otp_challenge_ids'[KeyOf(n, q)] = old
      BY <1>5, <2>6
    <3>2. \A x \in Ids' \ Ids : ~Told(x, n, q)'
      BY <1>3, <1>4, <2>3, <2>6 DEF Ids
    <3> QED
      BY <1>4, <2>1, <2>2, <3>1, <3>2 DEF Told
  <2> QED
    BY <2>5, <2>6
<1>8. IdTokensKnown'
  BY <1>2, <1>3, <1>4 DEF IdTokensKnown
<1>9. GrantFitsItsCall' /\ RightAnswerIsGranted'
  BY <1>3, OldGrantsFit
<1> QED
  BY <1>6, <1>7, <1>8, <1>9

\* An ID-token challenge is no one-time code.
LEMMA CreateIdTokenInv ==
  ASSUME ProofInv, NEW m \in Mailbox, NEW p \in Purpose,
         CreateIdTokenChallenge(m, p)
  PROVE  ProofInv'
<1> USE DEF ProofInv
<1>1. PICK made \in 1 .. 2, heard \in 0 .. 2 :
        /\ heard <= made
        /\ MailerMakes("id_token", m, p, made, heard)
        /\ challenge_mailboxes' = challenge_mailboxes \cup
             (IF heard = 0 THEN {} ELSE {<<Len(challenges) + heard, m>>})
  BY DEF CreateIdTokenChallenge
<1>2. UNCHANGED otp_challenge_ids
  BY DEF CreateIdTokenChallenge
<1>3. /\ challenges' \in Seq(Challenge)
      /\ Len(challenges') = Len(challenges) + made
      /\ \A i \in Ids : challenges'[i] = challenges[i]
      /\ \A i \in Ids' \ Ids :
           /\ challenges'[i].kind = "id_token"
           /\ challenges'[i].mailbox = m
           /\ challenges'[i].purpose = p
           /\ challenges'[i].heard <=> i = Len(challenges) + heard
           /\ challenges'[i].state = "open"
      /\ faults' \in 0 .. MaxFaults
  BY <1>1, MakesChallenges
<1>4. Len(challenges) \in Nat /\ Ids \subseteq Ids'
  BY <1>3 DEF ProofType, Ids
<1>5. heard # 0 => Len(challenges) + heard \in Ids' \ Ids
  BY <1>1, <1>3, <1>4 DEF Ids
<1>6. ProofType'
  <2>1. otp_challenge_ids' \in
          [{KeyOf(n, q) : n \in Mailbox, q \in Purpose} -> 0 .. Len(challenges')]
    BY <1>2, <1>3, <1>4 DEF ProofType
  <2>2. challenge_mailboxes' \subseteq Ids' \X Mailbox
    BY <1>1, <1>4, <1>5 DEF ProofType
  <2> QED
    BY <1>3, <2>1, <2>2 DEF ProofType
<1>7. NewestRemembered'
  <2>1. \A x \in Ids' \ Ids, n \in Mailbox, q \in Purpose : ~Told(x, n, q)'
    BY <1>3 DEF Told
  <2>2. \A x \in Ids, n \in Mailbox, q \in Purpose :
          Told(x, n, q)' <=> Told(x, n, q)
    BY <1>3 DEF Told
  <2> SUFFICES ASSUME NEW n \in Mailbox, NEW q \in Purpose
               PROVE  NewestRemembered!(n, q)'
    BY DEF NewestRemembered
  <2>0. PICK id : id = otp_challenge_ids[KeyOf(n, q)]
    OBVIOUS
  <2>3. /\ id # 0 => id \in Ids /\ Told(id, n, q)
        /\ \A x \in Ids : Told(x, n, q) => x <= id
    BY <2>0 DEF NewestRemembered
  <2>4. otp_challenge_ids'[KeyOf(n, q)] = id
    BY <1>2, <2>0
  <2>5. id # 0 => Told(id, n, q)'
    BY <2>2, <2>3
  <2>6. \A x \in Ids' : Told(x, n, q)' => x <= id
    BY <2>1, <2>2, <2>3
  <2> QED
    BY <1>4, <2>3, <2>4, <2>5, <2>6 DEF Told
<1>8. IdTokensKnown'
  BY <1>1, <1>3, <1>4, <1>5 DEF IdTokensKnown
<1>9. GrantFitsItsCall' /\ RightAnswerIsGranted'
  BY <1>3, OldGrantsFit
<1> QED
  BY <1>6, <1>7, <1>8, <1>9

-----------------------------------------------------------------------------
(* Answers to a challenge.                                                 *)

\* The mailer's answer settles one challenge, and names in it what was asked.
LEMMA GrantInv ==
  ASSUME ProofInv, NEW id \in Ids, NEW ask \in Ask, MailerGrants(id, ask),
         UNCHANGED <<otp_challenge_ids, challenge_mailboxes>>,
         ask.mailbox = challenges[id].mailbox,
         challenges[id].kind = "otp" => ask.purpose = challenges[id].purpose
  PROVE  ProofInv'
<1> USE DEF ProofInv
<1>1. challenges[id] \in Challenge /\ challenges \in Seq(Challenge)
  BY DEF ProofType, Ids
<1>2. PICK ch \in Challenge :
        /\ challenges' = [challenges EXCEPT ![id] = ch]
        /\ ch.kind = challenges[id].kind
        /\ ch.mailbox = challenges[id].mailbox
        /\ ch.purpose = challenges[id].purpose
        /\ ch.heard = challenges[id].heard
        /\ \/ ch.state = "used" /\ ch.unheard
           \/ /\ ch.asked = ask
              /\ ch.state = IF ParseGrant(ask.purpose, ch.purpose)
                            THEN "granted" ELSE "used"
  <2>1. CASE challenges' = [challenges EXCEPT ![id] =
               IF ParseGrant(ask.purpose, challenges[id].purpose)
                 THEN [challenges[id] EXCEPT !.state = "granted", !.asked = ask]
                 ELSE [challenges[id] EXCEPT !.state = "used", !.asked = ask]]
    <3>1. CASE ParseGrant(ask.purpose, challenges[id].purpose)
      <4> DEFINE new == [challenges[id] EXCEPT !.state = "granted",
                                               !.asked = ask]
      <4>1. new \in Challenge
        BY <1>1 DEF Challenge
      <4> QED
        BY <1>1, <2>1, <3>1, <4>1 DEF Challenge
    <3>2. CASE ~ParseGrant(ask.purpose, challenges[id].purpose)
      <4> DEFINE new == [challenges[id] EXCEPT !.state = "used",
                                               !.asked = ask]
      <4>1. new \in Challenge
        BY <1>1 DEF Challenge
      <4> QED
        BY <1>1, <2>1, <3>2, <4>1 DEF Challenge
    <3> QED
      BY <3>1, <3>2
  <2>2. CASE challenges' = [challenges EXCEPT
               ![id] = [challenges[id] EXCEPT !.state = "used",
                                              !.unheard = TRUE]]
    <3> DEFINE new == [challenges[id] EXCEPT !.state = "used",
                                             !.unheard = TRUE]
    <3>1. new \in Challenge
      BY <1>1 DEF Challenge
    <3> QED
      BY <1>1, <2>2, <3>1 DEF Challenge
  <2> QED
    BY <2>1, <2>2 DEF MailerGrants
<1>3. /\ challenges' \in Seq(Challenge) /\ Ids' = Ids
      /\ Len(challenges') = Len(challenges)
      /\ challenges'[id] = ch
      /\ \A i \in Ids : i # id => challenges'[i] = challenges[i]
      /\ DOMAIN challenges = Ids /\ DOMAIN challenges' = Ids
  BY <1>1, <1>2 DEF Ids
<1>4. faults' \in 0 .. MaxFaults
  BY MailboxAssumption DEF MailerGrants, ProofType
<1>5. ProofType'
  BY <1>3, <1>4 DEF ProofType
<1>6. NewestRemembered' /\ IdTokensKnown'
  <2>1. \A i \in Ids : /\ challenges'[i].kind = challenges[i].kind
                       /\ challenges'[i].mailbox = challenges[i].mailbox
                       /\ challenges'[i].purpose = challenges[i].purpose
                       /\ challenges'[i].heard = challenges[i].heard
    BY <1>2, <1>3
  <2> QED
    BY <1>3, <2>1 DEF NewestRemembered, IdTokensKnown, Told
<1>7. GrantFitsItsCall'
  BY <1>2, <1>3 DEF GrantFitsItsCall, ParseGrant, is_vault_purpose
<1>8. RightAnswerIsGranted'
  <2>1. ch.state = "used" /\ ~ch.unheard =>
          /\ ch.kind = "id_token"
          /\ ch.asked.purpose \in VaultPurpose
          /\ ch.purpose \in OtherPurpose
    BY <1>2 DEF ParseGrant, is_vault_purpose, Challenge, Purpose
  <2> QED
    BY <1>2, <1>3, <2>1 DEF RightAnswerIsGranted
<1> QED
  BY <1>5, <1>6, <1>7, <1>8

\* The code that is typed is compared with the challenge remembered for this
\* mailbox and purpose; an ID token is taken to the mailbox of its challenge.
LEMMA VerifyInv ==
  ASSUME ProofInv,
         \/ \E m \in Mailbox, p \in Purpose, code \in DOMAIN challenges :
              VerifyOtp(m, p, code)
         \/ \E p \in Purpose, id \in DOMAIN challenges : VerifyIdToken(id, p)
  PROVE  ProofInv'
<1> USE DEF ProofInv
<1>1. DOMAIN challenges = Ids
  BY DEF ProofType, Ids
<1>2. ASSUME NEW m \in Mailbox, NEW p \in Purpose, NEW code \in Ids,
             VerifyOtp(m, p, code)
      PROVE  ProofInv'
  <2>1. [mailbox |-> m, purpose |-> p] \in Ask
    BY DEF Ask
  <2>2. Told(code, m, p)
    BY <1>2 DEF VerifyOtp, NewestRemembered, Ids
  <2> QED
    BY <1>2, <2>1, <2>2, GrantInv DEF VerifyOtp, Told
<1>3. ASSUME NEW p \in Purpose, NEW id \in Ids, VerifyIdToken(id, p)
      PROVE  ProofInv'
  <2>1. PICK known \in challenge_mailboxes :
          /\ known[1] = id
          /\ known[2] = challenges[id].mailbox
          /\ MailerGrants(id, [mailbox |-> known[2], purpose |-> p])
    BY <1>3 DEF VerifyIdToken
  <2>2. /\ [mailbox |-> known[2], purpose |-> p] \in Ask
        /\ challenges[id].kind = "id_token"
    BY <2>1 DEF Ask, ProofType, IdTokensKnown
  <2> QED
    BY <1>3, <2>1, <2>2, GrantInv DEF VerifyIdToken
<1> QED
  BY <1>1, <1>2, <1>3

-----------------------------------------------------------------------------
(* The configuration.                                                      *)

\* Fetching and storing the configuration, while time goes on.
LEMMA ConfigureInv ==
  ASSUME ConfigType, ConfigIsRead, Configure
  PROVE  ConfigType' /\ ConfigIsRead'
<1> USE MailboxAssumption DEF NoTime
<1>1. CASE AskConfig
  <2>1. PICK age \in MaxAge : fetch' = [at |-> now, max_age |-> age]
    BY <1>1 DEF AskConfig
  <2>2. UNCHANGED <<now, id_token_config, id_token_config_until>>
    BY <1>1 DEF AskConfig
  <2>3. [at |-> now, max_age |-> age] \in Config
    BY DEF ConfigType, Config
  <2>4. ConfigType'
    BY <2>1, <2>2, <2>3 DEF ConfigType
  <2>5. id_token_config = NoConfig => id_token_config_until <= now
    BY DEF ConfigIsRead, ConfigType
  <2> QED
    BY <1>1, <2>1, <2>2, <2>4, <2>5
       DEF AskConfig, Cached, ConfigType, ConfigIsRead
<1>2. CASE ReadConfig
  <2>1. /\ fetch \in Config /\ fetch # NoConfig
        /\ fetch' = NoConfig /\ UNCHANGED now
    BY <1>2 DEF ReadConfig, ConfigType
  <2>2. CASE UNCHANGED <<id_token_config, id_token_config_until>>
    BY <2>1, <2>2 DEF ConfigType, ConfigIsRead
  <2>3. CASE StoreConfig
    <3>1. /\ fetch.at \in 0 .. MaxTime /\ fetch.max_age \in Nat
          /\ fetch # NoConfig /\ now \in Nat
          /\ id_token_config_until <= now
          /\ now <= fetch.at + MaxDelay
      <4>1. fetch.at \in 0 .. MaxTime /\ fetch.max_age \in MaxAge
        BY <2>1 DEF Config
      <4>2. now \in Nat
        BY DEF ConfigType
      <4> QED
        BY <2>1, <4>1, <4>2 DEF ConfigIsRead
    <3>2. id_token_config' = fetch
      BY <2>3 DEF StoreConfig
    <3>3. CASE UNCHANGED id_token_config_until
      BY <2>1, <3>1, <3>2, <3>3 DEF ConfigType, ConfigIsRead
    <3>4. CASE /\ fetch.max_age < Overflow
               /\ id_token_config_until' = now + fetch.max_age
      BY <2>1, <3>1, <3>2, <3>4 DEF ConfigType, ConfigIsRead
    <3> QED
      BY <2>3, <3>1, <3>3, <3>4 DEF StoreConfig, Until
  <2> QED
    BY <1>2, <2>2, <2>3 DEF ReadConfig
<1>3. CASE Tick
  <2>1. /\ now' = now + 1 /\ now' \in 0 .. MaxTime
        /\ fetch # NoConfig => now' <= fetch.at + MaxDelay
        /\ UNCHANGED <<id_token_config, id_token_config_until, fetch>>
    BY <1>3 DEF Tick, ConfigType, Config
  <2> QED
    BY <2>1 DEF ConfigType, ConfigIsRead
<1> QED
  BY <1>1, <1>2, <1>3 DEF Configure

-----------------------------------------------------------------------------
(* The invariant and what follows from it.                                 *)

\* It holds before anything was asked for,
LEMMA InitInv == Init => Inv
<1> SUFFICES ASSUME Init
             PROVE  Inv
  OBVIOUS
<1> USE MailboxAssumption DEF Init
<1>1. Ids = {} /\ DOMAIN challenges = {} /\ Len(challenges) = 0
  BY DEF Ids
<1>2. ProofType
  BY <1>1 DEF ProofType
<1>3. NewestRemembered /\ IdTokensKnown
  BY <1>1 DEF NewestRemembered, IdTokensKnown
<1>4. GrantFitsItsCall /\ RightAnswerIsGranted
  BY <1>1 DEF GrantFitsItsCall, RightAnswerIsGranted
<1>5. ConfigType /\ ConfigIsRead
  BY DEF ConfigType, ConfigIsRead, NoTime
<1> QED
  BY <1>2, <1>3, <1>4, <1>5 DEF Inv, ProofInv

\* over steps that leave the challenges alone,
LEMMA ProofsKept == ProofInv /\ UNCHANGED proofs => ProofInv'
  BY DEF proofs, ProofInv, ProofType, NewestRemembered, IdTokensKnown, Ids,
         Told, GrantFitsItsCall, RightAnswerIsGranted

\* or the configuration,
LEMMA ConfigKept ==
  ConfigType /\ ConfigIsRead /\ UNCHANGED config
    => ConfigType' /\ ConfigIsRead'
  BY DEF config, ConfigType, ConfigIsRead

\* and so always.
THEOREM Invariance == Spec => []Inv
<1>1. Inv /\ [Next]_vars => Inv'
  <2> SUFFICES ASSUME Inv, [Next]_vars
               PROVE  Inv'
    OBVIOUS
  <2>1. CASE Prove
    <3>1. ProofInv'
      BY <2>1, RequestOtpInv, CreateIdTokenInv, VerifyInv DEF Prove, Inv
    <3>2. UNCHANGED config
      BY <2>1 DEF Prove, RequestOtp, CreateIdTokenChallenge, VerifyOtp,
                  VerifyIdToken
    <3> QED
      BY <3>1, <3>2, ConfigKept DEF Inv
  <2>2. CASE Configure
    <3>1. UNCHANGED proofs
      BY <2>2 DEF Configure, AskConfig, ReadConfig, Tick
    <3> QED
      BY <2>2, <3>1, ConfigureInv, ProofsKept DEF Inv
  <2>3. CASE UNCHANGED vars
    BY <2>3, ConfigKept, ProofsKept DEF Inv, vars
  <2> QED
    BY <2>1, <2>2, <2>3 DEF Next
<1> QED
  BY <1>1, InitInv, PTL DEF Spec

\* Challenges, what the client remembers of them and its configuration are
\* always well typed.
THEOREM TypeCorrect == Spec => []TypeOK
<1>1. Inv => TypeOK
  BY TypeSplits DEF Inv, ProofInv
<1> QED
  BY <1>1, Invariance, PTL

\* verify_otp returns a grant only for the mailbox and the purpose it was called
\* with. verify_id_token returns one only for the mailbox, and asked for the
\* vault only one of the vault, though it may be that of another operation.
THEOREM GrantsFit == Spec => []GrantFitsItsCall
<1>1. Inv => GrantFitsItsCall
  BY DEF Inv, ProofInv
<1> QED
  BY <1>1, Invariance, PTL

\* A right answer is lost only with the mailer's reply, or where the vault is
\* asked for with another operation's ID-token challenge.
THEOREM RightAnswersCount == Spec => []RightAnswerIsGranted
<1>1. Inv => RightAnswerIsGranted
  BY DEF Inv, ProofInv
<1> QED
  BY <1>1, Invariance, PTL

\* The challenge that otp_challenge_ids holds is the newest one heard of.
THEOREM NewestIsAnswered == Spec => []RememberedIsNewest
<1>1. Inv => RememberedIsNewest
  <2> SUFFICES ASSUME Inv, NEW m \in Mailbox, NEW p \in Purpose
               PROVE  RememberedIsNewest!(m, p)
    BY DEF RememberedIsNewest
  <2> DEFINE id == otp_challenge_ids[KeyOf(m, p)]
             heard == {x \in DOMAIN challenges : Told(x, m, p)}
  <2>1. DOMAIN challenges = Ids /\ Ids \subseteq Nat \ {0}
    BY DEF Inv, ProofInv, ProofType, Ids
  <2>2. /\ id # 0 => id \in heard
        /\ \A x \in heard : x <= id
    BY <2>1 DEF Inv, ProofInv, NewestRemembered
  <2>3. id \in Nat
    <3>1. KeyOf(m, p) \in {KeyOf(n, q) : n \in Mailbox, q \in Purpose}
      OBVIOUS
    <3> QED
      BY <3>1 DEF Inv, ProofInv, ProofType
  <2>4. heard \subseteq Nat \ {0}
    BY <2>1
  <2> HIDE DEF id, heard
  <2>5. heard = {} => id = 0
    BY <2>2
  <2>6. heard # {} => id = Max(heard)
    <3> SUFFICES ASSUME heard # {}
                 PROVE  id = Max(heard)
      OBVIOUS
    <3>1. id \in heard
      <4>1. PICK y \in heard : y <= id
        BY <2>2
      <4>2. id # 0
        BY <2>3, <2>4, <4>1
      <4> QED
        BY <2>2, <4>2
    <3>2. \A y \in heard : id >= y
      BY <2>2, <2>3, <2>4
    <3>3. Max(heard) \in heard /\ \A y \in heard : Max(heard) >= y
      BY <3>1, <3>2 DEF Max
    <3>4. PICK top \in heard : top = Max(heard) /\ top >= id
      BY <3>1, <3>3
    <3>5. id \in Nat /\ top \in Nat /\ id >= top
      BY <2>4, <3>1, <3>2
    <3> QED
      BY <3>4, <3>5
  <2> QED
    BY <2>5, <2>6 DEF id, heard, Told
<1> QED
  BY <1>1, Invariance, PTL

\* fetch_id_token_config never serves a configuration past its max-age.
THEOREM ServedIsFresh == Spec => []CachedConfigIsFresh
<1>1. Inv => CachedConfigIsFresh
  <2> SUFFICES ASSUME Inv, Cached
               PROVE  CachedConfigIsFresh
    BY DEF CachedConfigIsFresh
  <2>1. id_token_config \in Config /\ now \in Nat
        /\ id_token_config_until \in Nat
    <3>1. id_token_config # NoConfig /\ id_token_config_until # NoTime
      BY DEF Cached
    <3> QED
      BY <3>1, MailboxAssumption DEF Inv, ConfigType
  <2>2. id_token_config.at \in Nat /\ id_token_config.max_age \in Nat
    <3>1. id_token_config.at \in 0 .. MaxTime
          /\ id_token_config.max_age \in MaxAge
      BY <2>1 DEF Config
    <3>2. 0 .. MaxTime \subseteq Nat /\ MaxAge \subseteq Nat
      BY MailboxAssumption
    <3> QED
      BY <3>1, <3>2
  <2> QED
    BY <2>1, <2>2, MailboxAssumption
       DEF Inv, Cached, ConfigIsRead, CachedConfigIsFresh
<1> QED
  BY <1>1, Invariance, PTL
=============================================================================
