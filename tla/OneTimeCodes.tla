------------------------------ MODULE OneTimeCodes ------------------------------
(***************************************************************************)
(* The one-time codes of one user, for the e-mail address, a new password  *)
(* and a phone number, and the phone columns of the profile that they and  *)
(* updateProfile write (auth.service.ts, userVerification.service.ts,      *)
(* user.service.ts, user.controller.ts).  A code is checked first and      *)
(* marked as used by its id in a later transaction.                        *)
(***************************************************************************)
EXTENDS Integers, Sequences, FiniteSets

CONSTANTS
  Phones,
  NoPhone,      \* not a phone number
  CodeSlots,    \* requests being served
  MaxCodes      \* bound: codes ever sent

ASSUME CodesAssumption == NoPhone \notin Phones /\ MaxCodes \in Nat

VARIABLES
  codes,        \* the token rows in the order of createdAt
  emailVerified,\* User.emailVerifiedAt is set
  profile,      \* UserProfile: phone, and whether phoneVerifiedAt is set
  codePc, codeReq,   \* the step a slot takes next; its code or its phone number
  uses,         \* uses[c]: transactions that used code c (history)
  proven,       \* phone numbers whose owner proved it (history)
  codeRaced,    \* codes that two requests were using at once (history)
  phoneRaced    \* an update wrote a profile whose phone had changed since its
                \* read (history)

codeVars == <<codes, emailVerified, profile, codePc, codeReq, uses, proven,
              codeRaced, phoneRaced>>

CodeKinds == {"email", "reset", "phone"}
AnyPhone == Phones \cup {NoPhone}
CodeIds == 1 .. MaxCodes
NoCodeRequest == [code |-> 0, phone |-> NoPhone]

CodesTypeOK ==
  /\ codes \in Seq([kind : CodeKinds, phone : AnyPhone, used : BOOLEAN, expired : BOOLEAN])
  /\ Len(codes) <= MaxCodes
  /\ emailVerified \in BOOLEAN
  /\ profile \in [phone : AnyPhone, verified : BOOLEAN]
  /\ codePc \in [CodeSlots -> {"idle", "use", "newPhone", "samePhone"}]
  /\ codeReq \in [CodeSlots -> [code : 0 .. Len(codes), phone : AnyPhone]]
  /\ uses \in [CodeIds -> Nat]
  /\ proven \subseteq Phones /\ codeRaced \subseteq CodeIds
  /\ phoneRaced \in BOOLEAN

CodesInit ==
  /\ codes = <<>>
  /\ emailVerified = FALSE
  /\ profile = [phone |-> NoPhone, verified |-> FALSE]
  /\ codePc = [s \in CodeSlots |-> "idle"]
  /\ codeReq = [s \in CodeSlots |-> NoCodeRequest]
  /\ uses = [c \in CodeIds |-> 0]
  /\ proven = {} /\ codeRaced = {} /\ phoneRaced = FALSE

CodeDone(s) ==
  /\ codePc' = [codePc EXCEPT ![s] = "idle"]
  /\ codeReq' = [codeReq EXCEPT ![s] = NoCodeRequest]

Using(c) == {s \in CodeSlots : codePc[s] = "use" /\ codeReq[s].code = c}

\* Unused and not expired.
Valid(c) == ~codes[c].used /\ ~codes[c].expired

Newest(c) ==
  \A later \in DOMAIN codes :
    /\ later > c
    /\ codes[later].kind = codes[c].kind /\ codes[later].phone = codes[c].phone
    => ~Valid(later)

\* A link of an e-mail is looked for among all valid ones; a reset or phone code
\* is compared with the newest valid one.
Accepted(c) == Valid(c) /\ (codes[c].kind = "email" \/ Newest(c))
-------------------------------------------------------------------------------
(* A code is inserted and sent; it counts from then on, sent or not.         *)

InsertCode(kind, phone) ==
  /\ Len(codes) < MaxCodes
  /\ codes' = Append(codes, [kind |-> kind, phone |-> phone,
                             used |-> FALSE, expired |-> FALSE])
  /\ UNCHANGED <<emailVerified, profile, codePc, codeReq, uses, proven,
                 codeRaced, phoneRaced>>

\* register sends the first of them.
ResendVerification == ~emailVerified /\ InsertCode("email", NoPhone)

ForgotPassword == InsertCode("reset", NoPhone)

SendPhoneCode(phone) == InsertCode("phone", phone)

CodeExpires(c) ==
  /\ ~codes[c].expired
  /\ codes' = [codes EXCEPT ![c].expired = TRUE]
  /\ UNCHANGED <<emailVerified, profile, codePc, codeReq, uses, proven,
                 codeRaced, phoneRaced>>

\* The check of verifyEmail, resetPassword and verifyPhoneCode; verifyResetCode
\* is this check alone.
CheckCode(s, c) ==
  /\ codePc[s] = "idle"
  /\ Accepted(c)
  /\ codePc' = [codePc EXCEPT ![s] = "use"]
  /\ codeReq' = [codeReq EXCEPT ![s].code = c]
  /\ codeRaced' = IF Using(c) # {} THEN codeRaced \cup {c} ELSE codeRaced
  /\ UNCHANGED <<codes, emailVerified, profile, uses, proven, phoneRaced>>

\* Mutant of UseCode: a used code is deleted.
DropCode(s) ==
  LET c == codeReq[s].code
  IN /\ codePc[s] = "use"
     /\ codes' = SubSeq(codes, 1, c - 1) \o SubSeq(codes, c + 1, Len(codes))
     /\ uses' = [uses EXCEPT ![c] = @ + 1]
     /\ CodeDone(s)
     /\ UNCHANGED <<emailVerified, profile, proven, codeRaced, phoneRaced>>

\* One transaction: what the code is for, and usedAt by the code's id.
UseCode(s) ==
  LET c    == codeReq[s].code
      kind == codes[c].kind
  IN /\ codePc[s] = "use"
     /\ codes' = [codes EXCEPT ![c].used = TRUE]
     /\ uses' = [uses EXCEPT ![c] = @ + 1]
     /\ emailVerified' = (emailVerified \/ kind = "email")
     /\ IF kind = "phone"
        THEN /\ profile' = [phone |-> codes[c].phone, verified |-> TRUE]
             /\ proven' = proven \cup {codes[c].phone}
        ELSE UNCHANGED <<profile, proven>>
     /\ CodeDone(s)
     /\ UNCHANGED <<codeRaced, phoneRaced>>
-------------------------------------------------------------------------------
(* The phone columns. *)

FirebaseVerify(phone) ==
  /\ profile' = [phone |-> phone, verified |-> TRUE]
  /\ proven' = proven \cup {phone}
  /\ UNCHANGED <<codes, emailVerified, codePc, codeReq, uses, codeRaced, phoneRaced>>

\* updateProfile with a phone: read and compare.
UpdateProfileRead(s, phone) ==
  /\ codePc[s] = "idle"
  /\ codePc' = [codePc EXCEPT ![s] =
                  IF profile.phone # phone THEN "newPhone" ELSE "samePhone"]
  /\ codeReq' = [codeReq EXCEPT ![s].phone = phone]
  /\ UNCHANGED <<codes, emailVerified, profile, uses, proven, codeRaced, phoneRaced>>

\* Mutant of WriteNewPhone: the flag is forgotten.
WriteNewPhoneOnly(s) ==
  /\ codePc[s] = "newPhone"
  /\ profile' = [profile EXCEPT !.phone = codeReq[s].phone]
  /\ CodeDone(s)
  /\ UNCHANGED <<codes, emailVerified, uses, proven, codeRaced, phoneRaced>>

\* The phone and the flag are written, and nothing else of the request.
WriteNewPhone(s) ==
  /\ codePc[s] = "newPhone"
  /\ profile' = [phone |-> codeReq[s].phone, verified |-> FALSE]
  /\ CodeDone(s)
  /\ UNCHANGED <<codes, emailVerified, uses, proven, codeRaced, phoneRaced>>

\* All columns of the request are written, the phone among them.
WriteSamePhone(s) ==
  LET phone == codeReq[s].phone
  IN /\ codePc[s] = "samePhone"
     /\ profile' = [profile EXCEPT !.phone = phone]
     /\ phoneRaced' = (phoneRaced \/ profile.phone # phone)
     /\ CodeDone(s)
     /\ UNCHANGED <<codes, emailVerified, uses, proven, codeRaced>>

CodeAbort(s) ==
  /\ codePc[s] # "idle"
  /\ CodeDone(s)
  /\ UNCHANGED <<codes, emailVerified, profile, uses, proven, codeRaced, phoneRaced>>

CodesNext ==
  \/ ResendVerification \/ ForgotPassword
  \/ \E phone \in Phones : SendPhoneCode(phone)
  \/ \E c \in DOMAIN codes : CodeExpires(c)
  \/ \E phone \in Phones : FirebaseVerify(phone)
  \/ \E s \in CodeSlots :
       \/ \E c \in DOMAIN codes : CheckCode(s, c)
       \/ \E phone \in AnyPhone : UpdateProfileRead(s, phone)
       \/ UseCode(s) \/ WriteNewPhone(s) \/ WriteSamePhone(s) \/ CodeAbort(s)

CodesSpec == CodesInit /\ [][CodesNext]_codeVars
-------------------------------------------------------------------------------
\* A code works once, also when several are outstanding and a used one makes an
\* older one the newest again; only two requests that checked it at the same
\* time use it twice.
CodesUsedOnce == \A c \in CodeIds : c \in codeRaced \/ uses[c] <= 1

\* A phone number shown as verified is one whose owner proved it, by a code or to
\* Firebase, however profile updates come in between; only an update that wrote
\* a number read before it changed breaks it.
PhoneProven ==
  profile.verified => phoneRaced \/ profile.phone \in proven

\* A code proves what it was sent to, once.
CodesSound == CodesUsedOnce /\ PhoneProven
===============================================================================
