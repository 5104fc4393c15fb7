------------------------------- MODULE Accounts -------------------------------
(***************************************************************************)
(* Accounts: signing up and in (modules/auth/auth.service.ts), one-time    *)
(* codes and refresh tokens (auth/services), the user documents            *)
(* (modules/users/users.service.ts) and the public numbers they get        *)
(* (modules/common/numeric-id.service.ts).  Google and the SMS gateway are *)
(* external: a call carries the identity they vouch for.                   *)
(***************************************************************************)
EXTENDS Notices

CONSTANTS
    VanityIds,      \* numbers sold ahead of the counter
    MaxRetry,       \* how often a number is drawn for one account
    MaxAttempts     \* wrong codes accepted before a code is dropped

\* What a field of an account holds when it was not given.
Absent == ""

ASSUME RetryAssumption == MaxRetry \in Nat \ {0} /\ MaxAttempts \in Nat \ {0}

\* What is vouched for is there; the account of a sold number is no request's.
ASSUME IdentityAssumption ==
    /\ VanityIds \subseteq Nat /\ IsFiniteSet(VanityIds)
    /\ \A w \in Workloads : \A r \in DOMAIN w.calls :
          /\ \A n \in VanityIds : r # 0 - n
          /\ w.calls[r].op = "loginGoogle" =>
                w.calls[r].google # Absent /\ w.calls[r].email # Absent
          /\ w.calls[r].op = "loginPhone" => w.calls[r].phone # Absent

VARIABLES
    users,      \* account -> its document; its id is the request that made it
    seq,        \* the counter of the numbers
    codes,      \* phone -> [code, attempts, until], the codes that were sent
    cooling,    \* phone -> the day until which no new code is sent
    sessions    \* refresh token -> [account, revoked, from]; its id is its request's

accountVars == <<users, seq, codes, cooling, sessions>>

\* Unique where present: the address, the phone and the name; not the Google id.
Unique == {"email", "phone", "name"}
Blank == [f \in Unique \cup {"google"} |-> Absent]

User(n, ids, password) ==
    [number |-> n, ids |-> ids, password |-> password, status |-> "active"]

\* The accounts of sold numbers have ids below zero.
AccountsInit ==
    /\ users = [v \in {0 - n : n \in VanityIds} |-> User(0 - v, Blank, FALSE)]
    /\ seq = 0 /\ codes = <<>> /\ cooling = <<>> /\ sessions = <<>>

Holders(f, x) == {u \in DOMAIN users : x # Absent /\ users[u].ids[f] = x}

\* A round trip that reads, and the condition to go on.
Sees(r, ok, to) == Passes(r, IF ok THEN to ELSE "failed") /\ UNCHANGED accountVars

\* r has read the document of account u.
Finds(r, u, to) ==
    /\ Learns(r, [account |-> u, doc |-> users[u]]) /\ Goes(r, to)
    /\ UNCHANGED <<ledger, accountVars>>

Account(r) == job[r].account

\* r will create an account with these credentials.
Enrols(r, ids, password) ==
    /\ Learns(r, [ids |-> ids, password |-> password, tries |-> 0]) /\ Goes(r, "nextId")
    /\ UNCHANGED <<ledger, accountVars>>

------------------------------------------------------------------------------
\* NumericIdService.createWithId around userModel.create.

NextId(r) ==
    /\ pc[r] = "nextId"
    /\ seq' = seq + 1
    /\ Learns(r, [number |-> seq + 1, tries |-> job[r].tries + 1]) /\ Goes(r, "createUser")
    /\ UNCHANGED <<ledger, users, codes, cooling, sessions>>

NumberTaken(n) == \E u \in DOMAIN users : users[u].number = n
Clashes(ids) == \E f \in Unique : Holders(f, ids[f]) # {}

MutantCreateUser(r) ==
    LET user == User(job[r].number, job[r].ids, job[r].password) IN
    /\ pc[r] = "createUser"
    /\ IF NumberTaken(user.number) \/ Clashes(user.ids)
       THEN Sees(r, FALSE, "failed")
       ELSE /\ users' = Put(users, r, user)
            /\ Learns(r, [account |-> r, doc |-> user]) /\ Goes(r, "issue")
            /\ UNCHANGED <<ledger, seq, codes, cooling, sessions>>

\* A number that is taken is drawn again, up to MaxRetry; another clash is an error.
CreateUser(r) ==
    LET user == User(job[r].number, job[r].ids, job[r].password) IN
    /\ pc[r] = "createUser"
    /\ IF NumberTaken(user.number) THEN Sees(r, job[r].tries < MaxRetry, "nextId")
       ELSE IF Clashes(user.ids) THEN Sees(r, FALSE, "failed")
       ELSE /\ users' = Put(users, r, user)
            /\ Learns(r, [account |-> r, doc |-> user]) /\ Goes(r, "issue")
            /\ UNCHANGED <<ledger, seq, codes, cooling, sessions>>

------------------------------------------------------------------------------
\* registerEmail, loginEmail, loginWithGoogle.

RegisterEmail(r) ==
    Begins(r, "registerEmail") /\ Sees(r, Holders("email", call(r).email) = {}, "registerName")

RegisterName(r) ==
    /\ pc[r] = "registerName"
    /\ IF Holders("name", call(r).name) # {} THEN Sees(r, FALSE, "failed")
       ELSE Enrols(r, [Blank EXCEPT !.email = call(r).email, !.name = call(r).name], TRUE)

LoginEmail(r) ==
    LET found == {u \in Holders("email", call(r).email) : users[u].password} IN
    /\ Begins(r, "loginEmail")
    /\ IF found = {} THEN Sees(r, FALSE, "failed") ELSE \E u \in found : Finds(r, u, "issue")

\* findOne: any account that has this Google id or this address.
LoginGoogle(r) ==
    LET found == Holders("google", call(r).google) \cup Holders("email", call(r).email) IN
    /\ Begins(r, "loginGoogle")
    /\ IF found = {}
       THEN Enrols(r, [Blank EXCEPT !.google = call(r).google, !.email = call(r).email], FALSE)
       ELSE \E u \in found : Finds(r, u, IF users[u].ids.google = Absent THEN "linkGoogle" ELSE "issue")

\* linkGoogle, unless the account has got another id meanwhile.
LinkGoogle(r) ==
    LET g == call(r).google IN
    /\ pc[r] = "linkGoogle"
    /\ users' = [users EXCEPT ![Account(r)].ids.google = IF @ \in {Absent, g} THEN g ELSE @]
    /\ Passes(r, "rereadUser") /\ UNCHANGED <<seq, codes, cooling, sessions>>

RereadUser(r) == pc[r] = "rereadUser" /\ Finds(r, Account(r), "issue")

------------------------------------------------------------------------------
\* OtpService and verifyPhoneOtp.  A code lives until the next day, a cooldown for the day.

SendCode(r) ==
    LET p == call(r).phone IN
    Begins(r, "sendCode") /\ Sees(r, p \in DOMAIN cooling => cooling[p] < day, "sendCodeSet")

SendCodeSet(r) ==
    /\ pc[r] = "sendCodeSet"
    /\ codes' = Put(codes, call(r).phone, [code |-> r, attempts |-> 0, until |-> day + 1])
    /\ Passes(r, "sendCodeCool") /\ UNCHANGED <<users, seq, cooling, sessions>>

SendCodeCool(r) ==
    /\ pc[r] = "sendCodeCool"
    /\ cooling' = Put(cooling, call(r).phone, day)
    /\ Passes(r, "done") /\ UNCHANGED <<users, seq, codes, sessions>>

LoginPhone(r) ==
    LET p == call(r).phone IN
    /\ Begins(r, "loginPhone")
    /\ IF p \notin DOMAIN codes \/ codes[p].until < day THEN Sees(r, FALSE, "failed")
       ELSE /\ Learns(r, [sent |-> codes[p]])
            /\ Goes(r, IF codes[p].attempts >= MaxAttempts THEN "codeDrop"
                       ELSE IF codes[p].code = call(r).code THEN "codeUse" ELSE "codeWrong")
            /\ UNCHANGED <<ledger, accountVars>>

\* The code is written back as it was read, with one attempt more.
CodeWrong(r) ==
    /\ pc[r] = "codeWrong"
    /\ codes' = Put(codes, call(r).phone, [job[r].sent EXCEPT !.attempts = @ + 1])
    /\ Passes(r, "failed") /\ UNCHANGED <<users, seq, cooling, sessions>>

CodeDelete(r) ==
    /\ pc[r] \in {"codeDrop", "codeUse"}
    /\ codes' = Restrict(codes, DOMAIN codes \ {call(r).phone})
    /\ Passes(r, IF pc[r] = "codeUse" THEN "phoneFind" ELSE "failed")
    /\ UNCHANGED <<users, seq, cooling, sessions>>

PhoneEnrols(r) ==
    Enrols(r, [Blank EXCEPT !.phone = call(r).phone, !.name = call(r).name], FALSE)

\* A phone without an account gets one; the name for it may be left out.
PhoneFind(r) ==
    LET found == Holders("phone", call(r).phone) IN
    /\ pc[r] = "phoneFind"
    /\ IF found # {} THEN \E u \in found : Finds(r, u, "issue")
       ELSE IF call(r).name # Absent THEN Sees(r, TRUE, "phoneName")
       ELSE PhoneEnrols(r)

PhoneName(r) ==
    /\ pc[r] = "phoneName"
    /\ IF Holders("name", call(r).name) # {} THEN Sees(r, FALSE, "failed") ELSE PhoneEnrols(r)

------------------------------------------------------------------------------
\* assertActive, on the document read before, and the refresh tokens.

Starts(r, a, from, to) ==
    /\ sessions' = Put(sessions, r, [account |-> a, revoked |-> FALSE, from |-> from])
    /\ Passes(r, to) /\ UNCHANGED <<users, seq, codes, cooling>>

Issue(r) ==
    /\ pc[r] = "issue"
    /\ IF job[r].doc.status # "active" THEN Sees(r, FALSE, "failed")
       ELSE Starts(r, Account(r), r, "done")

token(r) == call(r).token
Live(t) == t \in DOMAIN sessions /\ ~sessions[t].revoked

Revokes(r) ==
    /\ sessions' = IF token(r) \in DOMAIN sessions
                   THEN [sessions EXCEPT ![token(r)].revoked = TRUE] ELSE sessions
    /\ Passes(r, "done") /\ UNCHANGED <<users, seq, codes, cooling>>

\* rotate: read, issue the new pair, revoke the old one.
Refresh(r) == Begins(r, "refresh") /\ Sees(r, Live(token(r)), "refreshIssue")

RefreshIssue(r) ==
    LET old == sessions[token(r)] IN
    pc[r] = "refreshIssue" /\ Starts(r, old.account, old.from, "refreshSave")

RefreshSave(r) == pc[r] = "refreshSave" /\ Revokes(r)
Logout(r) == Begins(r, "logout") /\ Revokes(r)

------------------------------------------------------------------------------
\* setPassword; updateProfile; ban and unban; softDeleteAccount.

\* Reads the caller's or the target's document, and goes on when it satisfies ok.
Loads(r, op, ok(_), to) ==
    LET u == call(r).account IN
    /\ Begins(r, op)
    /\ IF u \in DOMAIN users /\ ok(users[u]) THEN Finds(r, u, to) ELSE Sees(r, FALSE, to)

SetPassword(r) ==
    Loads(r, "setPassword", LAMBDA d : d.status = "active" /\ d.ids.email # Absent, "passwordSave")

PasswordSave(r) ==
    /\ pc[r] = "passwordSave"
    /\ users' = [users EXCEPT ![Account(r)].password = TRUE]
    /\ Passes(r, "done") /\ UNCHANGED <<seq, codes, cooling, sessions>>

UpdateProfile(r) == Loads(r, "updateProfile", LAMBDA d : TRUE, "profileName")

ProfileName(r) ==
    /\ pc[r] = "profileName"
    /\ Sees(r, call(r).name = job[r].doc.ids.name \/ Holders("name", call(r).name) = {},
            "profileSave")

ProfileSave(r) ==
    LET u == Account(r) IN
    /\ pc[r] = "profileSave"
    /\ IF call(r).name = job[r].doc.ids.name THEN Sees(r, TRUE, "done")
       ELSE IF Holders("name", call(r).name) \ {u} # {} THEN Sees(r, FALSE, "failed")
       ELSE /\ users' = [users EXCEPT ![u].ids.name = call(r).name]
            /\ Passes(r, "done") /\ UNCHANGED <<seq, codes, cooling, sessions>>

Ban(r) == \E op \in {"ban", "unban"} : Loads(r, op, LAMBDA d : TRUE, "banSave")

\* save(): a status equal to the one read is not written.
BanSave(r) ==
    LET new == IF call(r).op = "ban" THEN "banned" ELSE "active" IN
    /\ pc[r] = "banSave"
    /\ users' = [users EXCEPT ![Account(r)].status = IF job[r].doc.status = new THEN @ ELSE new]
    /\ Passes(r, "done") /\ UNCHANGED <<seq, codes, cooling, sessions>>

DeleteAccount(r) ==
    Loads(r, "deleteAccount", LAMBDA d : d.status # "deleted", "deleteWipe")

DeleteWipe(r) ==
    /\ pc[r] = "deleteWipe"
    /\ users' = [users EXCEPT ![Account(r)] =
                    [@ EXCEPT !.ids = Blank, !.password = FALSE, !.status = "deleted"]]
    /\ Passes(r, "deleteDevices") /\ UNCHANGED <<seq, codes, cooling, sessions>>

DeleteDevices(r) ==
    /\ pc[r] = "deleteDevices"
    /\ devices' = Restrict(devices, DOMAIN devices \ TokensOf(Account(r)))
    /\ Passes(r, "done") /\ UNCHANGED <<inbox, pushes, accountVars>>

AccountsStep(r) ==
    \/ DeleteDevices(r)
    \/ /\ UNCHANGED noticeVars
       /\ \/ NextId(r) \/ CreateUser(r) \/ RegisterEmail(r) \/ RegisterName(r) \/ LoginEmail(r)
          \/ LoginGoogle(r) \/ LinkGoogle(r) \/ RereadUser(r)
          \/ SendCode(r) \/ SendCodeSet(r) \/ SendCodeCool(r)
          \/ LoginPhone(r) \/ CodeWrong(r) \/ CodeDelete(r) \/ PhoneFind(r) \/ PhoneName(r)
          \/ Issue(r) \/ Refresh(r) \/ RefreshIssue(r) \/ RefreshSave(r) \/ Logout(r)
          \/ SetPassword(r) \/ PasswordSave(r) \/ UpdateProfile(r) \/ ProfileName(r)
          \/ ProfileSave(r) \/ Ban(r) \/ BanSave(r) \/ DeleteAccount(r) \/ DeleteWipe(r)

------------------------------------------------------------------------------
\* The properties.

Asks(op) == {r \in Requests : call(r).op = op}
SignsIn(op) == {r \in Asks(op) : r \in DOMAIN sessions}

\* Google vouches for g with one address.
OneAddress(g) ==
    \A r, s \in Asks("loginGoogle") :
        call(r).google = g /\ call(s).google = g => call(r).email = call(s).email

\* loginWithGoogle, registerEmail, verifyPhoneOtp and createWithId: as long as nobody deletes
\* an account, everybody who signs in with one Google id that keeps its address, or with one
\* phone, comes into one account, however his first sign-ins overlap; when fewer numbers are
\* sold than are drawn for one account, and nobody renames himself, a sign-up is refused only
\* because somebody has its credentials, never for the number it drew; and when calls wait
\* for each other and none dies, a sign-in is carried on by one refresh token at a time.
AccountsHold ==
    /\ Asks("deleteAccount") = {} =>
          /\ \A r, s \in SignsIn("loginGoogle") :
                call(r).google = call(s).google /\ OneAddress(call(r).google) =>
                    sessions[r].account = sessions[s].account
          /\ \A r, s \in SignsIn("loginPhone") :
                call(r).phone = call(s).phone => sessions[r].account = sessions[s].account
          /\ Asks("updateProfile") = {} /\ Cardinality(VanityIds) < MaxRetry =>
                \A r \in Requests :
                    pc[r] = "failed" /\ "tries" \in DOMAIN job[r] => Clashes(job[r].ids)
    /\ load.patient /\ stops = 0 /\ (\A r \in Requests : pc[r] \in Over \cup {"idle"}) =>
          \A t, s \in DOMAIN sessions :
              Live(t) /\ Live(s) /\ sessions[t].from = sessions[s].from => t = s
==============================================================================
