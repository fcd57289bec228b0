------------------------------ MODULE Accounts ------------------------------
(* The account requests of TicketService: login, logout, registration,       *)
(* verification codes, password reset, contact binding, administrator login  *)
(* and password change, blacklist.  A request is a process that runs on a    *)
(* worker thread, one SQL statement, transaction or Redis command per step.  *)
EXTENDS Sessions, Challenges, Reminders

CONSTANTS Requests,   \* the requests of the instance, each runs once
          Passwords, Default,  \* passwords; Default is the one of a fresh administrator
          MaxFaults,  \* bound: failed Redis commands and commits
          Seeds       \* configurations the server may find when it starts

NewPasswords == Passwords \ {Default}

ASSUME AccountsAssumption ==
    Default \in Passwords /\ NewPasswords # {} /\ Subjects = Owners /\ Subscribers = Users /\ MaxFaults \in Nat

(* Rows of users and admins as far as the requests decide on them.           *)
AccountRow == [pw : Passwords, legacy : BOOLEAN, status : {"absent", "active", "disabled"}, verified : BOOLEAN]

(* What is in the tables and the session store at the start: a code that is  *)
(* in use has a subject, and one for a password reset went to an account.    *)
ASSUME SeedsAssumption ==
    \A seed \in Seeds :
        /\ seed.backend \in {"memory", "redis"}
        /\ seed.account \in [Owners -> AccountRow]
        /\ seed.session \in [Tokens -> Owners \cup {NoOne}]
        /\ seed.challenge \in [Challenge -> ChallengeRow]
        /\ \A c \in Challenge :
              LET row == seed.challenge[c]
              IN /\ row.state # "none" => row.subject \in Owners
                 /\ row.state # "none" /\ row.purpose = "PASSWORD_RESET" => seed.account[row.subject].status # "absent"

VARIABLES offered,  \* the operations clients send, and what expires, in this behaviour
          account,  \* rows of users and admins
          request,  \* the requests
          told,     \* session tokens clients have been answered
          grants,   \* challenges whose grant token clients have been answered
          mailed,   \* challenges whose code was delivered
          faults,   \* failures so far
          changed,  \* history: password of the last committed reset or change
          effects   \* history: account changes paid for with a grant or a code

accountVars == <<offered, account, told, grants, mailed, changed, effects>>
vars == <<sessionVars, challengeVars, reminderVars, accountVars, request, faults>>

UserTokenOps == {"contact", "bind", "remind", "unremind"}
AdminTokenOps == {"change", "blacklist"}
TokenOps == UserTokenOps \cup AdminTokenOps \cup {"use", "logout"}
Ops == TokenOps \cup {"none", "login", "reset", "send", "verify", "register"}

NoRow == [pw |-> Default, legacy |-> FALSE, status |-> "absent", verified |-> FALSE]
Idle == [op |-> "none", pc |-> "idle", o |-> NoOne, t |-> NoOne, c |-> NoOne, pw |-> Default,
         purpose |-> "CONTACT", row |-> NoRow, list |-> {}, old |-> {}, failures |-> 0, stale |-> FALSE]

Pcs == {"idle", "row", "fail", "rehash", "setex", "sadd", "undo", "ttl", "clear", "renew", "get", "del",
        "srem", "revoke", "each", "drop", "update", "readback", "cas", "reauth", "cansend", "insert",
        "deliver", "remove", "bind", "remind", "unremind", "ok", "unrevoked", "failed"}

(* Answered: with an error, with OK, or with OK although the revocation that *)
(* belongs to the request was broken off; the client cannot tell the two.    *)
Answers == {"ok", "unrevoked", "failed"}

RequestRow ==
    [op : Ops, pc : Pcs, o : Owners \cup {NoOne}, t : Tokens \cup {NoOne}, c : Challenge \cup {NoOne},
     pw : Passwords, purpose : Purposes, row : AccountRow, list : SUBSET Tokens, old : SUBSET Tokens,
     failures : Nat, stale : BOOLEAN]

AccountsTypeOK ==
    /\ SessionsTypeOK /\ ChallengesTypeOK /\ RemindersTypeOK
    /\ told \subseteq Tokens /\ grants \subseteq Challenge /\ mailed \subseteq Challenge
    /\ account \in [Owners -> AccountRow]
    /\ request \in [Requests -> RequestRow]
    /\ changed \in [Owners -> Passwords \cup {NoOne}]
    /\ effects \in [Purposes \X Owners -> Nat]
    /\ faults \in 0 .. MaxFaults

InitWith(seed) ==
    /\ offered = seed.offered /\ backend = seed.backend
    /\ account = seed.account
    /\ challenge = seed.challenge
    /\ grants = {c \in Challenge : challenge[c].state = "verified"}
    /\ mailed = {c \in Challenge : challenge[c].state # "none"}
    /\ session = seed.session
    /\ told = {t \in Tokens : session[t] # NoOne}
    /\ index = [o \in Owners |-> IF backend = "redis" THEN SessionsOf(o) ELSE {}]
    /\ timed = {o \in Owners : index[o] # {}}
    /\ late = [o \in Owners |-> {}]
    /\ restricted = {t \in told : account[session[t]].pw = Default}
    /\ unlisted = {}
    /\ throttle = [k \in Scopes \X Subjects |-> NoThrottle]
    /\ due = [k \in Scopes \X Subjects |-> 0]
    /\ wrong = [c \in Challenge |-> 0] /\ spent = [c \in Challenge |-> 0]
    /\ request = [s \in Requests |-> IF s \in seed.requests THEN Idle ELSE [Idle EXCEPT !.pc = "ok"]]
    /\ faults = 0
    /\ changed = [o \in Owners |-> NoOne]
    /\ effects = [k \in Purposes \X Owners |-> 0]
    /\ RemindersInit

Init == \E seed \in Seeds : InitWith(seed)

(* Of a request that has been answered only what the properties ask for is   *)
(* kept.                                                                     *)
Settle(r) == IF r.pc \in Answers THEN [Idle EXCEPT !.op = r.op, !.pc = r.pc, !.o = r.o, !.old = r.old] ELSE r

Become(s, r) == request' = [request EXCEPT ![s] = Settle(r)]
At(s, pc) == request[s].pc = pc
To(s, pc) == [request[s] EXCEPT !.pc = pc]

MayFail == "failures" \in offered /\ faults < MaxFaults /\ faults' = faults + 1

(* One Redis command on the connection of the operation.  When no reply      *)
(* comes the command may have run or not, and hiredis refuses the rest of    *)
(* the operation's commands on that connection.                              *)
Command(s, cmd, done, lost) ==
    \/ cmd /\ Become(s, done) /\ UNCHANGED faults
    \/ /\ backend = "redis" /\ MayFail
       /\ cmd \/ UNCHANGED sessionVars
       /\ Become(s, lost)

(* A full Redis answers SETEX and SADD with an error; DEL still works then.  *)
Refused(s, next) ==
    /\ backend = "redis" /\ MayFail
    /\ UNCHANGED sessionVars /\ Become(s, next)

(* A statement on its own whose result the handler does not look at: when it *)
(* fails it may have been executed or not.                                   *)
Statement(write, skip) ==
    \/ write /\ UNCHANGED faults
    \/ MayFail /\ (write \/ skip)

(* COMMIT: done, or reported as failed after all changes or none.            *)
Commit(s, writes, done) ==
    \/ writes /\ Become(s, done) /\ UNCHANGED faults
    \/ /\ MayFail
       /\ (writes \/ UNCHANGED <<challengeVars, account, changed, effects>>)
       /\ Become(s, To(s, "failed"))

-----------------------------------------------------------------------------
(* Sessions                                                                  *)

FreshTokens == {t \in Tokens : t \notin told /\ session[t] = NoOne /\ \A s \in Requests : request[s].t # t}
SameAccount == UNCHANGED <<challengeVars, accountVars>>

SetSession(s) ==
    /\ At(s, "setex") /\ FreshTokens # {}
    /\ LET t == CHOOSE t \in FreshTokens : TRUE
           o == request[s].o
           must == o \in Admins /\ request[s].row.pw = Default
           r == [request[s] EXCEPT !.t = t]
       IN IF backend = "memory"
          THEN MemoryCreate(t, o, must) /\ Become(s, [r EXCEPT !.pc = "clear"]) /\ UNCHANGED faults
          ELSE \/ Command(s, SetEx(t, o, must), [r EXCEPT !.pc = "sadd"], To(s, "failed"))
               \/ Refused(s, To(s, "failed"))
    /\ SameAccount

IndexSessionUnchecked(s) ==
    /\ At(s, "sadd")
    /\ \/ Command(s, SAdd(request[s].o, request[s].t), To(s, "ttl"), To(s, "clear"))
       \/ Refused(s, To(s, "ttl"))
    /\ SameAccount

(* create gives up when SADD fails; createAdmin does not look at its reply.  *)
IndexSession(s) ==
    /\ At(s, "sadd")
    /\ LET admin == request[s].o \in Admins
       IN \/ Command(s, SAdd(request[s].o, request[s].t), To(s, "ttl"), To(s, IF admin THEN "clear" ELSE "failed"))
          \/ Refused(s, To(s, IF admin THEN "ttl" ELSE "undo"))
    /\ SameAccount

UndoSession(s) ==
    /\ At(s, "undo")
    /\ Command(s, DelSession(request[s].t), To(s, "failed"), To(s, "failed"))
    /\ SameAccount

TimeIndex(s) ==
    /\ At(s, "ttl")
    /\ Command(s, ExpireIndex(request[s].o), To(s, "clear"), To(s, "clear"))
    /\ SameAccount

(* What the request does once its token is resolved.                         *)
Resolved(r) ==
    LET admin == r.o \in Admins
    IN [r EXCEPT !.pc = CASE r.op = "use" -> "ok"
                          [] r.op = "logout" -> IF admin \/ backend = "memory" THEN "del" ELSE "get"
                          [] r.op = "change" -> "update"
                          [] r.op = "blacklist" -> IF r.t \in restricted THEN "failed" ELSE "cas"
                          [] r.op = "contact" -> "row"
                          [] r.op \in {"bind", "remind", "unremind"} -> r.op]

OpAllowed(op, o) == (op \in UserTokenOps => o \in Users) /\ (op \in AdminTokenOps => o \in Admins)

Resolve(s) ==
    /\ At(s, "idle")
    /\ \E op \in offered \cap TokenOps, t \in told, pw \in NewPasswords :
          LET o == session[t]
              r == [Idle EXCEPT !.op = op, !.t = t, !.o = o, !.pw = pw]
              no == [r EXCEPT !.pc = "failed"]
          IN /\ o # NoOne => OpAllowed(op, o)
             /\ op \notin {"change", "contact"} => pw = CHOOSE p \in NewPasswords : TRUE
             /\ IF backend = "memory"
                THEN /\ Become(s, IF o = NoOne THEN no ELSE Resolved(r))
                     /\ UNCHANGED <<sessionVars, faults>>
                ELSE Command(s, GetEx(t), IF o = NoOne THEN no ELSE [r EXCEPT !.pc = "renew"], no)
    /\ SameAccount

Renew(s) ==
    /\ At(s, "renew")
    /\ LET r == Resolved(request[s]) IN Command(s, ExpireIndex(request[s].o), r, r)
    /\ SameAccount

ReadSession(s) ==
    /\ At(s, "get")
    /\ LET r == To(s, "del")
       IN Command(s, UNCHANGED sessionVars,
                  IF session[r.t] = NoOne THEN r ELSE [r EXCEPT !.list = {r.t}], To(s, "ok"))
    /\ SameAccount

RemoveSession(s) ==
    /\ At(s, "del")
    /\ LET r == To(s, IF request[s].list = {} THEN "ok" ELSE "srem")
       IN Command(s, DelSession(request[s].t), r, To(s, "ok"))
    /\ SameAccount

UnlistSession(s) ==
    /\ At(s, "srem")
    /\ Command(s, SRem(request[s].o, request[s].t), To(s, "ok"), To(s, "ok"))
    /\ SameAccount

(* removeAllForUser, removeAllForAdmin: read the index, delete each session, *)
(* delete the index.  They return nothing, the caller answers OK in any case.*)
ReadIndex(s) ==
    /\ At(s, "revoke")
    /\ LET listed == index[request[s].o]
       IN IF backend = "memory"
          THEN MemoryRemoveAll(request[s].o) /\ Become(s, To(s, "ok")) /\ UNCHANGED faults
          ELSE Command(s, UNCHANGED sessionVars,
                       [To(s, IF listed = {} THEN "drop" ELSE "each") EXCEPT !.list = listed],
                       To(s, "unrevoked"))
    /\ SameAccount

RemoveListedOnce(s) ==
    /\ At(s, "each")
    /\ \E t \in request[s].list : Command(s, DelSession(t), To(s, "drop"), To(s, "unrevoked"))
    /\ SameAccount

RemoveListed(s) ==
    /\ At(s, "each")
    /\ \E t \in request[s].list :
          LET rest == request[s].list \ {t}
              r == [To(s, IF rest = {} THEN "drop" ELSE "each") EXCEPT !.list = rest]
          IN Command(s, DelSession(t), r, To(s, "unrevoked"))
    /\ SameAccount

RemoveIndex(s) ==
    /\ At(s, "drop")
    /\ Command(s, DropIndex(request[s].o, request[s].old), To(s, "ok"), To(s, "ok"))
    /\ SameAccount

-----------------------------------------------------------------------------
(* Passwords                                                                 *)

SameStore == UNCHANGED <<sessionVars, faults>>
SameRest == UNCHANGED <<offered, told, grants, mailed>>

Matches(pw, row) == row.status # "absent" /\ pw = row.pw

(* isBlocked: an execution that fails counts as no lock, a statement that    *)
(* cannot be prepared as an error.  "failures" are those on record when the  *)
(* check found no lock, 0 when it could not look.                            *)
Check(s, k, past, refused) ==
    \/ Become(s, IF Blocked(k) THEN refused ELSE [past EXCEPT !.failures = due[k]]) /\ UNCHANGED faults
    \/ MayFail /\ (Become(s, past) \/ Become(s, refused))

Login(s) ==
    /\ At(s, "idle") /\ "login" \in offered
    /\ \E o \in Owners, pw \in Passwords :
          LET r == [Idle EXCEPT !.op = "login", !.o = o, !.pw = pw, !.pc = "row"]
          IN Check(s, <<"account", o>>, r, [r EXCEPT !.pc = "failed"])
    /\ UNCHANGED sessionVars /\ SameAccount

AcceptedRehashed(r) == [r EXCEPT !.pc = "rehash"]

(* After the password matched: an old hash is replaced first.                *)
Accepted(r) == [r EXCEPT !.pc = IF r.row.legacy THEN "rehash" ELSE IF r.op = "login" THEN "setex" ELSE "clear"]

(* A row that cannot be read is no row.                                      *)
ReadRow(s) ==
    /\ At(s, "row")
    /\ LET row == account[request[s].o]
           r == [request[s] EXCEPT !.row = row]
           disabled == r.o \in Users /\ row.status = "disabled"
       IN \/ /\ Become(s, IF r.op = "contact"
                          THEN [r EXCEPT !.pc = IF disabled THEN "failed" ELSE "reauth"]
                          ELSE IF disabled THEN [r EXCEPT !.pc = "failed"]
                          ELSE IF Matches(r.pw, row) THEN Accepted(r)
                          ELSE [r EXCEPT !.pc = "fail"])
             /\ UNCHANGED faults
          \/ MayFail /\ Become(s, To(s, IF r.op = "contact" THEN "failed" ELSE "fail"))
    /\ UNCHANGED sessionVars /\ SameAccount

(* requestContactVerification asks for the password once more.               *)
Reauthenticate(s) ==
    /\ At(s, "reauth")
    /\ LET r == request[s]
           k == <<"contact_reauth", r.o>>
       IN Check(s, k, IF Matches(r.pw, r.row) THEN Accepted(r) ELSE To(s, "fail"), To(s, "failed"))
    /\ UNCHANGED sessionVars /\ SameAccount

Scope(r) == IF r.op = "contact" THEN "contact_reauth" ELSE "account"

LoginFails(s) ==
    /\ At(s, "fail")
    /\ Statement(RecordFailure(<<Scope(request[s]), request[s].o>>), UNCHANGED challengeVars)
    /\ Become(s, To(s, "failed"))
    /\ UNCHANGED <<sessionVars, accountVars>>

(* updatePasswordHash writes the typed password over whatever is there now.  *)
Rehash(s) ==
    /\ At(s, "rehash")
    /\ LET r == request[s]
       IN /\ Statement(account' = [account EXCEPT ![r.o].pw = r.pw, ![r.o].legacy = FALSE], UNCHANGED account)
          /\ Become(s, To(s, IF r.op = "login" THEN "setex" ELSE "clear"))
    /\ UNCHANGED sessionVars /\ SameRest /\ UNCHANGED <<challengeVars, changed, effects>>

(* login answers with the token; registration has no throttle to clear; the  *)
(* contact request goes on to send a code.                                   *)
Finish(s) ==
    /\ At(s, "clear")
    /\ LET r == request[s]
       IN /\ IF r.op = "register" THEN UNCHANGED <<challengeVars, faults>>
             ELSE Statement(ClearThrottle(<<Scope(r), r.o>>), UNCHANGED challengeVars)
          /\ told' = IF r.op = "contact" THEN told ELSE told \cup {r.t}
          /\ Become(s, To(s, IF r.op = "contact" THEN "cansend" ELSE "ok"))
    /\ UNCHANGED <<sessionVars, offered, account, grants, mailed, changed, effects>>

(* A new password is in the row; requests that have read the row are stale.  *)
SetPassword(o, pw) ==
    /\ account' = [account EXCEPT ![o].pw = pw, ![o].legacy = FALSE]
    /\ changed' = [changed EXCEPT ![o] = pw]

Outdate(o, s, r) ==
    [q \in Requests |-> IF q = s THEN Settle(r)
                        ELSE [request[q] EXCEPT !.stale = @ \/ (request[q].o = o /\ request[q].row # NoRow)]]

Effect(k) == effects' = [effects EXCEPT ![k] = @ + 1]

ConfirmPasswordReset(s) ==
    /\ At(s, "idle") /\ "reset" \in offered
    /\ \E c \in grants, pw \in NewPasswords :
          LET o == challenge[c].subject
              r == [Idle EXCEPT !.op = "reset", !.o = o, !.c = c, !.pw = pw, !.old = told \cap SessionsOf(o)]
              redeem == /\ Consume(c) /\ SetPassword(o, pw) /\ Effect(<<"PASSWORD_RESET", o>>)
                        /\ UNCHANGED <<throttle, due>>
          IN IF ~Granted(c, "PASSWORD_RESET")
             THEN /\ Become(s, [Idle EXCEPT !.op = "reset", !.pc = "failed"])
                  /\ UNCHANGED <<challengeVars, account, changed, effects, faults>>
             ELSE \/ /\ redeem /\ UNCHANGED faults
                     /\ request' = Outdate(o, s, [r EXCEPT !.pc = "revoke"])
                  \/ /\ MayFail
                     /\ \/ redeem /\ request' = Outdate(o, s, [r EXCEPT !.pc = "failed"])
                        \/ /\ Become(s, [r EXCEPT !.pc = "failed"])
                           /\ UNCHANGED <<challengeVars, account, changed, effects>>
    /\ UNCHANGED sessionVars /\ SameRest

(* adminChangePassword: write, read back, then revoke.                       *)
UpdateAdmin(s) ==
    /\ At(s, "update")
    /\ LET o == request[s].o
           write(r) == SetPassword(o, request[s].pw) /\ request' = Outdate(o, s, r)
       IN \/ write([To(s, "readback") EXCEPT !.old = told \cap SessionsOf(o)]) /\ UNCHANGED faults
          \/ /\ MayFail
             /\ write(To(s, "failed")) \/ (Become(s, To(s, "failed")) /\ UNCHANGED <<account, changed>>)
    /\ UNCHANGED <<sessionVars, challengeVars, effects>> /\ SameRest

ReadBack(s) ==
    /\ At(s, "readback")
    /\ \/ /\ Become(s, To(s, IF Matches(request[s].pw, account[request[s].o]) THEN "revoke" ELSE "failed"))
          /\ UNCHANGED faults
       \/ MayFail /\ Become(s, To(s, "failed"))
    /\ UNCHANGED sessionVars /\ SameAccount

(* adminBlacklist: compareAndSetStatus; the user's sessions stay.            *)
Blacklist(s) ==
    /\ At(s, "cas")
    /\ \E u \in Users, to \in {"active", "disabled"} :
          LET from == IF to = "active" THEN "disabled" ELSE "active"
              write == account' = [account EXCEPT ![u].status = to]
          IN \/ /\ account[u].status = from
                /\ \/ write /\ Become(s, To(s, "ok")) /\ UNCHANGED faults
                   \/ MayFail /\ write /\ Become(s, To(s, "failed"))
             \/ /\ account[u].status # from
                /\ Become(s, To(s, "failed")) /\ UNCHANGED <<account, faults>>
    /\ UNCHANGED sessionVars /\ SameRest /\ UNCHANGED <<challengeVars, changed, effects>>

-----------------------------------------------------------------------------
(* Verification codes                                                        *)

(* requestVerification wants no account, requestPasswordReset an active one  *)
(* with a verified contact; the latter answers OK in every case.             *)
MaySend(purpose, o) ==
    IF purpose = "REGISTER" THEN account[o].status = "absent"
    ELSE account[o].status = "active" /\ account[o].verified

RequestCode(s) ==
    /\ At(s, "idle") /\ "send" \in offered
    /\ \E purpose \in {"REGISTER", "PASSWORD_RESET"}, o \in Users :
          Become(s, [Idle EXCEPT !.op = "send", !.o = o, !.purpose = purpose,
                                 !.pc = IF MaySend(purpose, o) THEN "cansend" ELSE "failed"])
    /\ SameStore /\ SameAccount

CheckCooldown(s) ==
    /\ At(s, "cansend")
    /\ Become(s, To(s, IF CanSend(request[s].purpose, request[s].o) THEN "insert" ELSE "failed"))
    /\ SameStore /\ SameAccount

InsertCode(s) ==
    /\ At(s, "insert")
    /\ LET unused == {c \in Challenge : challenge[c].state = "none"}
           c == CHOOSE c \in unused : TRUE
           insert == InsertChallenge(c, request[s].purpose, request[s].o)
       IN /\ unused # {}
          /\ \/ insert /\ Become(s, [To(s, "deliver") EXCEPT !.c = c]) /\ UNCHANGED faults
             \/ MayFail /\ (insert \/ UNCHANGED challenge) /\ Become(s, To(s, "failed"))
    /\ UNCHANGED <<sessionVars, throttle, due, wrong, spent, accountVars>>

(* The provider takes the code, or fails, which it also does when the mail   *)
(* is on its way and the answer lost; then the row is removed again.         *)
Deliver(s) ==
    /\ At(s, "deliver")
    /\ LET taken == mailed \cup {request[s].c}
       IN \/ mailed' = taken /\ Become(s, To(s, "ok"))
          \/ mailed' \in {mailed, taken} /\ Become(s, To(s, "remove"))
    /\ SameStore /\ UNCHANGED <<challengeVars, offered, account, told, grants, changed, effects>>

RemoveUndelivered(s) ==
    /\ At(s, "remove")
    /\ Statement(RemoveChallenge(request[s].c), UNCHANGED challenge)
    /\ Become(s, To(s, "failed"))
    /\ UNCHANGED <<sessionVars, throttle, due, wrong, spent, accountVars>>

(* A wrong code: neither the UPDATE nor the COMMIT is asked for its result.  *)
WrongCode(c) == Statement(FailAttempt(c), LoseAttempt(c))

(* verifyRegistrationCode, verifyPasswordReset: one transaction on the row.  *)
VerifyCode(s) ==
    /\ At(s, "idle") /\ "verify" \in offered
    /\ \E c \in Challenge, right \in BOOLEAN :
          LET purpose == challenge[c].purpose
              r == [Idle EXCEPT !.op = "verify", !.c = c, !.pc = "failed"]
          IN /\ purpose # "CONTACT" /\ (right => c \in mailed)
             /\ IF ~Active(c, purpose)
                THEN UNCHANGED <<challengeVars, grants, faults>> /\ Become(s, r)
                ELSE /\ UNCHANGED <<throttle, due>>
                     /\ IF right
                        THEN \/ /\ MarkVerified(c) /\ grants' = grants \cup {c} /\ UNCHANGED faults
                                /\ Become(s, [r EXCEPT !.pc = "ok"])
                             \/ /\ MayFail /\ UNCHANGED grants
                                /\ MarkVerified(c) \/ UNCHANGED <<challenge, wrong, spent>>
                                /\ Become(s, r)
                        ELSE WrongCode(c) /\ UNCHANGED grants /\ Become(s, r)
    /\ UNCHANGED <<sessionVars, offered, account, told, mailed, changed, effects>>

(* reg: the grant and the new row in one transaction.                        *)
Register(s) ==
    /\ At(s, "idle") /\ "register" \in offered
    /\ \E c \in grants, o \in Users, pw \in NewPasswords :
          LET row == [pw |-> pw, legacy |-> FALSE, status |-> "active", verified |-> TRUE]
              r == [Idle EXCEPT !.op = "register", !.o = o, !.c = c, !.pc = "failed"]
          IN IF ~Granted(c, "REGISTER") \/ challenge[c].subject # o \/ account[o].status # "absent"
             THEN Become(s, r) /\ UNCHANGED <<challengeVars, account, changed, effects, faults>>
             ELSE Commit(s, /\ Consume(c) /\ account' = [account EXCEPT ![o] = row]
                            /\ Effect(<<"REGISTER", o>>) /\ UNCHANGED <<throttle, due, changed>>,
                         [r EXCEPT !.pc = "setex"])
    /\ UNCHANGED sessionVars /\ SameRest

(* confirmContactVerification: the code must be one of the session's user.   *)
BindContact(s) ==
    /\ At(s, "bind")
    /\ \E c \in Challenge, right \in BOOLEAN :
          LET o == request[s].o
          IN /\ right => c \in mailed
             /\ IF ~Active(c, "CONTACT") \/ challenge[c].subject # o
                THEN Become(s, To(s, "failed")) /\ UNCHANGED <<challengeVars, account, changed, effects, faults>>
                ELSE IF right
                THEN Commit(s, /\ Consume(c) /\ account' = [account EXCEPT ![o].verified = TRUE]
                               /\ Effect(<<"CONTACT", o>>) /\ UNCHANGED <<throttle, due, changed>>,
                            To(s, "ok"))
                ELSE /\ WrongCode(c) /\ Become(s, To(s, "failed"))
                     /\ UNCHANGED <<throttle, due, account, changed, effects>>
    /\ UNCHANGED sessionVars /\ SameRest

-----------------------------------------------------------------------------
(* saleReminderMutate; a reminder goes to a verified address only.           *)
MutateReminder(s) ==
    /\ LET o == request[s].o
       IN \/ /\ At(s, "remind") /\ account[o].verified
             /\ AddReminder(o) /\ Become(s, To(s, "ok"))
          \/ /\ At(s, "remind") /\ ~account[o].verified
             /\ UNCHANGED reminderVars /\ Become(s, To(s, "failed"))
          \/ /\ At(s, "unremind")
             /\ CancelReminder(o) /\ Become(s, To(s, IF Waiting(o) THEN "ok" ELSE "failed"))
    /\ SameStore /\ SameAccount

RequestStep(s) ==
    \/ SetSession(s) \/ IndexSession(s) \/ UndoSession(s) \/ TimeIndex(s) \/ Resolve(s) \/ Renew(s)
    \/ ReadSession(s) \/ RemoveSession(s) \/ UnlistSession(s)
    \/ ReadIndex(s) \/ RemoveListed(s) \/ RemoveIndex(s)
    \/ Login(s) \/ ReadRow(s) \/ Reauthenticate(s) \/ LoginFails(s) \/ Rehash(s) \/ Finish(s)
    \/ ConfirmPasswordReset(s) \/ UpdateAdmin(s) \/ ReadBack(s) \/ Blacklist(s)
    \/ RequestCode(s) \/ CheckCooldown(s) \/ InsertCode(s) \/ Deliver(s) \/ RemoveUndelivered(s)
    \/ VerifyCode(s) \/ Register(s) \/ BindContact(s)

Others == UNCHANGED <<accountVars, request, faults>>

TimePasses ==
    \/ /\ "sessionsExpire" \in offered /\ \E t \in Tokens : SessionExpires(t)
       /\ UNCHANGED challengeVars /\ Others
    \/ /\ "sessionsExpire" \in offered /\ \E o \in Owners : IndexExpires(o)
       /\ UNCHANGED challengeVars /\ Others
    \/ /\ "codesExpire" \in offered
       /\ \E c \in Challenge : ChallengeLapses(c) \/ CooldownEnds(c) \/ PurgeChallenge(c)
       /\ UNCHANGED sessionVars /\ Others
    \/ /\ "locksEnd" \in offered
       /\ \E k \in Scopes \X Subjects : WindowEnds(k) \/ LockEnds(k)
       /\ UNCHANGED sessionVars /\ Others

Next ==
    \/ (\E s \in Requests : RequestStep(s)) /\ UNCHANGED reminderVars
    \/ \E s \in Requests : MutateReminder(s)
    \/ TimePasses /\ UNCHANGED reminderVars
    \/ RemindersNext /\ UNCHANGED <<sessionVars, challengeVars, accountVars, request, faults>>

Spec == Init /\ [][Next]_vars

-----------------------------------------------------------------------------
(* Every session a user's client knows of is in the index of its user, with  *)
(* or without failed Redis commands, unless it lost its entry to a           *)
(* concurrent revocation or to an expired index; an administrator's session  *)
(* too as long as no command fails (createAdmin ignores SADD).               *)
SessionsIndexed ==
    backend = "redis" => \A t \in told \ unlisted :
        session[t] \in Users \/ (session[t] \in Admins /\ faults = 0) => t \in index[session[t]]

(* A password reset whose revocation was carried through has ended every     *)
(* session its user's clients knew when the new password was written, except *)
(* those that had lost their index entry: whatever fails elsewhere, whatever *)
(* logins, logouts and other resets run beside it.  An administrator's       *)
(* change too, as long as no command has failed at all (createAdmin ignores  *)
(* SADD).  Of a revocation that was broken off nothing is promised.          *)
RevocationComplete ==
    \A s \in Requests :
        LET r == request[s]
        IN r.op \in {"reset", "change"} /\ r.pc = "ok" /\ (r.o \in Users \/ faults = 0) =>
              \A t \in r.old : session[t] = NoOne \/ t \in unlisted

(* What docs/AUTH_VERIFICATION.md says: a successful reset revokes every     *)
(* session of the user.  confirmPasswordReset answers OK also when           *)
(* removeAllForUser was broken off.                                          *)
ResetEndsSessions ==
    \A s \in Requests :
        LET r == request[s]
        IN r.op = "reset" /\ r.pc \in {"ok", "unrevoked"} => \A t \in r.old : session[t] = NoOne

(* A password set by a reset or a change is replaced only by the next one,   *)
(* or by the upgrade of an old-format hash in a request that had read the    *)
(* row before; once a row holds a bcrypt hash nothing else rewrites it.      *)
ResetsStick ==
    [][\A o \in Owners :
          changed[o] # NoOne /\ account'[o].pw # changed[o] =>
              \/ changed'[o] = account'[o].pw
              \/ account[o].pw # changed[o]
              \/ \E s \in Requests : request[s].pc = "rehash" /\ request[s].stale /\ request[s].row.legacy]_vars

(* A code is compared at most max_attempts times with a wrong answer, and    *)
(* once more for each statement or commit that failed, since a wrong try     *)
(* whose count is lost is answered like any other; a challenge is redeemed   *)
(* at most once.  Both however many requests try it at once.                 *)
CodeSpentOnce == \A c \in Challenge : wrong[c] <= MaxAttempts + faults /\ spent[c] <= 1

(* A challenge is used up exactly when the account change it pays for is     *)
(* committed: a refused registration or a lost commit never burns a grant.   *)
GrantHasItsEffect ==
    \A p \in Purposes, o \in Owners :
        effects[<<p, o>>] =
            Cardinality({c \in Challenge : challenge[c].purpose = p /\ challenge[c].subject = o /\ spent[c] > 0})

(* No request gets past isBlocked once max_failures failures are on record   *)
(* for its account, in the running window and before the lock they cause has *)
(* run out, unless the query of isBlocked itself fails.  Requests that were  *)
(* past it by then still compare their password.                             *)
LockedOutAfterFailures == \A s \in Requests : request[s].failures < MaxFailures
=============================================================================
