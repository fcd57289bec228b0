--------------------------- MODULE AccountsProofs ---------------------------
(***************************************************************************)
(* Theorems about Accounts: types, codes, throttles, reminders, sessions   *)
(* and passwords, for any number of requests, accounts and servers.        *)
(***************************************************************************)
EXTENDS Accounts, FiniteSetTheorems, TLAPS

-----------------------------------------------------------------------------
(* Types.                                                                   *)

Runs(pc) == pc \notin {"idle"} \cup Answers

\* What a request carries fits where it is in its handler.
Fits(r) ==
    /\ Runs(r.pc) => r.o \in Owners
    /\ r.pc \in {"sadd", "undo", "ttl", "clear", "renew", "get", "del", "srem"} => r.t \in Tokens
    /\ Runs(r.pc) /\ r.op \in TokenOps => r.t \in Tokens
    /\ Runs(r.pc) /\ r.op \in UserTokenOps => r.o \in Users
    /\ Runs(r.pc) /\ r.op \in AdminTokenOps => r.o \in Admins
    /\ r.pc \in {"deliver", "remove"} => r.c \in Challenge
    /\ r.pc \in {"row", "fail", "rehash"} => r.op \in {"login", "contact"}
    /\ r.pc = "reauth" => r.op = "contact"
    /\ r.pc \in {"setex", "sadd", "undo", "ttl"} => r.op \in {"login", "register"}
    /\ r.pc = "clear" => r.op \in {"login", "register", "contact"}
    /\ r.pc = "renew" => r.op \in TokenOps
    /\ r.pc \in {"get", "del", "srem"} => r.op = "logout"
    /\ r.pc \in {"update", "readback"} => r.op = "change"
    /\ r.pc \in {"revoke", "each", "drop"} => r.op \in {"reset", "change"}
    /\ r.pc = "cas" => r.op = "blacklist"
    /\ r.pc \in {"cansend", "insert", "deliver", "remove"} => r.op \in {"send", "contact"}
    /\ r.pc \in {"bind", "remind", "unremind"} => r.op = r.pc

RequestsFit == request \in [Requests -> RequestRow] /\ \A s \in Requests : Fits(request[s])

\* A code or a grant that may be used has a subject.
SubjectsKnown == \A c \in Challenge : challenge[c].state \in {"sent", "verified"} => challenge[c].subject \in Owners

TypeInv == AccountsTypeOK /\ RequestsFit /\ SubjectsKnown

LEMMA SettleFits ==
    ASSUME NEW r \in RequestRow, Fits(r) PROVE Settle(r) \in RequestRow /\ Fits(Settle(r)) /\ Settle(r).pc = r.pc
<1> DEFINE q == [Idle EXCEPT !.op = r.op, !.pc = r.pc, !.o = r.o, !.old = r.old]
<1>1. Idle \in RequestRow
  BY AccountsAssumption DEF Idle, RequestRow, NoRow, AccountRow, Ops, Pcs, Purposes
<1>2. q \in RequestRow /\ q.pc = r.pc
  BY <1>1 DEF RequestRow
<1>3. ASSUME r.pc \in Answers PROVE Fits(q)
  BY <1>2, <1>3 DEF Fits, Runs, Answers
<1>4. QED
  BY <1>2, <1>3 DEF Settle

LEMMA BecomeFits ==
    ASSUME RequestsFit, NEW s \in Requests, NEW r \in RequestRow, Fits(r), Become(s, r) PROVE RequestsFit'
<1>1. Settle(r) \in RequestRow /\ Fits(Settle(r))
  BY SettleFits
<1>2. request' = [request EXCEPT ![s] = Settle(r)]
  BY DEF Become
<1>3. request' \in [Requests -> RequestRow]
  BY <1>1, <1>2 DEF RequestsFit
<1>4. ASSUME NEW q \in Requests PROVE Fits(request'[q])
  BY <1>1, <1>2 DEF RequestsFit
<1>5. QED
  BY <1>3, <1>4 DEF RequestsFit

LEMMA IdleFits == Idle \in RequestRow /\ Fits(Idle)
<1>1. Idle \in RequestRow
  BY AccountsAssumption DEF Idle, RequestRow, NoRow, AccountRow, Ops, Pcs, Purposes
<1>2. Fits(Idle)
  BY DEF Idle, Fits, Runs, Answers
<1>3. QED
  BY <1>1, <1>2


\* A request that moves on, with or without its token.
Same(q, r) == q.op = r.op /\ q.o = r.o /\ q.c = r.c /\ q.pw = r.pw /\ q.purpose = r.purpose /\ q.row = r.row
              /\ q.old = r.old /\ q.failures = r.failures /\ q.stale = r.stale

LEMMA ToPc ==
    ASSUME NEW r \in RequestRow, NEW pc \in Pcs
    PROVE  LET q == [r EXCEPT !.pc = pc] IN q \in RequestRow /\ q.pc = pc /\ Same(q, r) /\ q.t = r.t /\ q.list = r.list
BY DEF RequestRow, Same

LEMMA ToTyped ==
    ASSUME NEW s \in Requests, request[s] \in RequestRow, NEW pc \in Pcs
    PROVE  LET q == To(s, pc) IN q \in RequestRow /\ q.pc = pc /\ Same(q, request[s]) /\ q.t = request[s].t /\ q.list = request[s].list
BY ToPc DEF To

LEMMA SetSessionFits == ASSUME TypeInv, NEW s \in Requests, SetSession(s) PROVE RequestsFit'
<1> DEFINE t == CHOOSE t \in FreshTokens : TRUE
           r == [request[s] EXCEPT !.t = t]
<1>1. request[s] \in RequestRow /\ Fits(request[s]) /\ request[s].pc = "setex"
  BY DEF TypeInv, RequestsFit, SetSession, At
<1>2. t \in Tokens
  BY DEF SetSession, FreshTokens
<1>3. \E q \in {[r EXCEPT !.pc = "clear"], [r EXCEPT !.pc = "sadd"], To(s, "failed")} : Become(s, q)
  BY DEF SetSession, Command, Refused
<1>4. \A q \in {[r EXCEPT !.pc = "clear"], [r EXCEPT !.pc = "sadd"], To(s, "failed")} : q \in RequestRow /\ Fits(q)
  <2>1. r \in RequestRow /\ r.t = t /\ Same(r, request[s])
    BY <1>1, <1>2 DEF RequestRow, Same
  <2> HIDE DEF r, t
  <2>2. [r EXCEPT !.pc = "clear"] \in RequestRow /\ [r EXCEPT !.pc = "clear"].pc = "clear"
        /\ [r EXCEPT !.pc = "clear"].t = t /\ Same([r EXCEPT !.pc = "clear"], r)
    BY <2>1 DEF RequestRow, Same, Pcs
  <2>3. [r EXCEPT !.pc = "sadd"] \in RequestRow /\ [r EXCEPT !.pc = "sadd"].pc = "sadd"
        /\ [r EXCEPT !.pc = "sadd"].t = t /\ Same([r EXCEPT !.pc = "sadd"], r)
    BY <2>1 DEF RequestRow, Same, Pcs
  <2>4. To(s, "failed") \in RequestRow /\ To(s, "failed").pc = "failed"
    BY <1>1, ToTyped DEF Pcs
  <2>5. Fits([r EXCEPT !.pc = "clear"])
    BY <1>1, <1>2, <2>1, <2>2 DEF Fits, Runs, Answers, Same, TokenOps, UserTokenOps, AdminTokenOps
  <2>6. Fits([r EXCEPT !.pc = "sadd"])
    BY <1>1, <1>2, <2>1, <2>3 DEF Fits, Runs, Answers, Same, TokenOps, UserTokenOps, AdminTokenOps
  <2>7. Fits(To(s, "failed"))
    BY <2>4 DEF Fits, Runs, Answers
  <2>8. QED
    BY <2>2, <2>3, <2>4, <2>5, <2>6, <2>7
<1>5. QED
  BY <1>3, <1>4, BecomeFits DEF TypeInv

LEMMA ResolvedFits ==
    ASSUME NEW r \in RequestRow, r.op \in TokenOps, r.t \in Tokens, r.o \in Owners, OpAllowed(r.op, r.o)
    PROVE  Resolved(r) \in RequestRow /\ Fits(Resolved(r))
<1> DEFINE Goes(pc) ==
              \/ pc \in {"ok", "failed"}
              \/ r.op = "logout" /\ pc \in {"get", "del"}
              \/ r.op = "change" /\ pc = "update"
              \/ r.op = "blacklist" /\ pc = "cas"
              \/ r.op = "contact" /\ pc = "row"
              \/ r.op \in {"bind", "remind", "unremind"} /\ pc = r.op
<1>1. ASSUME NEW pc, Goes(pc)
      PROVE  [r EXCEPT !.pc = pc] \in RequestRow /\ Fits([r EXCEPT !.pc = pc])
  <2>1. pc \in Pcs
    BY <1>1 DEF Pcs
  <2>2. [r EXCEPT !.pc = pc] \in RequestRow /\ [r EXCEPT !.pc = pc].pc = pc /\ Same([r EXCEPT !.pc = pc], r)
        /\ [r EXCEPT !.pc = pc].t = r.t
    BY <2>1, ToPc
  <2>3. QED
    BY <1>1, <2>2 DEF Fits, Runs, Answers, Same, OpAllowed, TokenOps
<1> DEFINE pc == CASE r.op = "use" -> "ok"
                   [] r.op = "logout" -> IF r.o \in Admins \/ backend = "memory" THEN "del" ELSE "get"
                   [] r.op = "change" -> "update"
                   [] r.op = "blacklist" -> IF r.t \in restricted THEN "failed" ELSE "cas"
                   [] r.op = "contact" -> "row"
                   [] r.op \in {"bind", "remind", "unremind"} -> r.op
<1>2. Resolved(r) = [r EXCEPT !.pc = pc]
  BY DEF Resolved
<1>3. Goes(pc)
  BY DEF TokenOps, UserTokenOps, AdminTokenOps
<1>4. QED
  BY <1>1, <1>2, <1>3

LEMMA ResolveFits == ASSUME TypeInv, NEW s \in Requests, Resolve(s) PROVE RequestsFit'
<1>1. PICK op \in offered \cap TokenOps, t \in told, pw \in NewPasswords :
          LET o == session[t]
              r == [Idle EXCEPT !.op = op, !.t = t, !.o = o, !.pw = pw]
              no == [r EXCEPT !.pc = "failed"]
          IN /\ o # NoOne => OpAllowed(op, o)
             /\ op \notin {"change", "contact"} => pw = CHOOSE p \in NewPasswords : TRUE
             /\ IF backend = "memory"
                THEN /\ Become(s, IF o = NoOne THEN no ELSE Resolved(r))
                     /\ UNCHANGED <<sessionVars, faults>>
                ELSE Command(s, GetEx(t), IF o = NoOne THEN no ELSE [r EXCEPT !.pc = "renew"], no)
  BY DEF Resolve
<1> DEFINE o == session[t]
           r == [Idle EXCEPT !.op = op, !.t = t, !.o = o, !.pw = pw]
           no == [r EXCEPT !.pc = "failed"]
<1>2. t \in Tokens /\ o \in Owners \cup {NoOne} /\ pw \in Passwords /\ op \in Ops
  BY DEF TypeInv, AccountsTypeOK, SessionsTypeOK, NewPasswords, Ops
<1>3. r \in RequestRow /\ r.op = op /\ r.t = t /\ r.o = o
  BY <1>2, IdleFits DEF RequestRow
<1>4. no \in RequestRow /\ Fits(no)
  <2>1. no \in RequestRow /\ no.pc = "failed"
    BY <1>3, ToPc DEF Pcs
  <2>2. QED
    BY <2>1 DEF Fits, Runs, Answers
<1>5. CASE o = NoOne
  <2>1. Become(s, no)
    BY <1>1, <1>5 DEF Command
  <2>2. QED
    BY <2>1, <1>4, BecomeFits DEF TypeInv
<1>6. CASE o # NoOne
  <2>1. Become(s, no) \/ Become(s, Resolved(r)) \/ Become(s, [r EXCEPT !.pc = "renew"])
    BY <1>1, <1>6 DEF Command
  <2>2. Resolved(r) \in RequestRow /\ Fits(Resolved(r))
    BY <1>1, <1>2, <1>3, <1>6, ResolvedFits
  <2>3. [r EXCEPT !.pc = "renew"] \in RequestRow /\ Fits([r EXCEPT !.pc = "renew"])
    <3>1. o \in Owners /\ OpAllowed(op, o) /\ op \in TokenOps
      BY <1>1, <1>2, <1>6
    <3> HIDE DEF r, o
    <3>2. [r EXCEPT !.pc = "renew"] \in RequestRow /\ [r EXCEPT !.pc = "renew"].pc = "renew" /\ Same([r EXCEPT !.pc = "renew"], r)
          /\ [r EXCEPT !.pc = "renew"].t = r.t
      BY <1>3 DEF RequestRow, Same, Pcs
    <3>3. QED
      BY <1>2, <1>3, <3>1, <3>2 DEF Fits, Runs, Answers, Same, OpAllowed, TokenOps
  <2>4. QED
    BY <2>1, <2>2, <2>3, <1>4, BecomeFits DEF TypeInv
<1>7. QED
  BY <1>5, <1>6

LEMMA RenewFits == ASSUME TypeInv, NEW s \in Requests, Renew(s) PROVE RequestsFit'
<1>1. request[s] \in RequestRow /\ Fits(request[s]) /\ request[s].pc = "renew"
  BY DEF TypeInv, RequestsFit, Renew, At
<1>2. Become(s, Resolved(request[s]))
  BY DEF Renew, Command
<1>3. request[s].op \in TokenOps /\ request[s].t \in Tokens /\ request[s].o \in Owners /\ OpAllowed(request[s].op, request[s].o)
  BY <1>1 DEF Fits, Runs, Answers, Pcs, OpAllowed
<1>4. QED
  BY <1>1, <1>2, <1>3, ResolvedFits, BecomeFits DEF TypeInv

\* The steps that change only the program counter.
Follows(r, pc) ==
    \/ pc \in Answers
    \/ r.pc = "sadd" /\ pc \in {"ttl", "clear", "undo"}
    \/ r.pc = "ttl" /\ pc = "clear"
    \/ r.pc = "del" /\ pc = "srem"
    \/ r.pc = "rehash" /\ pc = (IF r.op = "login" THEN "setex" ELSE "clear")
    \/ r.pc = "clear" /\ r.op = "contact" /\ pc = "cansend"
    \/ r.pc = "readback" /\ pc = "revoke"
    \/ r.pc = "cansend" /\ pc = "insert"
    \/ r.pc = "deliver" /\ pc = "remove"
    \/ r.pc = "row" /\ pc = "fail"

LEMMA PlainMove ==
    ASSUME TypeInv, NEW s \in Requests, NEW pc, Become(s, To(s, pc)), Follows(request[s], pc) PROVE RequestsFit'
<1>1. request[s] \in RequestRow /\ Fits(request[s])
  BY DEF TypeInv, RequestsFit
<1>2. pc \in Pcs
  BY DEF Follows, Answers, Pcs
<1> DEFINE q == To(s, pc)
<1>3. q \in RequestRow /\ q.pc = pc /\ Same(q, request[s]) /\ q.t = request[s].t
  BY <1>1, <1>2, ToTyped
<1> HIDE DEF q
<1>4. Fits(q)
  BY <1>1, <1>3 DEF Fits, Runs, Answers, Same, Follows, TokenOps, UserTokenOps, AdminTokenOps
<1>5. QED
  BY <1>3, <1>4, BecomeFits DEF TypeInv, q

PlainStep(s) ==
    \/ UndoSession(s) \/ TimeIndex(s) \/ RemoveSession(s) \/ UnlistSession(s) \/ RemoveIndex(s) \/ IndexSession(s)
    \/ LoginFails(s) \/ Rehash(s) \/ Finish(s) \/ ReadBack(s) \/ Blacklist(s) \/ CheckCooldown(s)
    \/ Deliver(s) \/ RemoveUndelivered(s) \/ BindContact(s) \/ MutateReminder(s)

LEMMA PlainFits == ASSUME TypeInv, NEW s \in Requests, PlainStep(s) PROVE RequestsFit'
<1> SUFFICES \E pc : Become(s, To(s, pc)) /\ Follows(request[s], pc)
  BY PlainMove
<1>1. CASE UndoSession(s)
  BY <1>1 DEF UndoSession, Command, Follows, Answers
<1>2. CASE TimeIndex(s)
  BY <1>2 DEF TimeIndex, Command, Follows, Answers, At
<1>3. CASE RemoveSession(s)
  BY <1>3 DEF RemoveSession, Command, Follows, Answers, At
<1>4. CASE UnlistSession(s)
  BY <1>4 DEF UnlistSession, Command, Follows, Answers, At
<1>5. CASE RemoveIndex(s)
  BY <1>5 DEF RemoveIndex, Command, Follows, Answers, At
<1>6. CASE IndexSession(s)
  BY <1>6 DEF IndexSession, Command, Refused, Follows, Answers, At
<1>7. CASE LoginFails(s)
  BY <1>7 DEF LoginFails, Follows, Answers, At
<1>8. CASE Rehash(s)
  BY <1>8 DEF Rehash, Follows, Answers, At
<1>9. CASE Finish(s)
  BY <1>9 DEF Finish, Follows, Answers, At
<1>10. CASE ReadBack(s)
  BY <1>10 DEF ReadBack, Follows, Answers, At
<1>11. CASE Blacklist(s)
  BY <1>11 DEF Blacklist, Follows, Answers, At
<1>12. CASE CheckCooldown(s)
  BY <1>12 DEF CheckCooldown, Follows, Answers, At
<1>13. CASE Deliver(s)
  BY <1>13 DEF Deliver, Follows, Answers, At
<1>14. CASE RemoveUndelivered(s)
  BY <1>14 DEF RemoveUndelivered, Follows, Answers, At
<1>15. CASE BindContact(s)
  BY <1>15 DEF BindContact, Commit, Follows, Answers, At
<1>16. CASE MutateReminder(s)
  BY <1>16 DEF MutateReminder, Follows, Answers, At
<1>17. QED
  BY <1>1, <1>2, <1>3, <1>4, <1>5, <1>6, <1>7, <1>8, <1>9, <1>10, <1>11, <1>12, <1>13, <1>14, <1>15, <1>16 DEF PlainStep

\* The steps that change more of the request.
LEMMA ReadSessionFits == ASSUME TypeInv, NEW s \in Requests, ReadSession(s) PROVE RequestsFit'
<1> DEFINE r == To(s, "del")
           q == [r EXCEPT !.list = {r.t}]
<1>1. request[s] \in RequestRow /\ Fits(request[s]) /\ request[s].pc = "get"
  BY DEF TypeInv, RequestsFit, ReadSession, At
<1>2. r \in RequestRow /\ r.pc = "del" /\ Same(r, request[s]) /\ r.t = request[s].t
  BY <1>1, ToTyped DEF Pcs
<1>3. Become(s, r) \/ Become(s, q) \/ Become(s, To(s, "ok"))
  BY DEF ReadSession, Command
<1>4. To(s, "ok") \in RequestRow /\ Fits(To(s, "ok"))
  BY <1>1, ToTyped DEF Pcs, Fits, Runs, Answers
<1> HIDE DEF r
<1>5. Fits(r) /\ r.t \in Tokens
  BY <1>1, <1>2 DEF Fits, Runs, Answers, Same, TokenOps, UserTokenOps, AdminTokenOps
<1>6. q \in RequestRow /\ q.pc = r.pc /\ Same(q, r) /\ q.t = r.t
  BY <1>2, <1>5 DEF RequestRow, Same
<1> HIDE DEF q
<1>7. Fits(q)
  BY <1>5, <1>6 DEF Fits, Same
<1>8. QED
  BY <1>2, <1>3, <1>4, <1>5, <1>6, <1>7, BecomeFits DEF TypeInv

\* The revocation, with the list of sessions it has still to end.
LEMMA ListFits ==
    ASSUME TypeInv, NEW s \in Requests, NEW pc \in {"each", "drop"}, NEW l \in SUBSET Tokens,
           request[s].pc \in {"revoke", "each"}, Become(s, [To(s, pc) EXCEPT !.list = l])
    PROVE  RequestsFit'
<1> DEFINE r == To(s, pc)
           q == [r EXCEPT !.list = l]
<1>1. request[s] \in RequestRow /\ Fits(request[s])
  BY DEF TypeInv, RequestsFit
<1>2. r \in RequestRow /\ r.pc = pc /\ Same(r, request[s]) /\ r.t = request[s].t
  BY <1>1, ToTyped DEF Pcs
<1> HIDE DEF r
<1>3. q \in RequestRow /\ q.pc = pc /\ Same(q, r) /\ q.t = r.t
  BY <1>2 DEF RequestRow, Same
<1> HIDE DEF q
<1>4. Fits(q)
  BY <1>1, <1>2, <1>3 DEF Fits, Runs, Answers, Same, TokenOps, UserTokenOps, AdminTokenOps
<1>5. QED
  BY <1>3, <1>4, BecomeFits DEF TypeInv, r, q

LEMMA ReadIndexFits == ASSUME TypeInv, NEW s \in Requests, ReadIndex(s) PROVE RequestsFit'
<1> DEFINE listed == index[request[s].o]
<1>1. request[s] \in RequestRow /\ Fits(request[s]) /\ request[s].pc = "revoke"
  BY DEF TypeInv, RequestsFit, ReadIndex, At
<1>2. listed \in SUBSET Tokens
  BY <1>1 DEF Fits, Runs, Answers, TypeInv, AccountsTypeOK, SessionsTypeOK
<1>3. Become(s, To(s, "unrevoked")) \/ Become(s, To(s, "ok")) \/ \E pc \in {"each", "drop"} : Become(s, [To(s, pc) EXCEPT !.list = listed])
  BY DEF ReadIndex, Command
<1>4. QED
  BY <1>1, <1>2, <1>3, ListFits, PlainMove DEF Follows, Answers

LEMMA RemoveListedFits == ASSUME TypeInv, NEW s \in Requests, RemoveListed(s) PROVE RequestsFit'
<1>1. request[s] \in RequestRow /\ request[s].pc = "each"
  BY DEF TypeInv, RequestsFit, RemoveListed, At
<1>2. PICK t \in request[s].list :
         Become(s, To(s, "unrevoked")) \/ Become(s, To(s, "ok")) \/ \E pc \in {"each", "drop"} : Become(s, [To(s, pc) EXCEPT !.list = request[s].list \ {t}])
  BY DEF RemoveListed, Command
<1>3. request[s].list \ {t} \in SUBSET Tokens
  BY <1>1 DEF RequestRow
<1>4. QED
  BY <1>1, <1>2, <1>3, ListFits, PlainMove DEF Follows, Answers

\* The check of the throttle lets a request past or refuses it.
LEMMA CheckFits ==
    ASSUME TypeInv, NEW s \in Requests, NEW k \in Scopes \X Subjects, NEW past \in RequestRow, Fits(past),
           NEW refused \in RequestRow, Fits(refused), Check(s, k, past, refused)
    PROVE  RequestsFit'
<1> DEFINE q == [past EXCEPT !.failures = due[k]]
<1>1. due[k] \in Nat
  BY DEF TypeInv, AccountsTypeOK, ChallengesTypeOK
<1>2. q \in RequestRow /\ q.pc = past.pc /\ q.op = past.op /\ q.o = past.o /\ q.c = past.c /\ q.t = past.t
  BY <1>1 DEF RequestRow
<1>3. Become(s, q) \/ Become(s, past) \/ Become(s, refused)
  BY DEF Check
<1> HIDE DEF q
<1>4. Fits(q)
  BY <1>2 DEF Fits
<1>5. QED
  BY <1>2, <1>3, <1>4, BecomeFits DEF TypeInv

LEMMA LoginFits == ASSUME TypeInv, NEW s \in Requests, Login(s) PROVE RequestsFit'
<1>1. PICK o \in Owners, pw \in Passwords :
          LET r == [Idle EXCEPT !.op = "login", !.o = o, !.pw = pw, !.pc = "row"]
          IN Check(s, <<"account", o>>, r, [r EXCEPT !.pc = "failed"])
  BY DEF Login
<1> DEFINE r == [Idle EXCEPT !.op = "login", !.o = o, !.pw = pw, !.pc = "row"]
           no == [r EXCEPT !.pc = "failed"]
<1>2. <<"account", o>> \in Scopes \X Subjects
  BY AccountsAssumption DEF Scopes
<1>3. Check(s, <<"account", o>>, r, no)
  BY <1>1
<1>4. r \in RequestRow /\ r.op = "login" /\ r.pc = "row" /\ r.o = o
  BY IdleFits DEF RequestRow, Ops, Pcs
<1> HIDE DEF r
<1>5. no \in RequestRow /\ no.pc = "failed"
  BY <1>4 DEF RequestRow, Pcs
<1> HIDE DEF no
<1>6. Fits(r) /\ Fits(no)
  BY <1>4, <1>5 DEF Fits, Runs, Answers, TokenOps, UserTokenOps, AdminTokenOps
<1>7. QED
  BY <1>2, <1>3, <1>4, <1>5, <1>6, CheckFits

LEMMA AcceptedFits ==
    ASSUME NEW r \in RequestRow, Fits(r), r.pc \in {"row", "reauth"}, r.op \in {"login", "contact"}
    PROVE  Accepted(r) \in RequestRow /\ Fits(Accepted(r))
<1> DEFINE pc == IF r.row.legacy THEN "rehash" ELSE IF r.op = "login" THEN "setex" ELSE "clear"
           a == [r EXCEPT !.pc = pc]
<1>1. Accepted(r) = a
  BY DEF Accepted
<1>2. /\ pc \in {"rehash", "setex", "clear"}
      /\ pc = "setex" => r.op = "login"
      /\ pc = "clear" => r.op = "contact"
  OBVIOUS
<1> HIDE DEF pc
<1>3. a \in RequestRow /\ a.pc = pc /\ Same(a, r) /\ a.t = r.t
  BY <1>2 DEF RequestRow, Same, Pcs
<1> HIDE DEF a
<1>4. Fits(a)
  BY <1>2, <1>3 DEF Fits, Runs, Answers, Same, TokenOps, UserTokenOps, AdminTokenOps
<1>5. QED
  BY <1>1, <1>3, <1>4

LEMMA ReadRowFits == ASSUME TypeInv, NEW s \in Requests, ReadRow(s) PROVE RequestsFit'
<1> DEFINE row == account[request[s].o]
           r == [request[s] EXCEPT !.row = row]
<1>1. request[s] \in RequestRow /\ Fits(request[s]) /\ request[s].pc = "row"
  BY DEF TypeInv, RequestsFit, ReadRow, At
<1>2. row \in AccountRow
  BY <1>1 DEF Fits, Runs, Answers, TypeInv, AccountsTypeOK
<1>3. \/ Become(s, [r EXCEPT !.pc = "failed"])
      \/ Become(s, [r EXCEPT !.pc = "reauth"]) /\ r.op = "contact"
      \/ Become(s, [r EXCEPT !.pc = "fail"])
      \/ Become(s, Accepted(r))
      \/ \E pc \in {"failed", "fail"} : Become(s, To(s, pc))
  <2> DEFINE disabled == r.o \in Users /\ row.status = "disabled"
             there == Become(s, IF r.op = "contact"
                                THEN [r EXCEPT !.pc = IF disabled THEN "failed" ELSE "reauth"]
                                ELSE IF disabled THEN [r EXCEPT !.pc = "failed"]
                                ELSE IF Matches(r.pw, row) THEN Accepted(r)
                                ELSE [r EXCEPT !.pc = "fail"])
  <2>1. there \/ Become(s, To(s, IF r.op = "contact" THEN "failed" ELSE "fail"))
    BY Zenon DEF ReadRow
  <2> HIDE DEF disabled, r
  <2>2. CASE there /\ r.op = "contact"
    BY <2>2
  <2>3. CASE there /\ r.op # "contact"
    BY <2>3
  <2> HIDE DEF there
  <2>4. QED
    BY <2>1, <2>2, <2>3
<1> HIDE DEF row
<1>4. r \in RequestRow /\ r.pc = "row" /\ r.op = request[s].op /\ r.o = request[s].o /\ r.c = request[s].c /\ r.t = request[s].t
  BY <1>1, <1>2 DEF RequestRow
<1> HIDE DEF r
<1>5. Fits(r) /\ r.op \in {"login", "contact"}
  BY <1>1, <1>4 DEF Fits
<1>6. Accepted(r) \in RequestRow /\ Fits(Accepted(r))
  BY <1>4, <1>5, AcceptedFits
<1>7. ASSUME NEW pc \in {"failed", "reauth", "fail"}, pc = "reauth" => r.op = "contact"
      PROVE  [r EXCEPT !.pc = pc] \in RequestRow /\ Fits([r EXCEPT !.pc = pc])
  <2> DEFINE q == [r EXCEPT !.pc = pc]
  <2>1. q \in RequestRow /\ q.pc = pc /\ Same(q, r) /\ q.t = r.t
    BY <1>4 DEF RequestRow, Same, Pcs
  <2> HIDE DEF q
  <2>2. Fits(q)
    BY <1>4, <1>5, <1>7, <2>1 DEF Fits, Runs, Answers, Same
  <2>3. QED
    BY <2>1, <2>2 DEF q
<1>8. QED
  BY <1>1, <1>3, <1>6, <1>7, BecomeFits, PlainMove DEF TypeInv, Follows, Answers

LEMMA ReauthenticateFits == ASSUME TypeInv, NEW s \in Requests, Reauthenticate(s) PROVE RequestsFit'
<1> DEFINE r == request[s]
           k == <<"contact_reauth", r.o>>
           past == IF Matches(r.pw, r.row) THEN Accepted(r) ELSE To(s, "fail")
<1>1. r \in RequestRow /\ Fits(r) /\ r.pc = "reauth" /\ r.op = "contact" /\ r.o \in Owners
  BY DEF TypeInv, RequestsFit, Reauthenticate, At, Fits, Runs, Answers
<1>2. k \in Scopes \X Subjects
  BY <1>1, AccountsAssumption DEF Scopes
<1>3. Check(s, k, past, To(s, "failed"))
  BY DEF Reauthenticate
<1>4. ASSUME NEW pc \in {"fail", "failed"} PROVE To(s, pc) \in RequestRow /\ Fits(To(s, pc))
  <2> DEFINE q == To(s, pc)
  <2>1. q \in RequestRow /\ q.pc = pc /\ Same(q, r) /\ q.t = r.t
    BY <1>1, ToTyped DEF Pcs
  <2> HIDE DEF q
  <2>2. Fits(q)
    BY <1>1, <2>1 DEF Fits, Runs, Answers, Same
  <2>3. QED
    BY <2>1, <2>2 DEF q
<1>5. past \in RequestRow /\ Fits(past)
  <2>1. Accepted(r) \in RequestRow /\ Fits(Accepted(r))
    BY <1>1, AcceptedFits
  <2> HIDE DEF r
  <2>2. QED
    BY <1>4, <2>1
<1> HIDE DEF past, k
<1>6. QED
  BY <1>2, <1>3, <1>4, <1>5, CheckFits

\* Other requests are marked as stale.
LEMMA OutdateFits ==
    ASSUME RequestsFit, NEW s \in Requests, NEW o, NEW r \in RequestRow, Fits(r), request' = Outdate(o, s, r)
    PROVE  RequestsFit'
<1>1. Settle(r) \in RequestRow /\ Fits(Settle(r))
  BY SettleFits
<1>2. ASSUME NEW q \in Requests
      PROVE  request'[q] \in RequestRow /\ Fits(request'[q])
  <2>1. CASE q = s
    BY <1>1, <2>1 DEF Outdate
  <2>2. CASE q # s
    <3> DEFINE b == request[q].stale \/ (request[q].o = o /\ request[q].row # NoRow)
    <3>1. request'[q] = [request[q] EXCEPT !.stale = b]
      BY <2>2 DEF Outdate
    <3>2. b \in BOOLEAN
      BY DEF RequestsFit, RequestRow
    <3>3. request[q] \in RequestRow /\ Fits(request[q])
      BY DEF RequestsFit
    <3> HIDE DEF b
    <3>4. request'[q] \in RequestRow /\ request'[q].pc = request[q].pc /\ request'[q].op = request[q].op
          /\ request'[q].o = request[q].o /\ request'[q].c = request[q].c /\ request'[q].t = request[q].t
      BY <3>1, <3>2, <3>3 DEF RequestRow
    <3>5. QED
      BY <3>3, <3>4 DEF Fits
  <2>3. QED
    BY <2>1, <2>2
<1>3. request' = [q \in Requests |-> request'[q]]
  BY Zenon DEF Outdate
<1>4. request' \in [Requests -> RequestRow]
  BY <1>2, <1>3
<1>5. QED
  BY <1>2, <1>4 DEF RequestsFit

\* A request that begins: Idle but for some fields.
Begins(r, op, pc) == r \in RequestRow /\ r.op = op /\ r.pc = pc

LEMMA FailsAtOnce ==
    ASSUME TypeInv, NEW s \in Requests, NEW op \in Ops, Become(s, [Idle EXCEPT !.op = op, !.pc = "failed"]) PROVE RequestsFit'
<1> DEFINE no == [Idle EXCEPT !.op = op, !.pc = "failed"]
<1>1. no \in RequestRow /\ no.pc = "failed"
  BY IdleFits DEF RequestRow, Pcs
<1> HIDE DEF no
<1>2. Fits(no)
  BY <1>1 DEF Fits, Runs, Answers
<1>3. QED
  BY <1>1, <1>2, BecomeFits DEF TypeInv, no

LEMMA ResetFits == ASSUME TypeInv, NEW s \in Requests, ConfirmPasswordReset(s) PROVE RequestsFit'
<1>1. PICK c \in grants, pw \in NewPasswords :
          LET o == challenge[c].subject
              r == [Idle EXCEPT !.op = "reset", !.o = o, !.c = c, !.pw = pw, !.old = told \cap SessionsOf(o)]
              no == [Idle EXCEPT !.op = "reset", !.pc = "failed"]
          IN \/ Become(s, no)
             \/ /\ Granted(c, "PASSWORD_RESET")
                /\ \/ request' = Outdate(o, s, [r EXCEPT !.pc = "revoke"])
                   \/ request' = Outdate(o, s, [r EXCEPT !.pc = "failed"])
                   \/ Become(s, [r EXCEPT !.pc = "failed"])
  BY DEF ConfirmPasswordReset
<1> DEFINE o == challenge[c].subject
           old == told \cap SessionsOf(o)
           r == [Idle EXCEPT !.op = "reset", !.o = o, !.c = c, !.pw = pw, !.old = old]
<1>2. CASE Become(s, [Idle EXCEPT !.op = "reset", !.pc = "failed"])
  BY <1>2, FailsAtOnce DEF Ops
<1>3. CASE Granted(c, "PASSWORD_RESET")
  <2>1. c \in Challenge /\ pw \in Passwords /\ old \in SUBSET Tokens /\ o \in Owners
    BY <1>3, AccountsAssumption DEF TypeInv, AccountsTypeOK, ChallengesTypeOK, ChallengeRow, SubjectsKnown, NewPasswords, Granted
  <2> HIDE DEF o, old
  <2>2. r \in RequestRow /\ r.op = "reset" /\ r.o = o
    BY <2>1, IdleFits DEF RequestRow, Ops
  <2> HIDE DEF r
  <2>3. ASSUME NEW pc \in {"revoke", "failed"} PROVE [r EXCEPT !.pc = pc] \in RequestRow /\ Fits([r EXCEPT !.pc = pc])
    <3> DEFINE q == [r EXCEPT !.pc = pc]
    <3>1. q \in RequestRow /\ q.pc = pc /\ q.op = "reset" /\ q.o = o
      BY <2>2 DEF RequestRow, Pcs
    <3> HIDE DEF q
    <3>2. Fits(q)
      BY <2>1, <3>1 DEF Fits, Runs, Answers, TokenOps, UserTokenOps, AdminTokenOps
    <3>3. QED
      BY <3>1, <3>2 DEF q
  <2>4. \/ Become(s, [Idle EXCEPT !.op = "reset", !.pc = "failed"])
        \/ request' = Outdate(o, s, [r EXCEPT !.pc = "revoke"])
        \/ request' = Outdate(o, s, [r EXCEPT !.pc = "failed"])
        \/ Become(s, [r EXCEPT !.pc = "failed"])
    BY <1>1 DEF o, r, old
  <2>5. QED
    BY <1>2, <2>3, <2>4, BecomeFits, OutdateFits DEF TypeInv
<1>4. QED
  BY <1>1, <1>2, <1>3

LEMMA UpdateAdminFits == ASSUME TypeInv, NEW s \in Requests, UpdateAdmin(s) PROVE RequestsFit'
<1> DEFINE old == told \cap SessionsOf(request[s].o)
           r == To(s, "readback")
           q == [r EXCEPT !.old = old]
<1>1. request[s] \in RequestRow /\ Fits(request[s]) /\ request[s].pc = "update"
  BY DEF TypeInv, RequestsFit, UpdateAdmin, At
<1>2. old \in SUBSET Tokens
  BY DEF TypeInv, AccountsTypeOK
<1>3. r \in RequestRow /\ r.pc = "readback" /\ Same(r, request[s]) /\ r.t = request[s].t
  BY <1>1, ToTyped DEF Pcs
<1>4. \/ request' = Outdate(request[s].o, s, q)
      \/ request' = Outdate(request[s].o, s, To(s, "failed")) \/ Become(s, To(s, "failed"))
  BY DEF UpdateAdmin
<1>0. To(s, "failed") \in RequestRow /\ Fits(To(s, "failed"))
  BY <1>1, ToTyped DEF Pcs, Fits, Runs, Answers
<1> HIDE DEF r, old
<1>5. q \in RequestRow /\ q.pc = "readback" /\ q.op = r.op /\ q.o = r.o /\ q.c = r.c /\ q.t = r.t
  BY <1>2, <1>3 DEF RequestRow
<1> HIDE DEF q
<1>6. Fits(q)
  BY <1>1, <1>3, <1>5 DEF Fits, Runs, Answers, Same
<1>7. QED
  BY <1>0, <1>4, <1>5, <1>6, OutdateFits, BecomeFits DEF TypeInv

LEMMA RequestCodeFits == ASSUME TypeInv, NEW s \in Requests, RequestCode(s) PROVE RequestsFit'
<1>1. PICK purpose \in {"REGISTER", "PASSWORD_RESET"}, o \in Users, pc \in {"cansend", "failed"} :
          Become(s, [Idle EXCEPT !.op = "send", !.o = o, !.purpose = purpose, !.pc = pc])
  BY DEF RequestCode
<1> DEFINE q == [Idle EXCEPT !.op = "send", !.o = o, !.purpose = purpose, !.pc = pc]
<1>0. o \in Owners /\ purpose \in Purposes /\ pc \in Pcs /\ "send" \in Ops
  BY DEF Owners, Purposes, Pcs, Ops
<1>2. q \in RequestRow /\ q.op = "send" /\ q.pc = pc /\ q.o = o
  BY <1>0, IdleFits DEF RequestRow
<1> HIDE DEF q
<1>3. Fits(q)
  BY <1>2 DEF Fits, Runs, Answers, TokenOps, UserTokenOps, AdminTokenOps, Owners
<1>4. QED
  BY <1>1, <1>2, <1>3, BecomeFits DEF TypeInv, q

LEMMA InsertCodeFits == ASSUME TypeInv, NEW s \in Requests, InsertCode(s) PROVE RequestsFit'
<1>1. request[s] \in RequestRow /\ Fits(request[s]) /\ request[s].pc = "insert"
  BY DEF TypeInv, RequestsFit, InsertCode, At
<1>2. PICK c \in Challenge : Become(s, [To(s, "deliver") EXCEPT !.c = c]) \/ Become(s, To(s, "failed"))
  <2> DEFINE unused == {c \in Challenge : challenge[c].state = "none"}
             c == CHOOSE c \in unused : TRUE
  <2>1. c \in unused /\ (Become(s, [To(s, "deliver") EXCEPT !.c = c]) \/ Become(s, To(s, "failed")))
    BY DEF InsertCode
  <2>2. QED
    BY <2>1
<1> DEFINE r == To(s, "deliver")
           q == [r EXCEPT !.c = c]
<1>3. r \in RequestRow /\ r.pc = "deliver" /\ Same(r, request[s]) /\ r.t = request[s].t
  BY <1>1, ToTyped DEF Pcs
<1> HIDE DEF r
<1>4. q \in RequestRow /\ q.pc = "deliver" /\ q.op = r.op /\ q.o = r.o /\ q.c = c /\ q.t = r.t
  BY <1>3 DEF RequestRow
<1> HIDE DEF q
<1>5. Fits(q)
  BY <1>1, <1>3, <1>4 DEF Fits, Runs, Answers, Same
<1>6. QED
  BY <1>2, <1>4, <1>5, BecomeFits, PlainMove DEF TypeInv, q, r, Follows, Answers

LEMMA VerifyCodeFits == ASSUME TypeInv, NEW s \in Requests, VerifyCode(s) PROVE RequestsFit'
<1>1. PICK c \in Challenge :
         \/ Become(s, [[Idle EXCEPT !.op = "verify", !.c = c, !.pc = "failed"] EXCEPT !.pc = "ok"])
         \/ Become(s, [Idle EXCEPT !.op = "verify", !.c = c, !.pc = "failed"])
  BY DEF VerifyCode
<1> DEFINE r == [Idle EXCEPT !.op = "verify", !.c = c, !.pc = "failed"]
           q == [r EXCEPT !.pc = "ok"]
<1>2. r \in RequestRow /\ r.pc = "failed"
  BY IdleFits DEF RequestRow, Ops, Pcs
<1> HIDE DEF r
<1>3. q \in RequestRow /\ q.pc = "ok"
  BY <1>2 DEF RequestRow, Pcs
<1> HIDE DEF q
<1>4. Fits(q) /\ Fits(r)
  BY <1>2, <1>3 DEF Fits, Runs, Answers
<1>5. QED
  BY <1>1, <1>2, <1>3, <1>4, BecomeFits DEF TypeInv, q, r

LEMMA RegisterFits == ASSUME TypeInv, NEW s \in Requests, Register(s) PROVE RequestsFit'
<1>1. PICK c \in grants, o \in Users :
          LET r == [Idle EXCEPT !.op = "register", !.o = o, !.c = c, !.pc = "failed"]
          IN Become(s, r) \/ Become(s, [r EXCEPT !.pc = "setex"]) \/ Become(s, To(s, "failed"))
  <2>1. PICK c \in grants, o \in Users, pw \in NewPasswords :
          LET row == [pw |-> pw, legacy |-> FALSE, status |-> "active", verified |-> TRUE]
              r == [Idle EXCEPT !.op = "register", !.o = o, !.c = c, !.pc = "failed"]
          IN IF ~Granted(c, "REGISTER") \/ challenge[c].subject # o \/ account[o].status # "absent"
             THEN Become(s, r) /\ UNCHANGED <<challengeVars, account, changed, effects, faults>>
             ELSE Commit(s, /\ Consume(c) /\ account' = [account EXCEPT ![o] = row]
                            /\ Effect(<<"REGISTER", o>>) /\ UNCHANGED <<throttle, due, changed>>,
                         [r EXCEPT !.pc = "setex"])
    BY Zenon DEF Register
  <2>2. QED
    BY <2>1 DEF Commit
<1> DEFINE r == [Idle EXCEPT !.op = "register", !.o = o, !.c = c, !.pc = "failed"]
           q == [r EXCEPT !.pc = "setex"]
<1>2. c \in Challenge /\ o \in Owners
  BY DEF TypeInv, AccountsTypeOK, Owners
<1>3. r \in RequestRow /\ r.pc = "failed" /\ r.o = o /\ r.op = "register"
  <2>1. "register" \in Ops /\ "failed" \in Pcs
    BY DEF Ops, Pcs
  <2>2. QED
    BY <1>2, <2>1, IdleFits DEF RequestRow
<1> HIDE DEF r
<1>4. q \in RequestRow /\ q.pc = "setex" /\ q.o = o /\ q.op = "register"
  BY <1>3 DEF RequestRow, Pcs
<1> HIDE DEF q
<1>5. Fits(q) /\ Fits(r)
  BY <1>2, <1>3, <1>4 DEF Fits, Runs, Answers, TokenOps, UserTokenOps, AdminTokenOps
<1>6. QED
  BY <1>1, <1>3, <1>4, <1>5, BecomeFits, PlainMove DEF TypeInv, q, r, Follows, Answers

LEMMA RequestStepFits == ASSUME TypeInv, NEW s \in Requests, RequestStep(s) \/ MutateReminder(s) PROVE RequestsFit'
BY PlainFits, SetSessionFits, ResolveFits, RenewFits, ReadSessionFits, ReadIndexFits, RemoveListedFits, LoginFits,
   ReadRowFits, ReauthenticateFits, ResetFits, UpdateAdminFits, RequestCodeFits, InsertCodeFits, VerifyCodeFits,
   RegisterFits DEF RequestStep, PlainStep

\* The session store.
StoreChanges ==
    \/ UNCHANGED sessionVars
    \/ \E t \in FreshTokens, o \in Owners, must \in BOOLEAN : SetEx(t, o, must) \/ MemoryCreate(t, o, must)
    \/ \E t \in Tokens, o \in Owners : SAdd(o, t)
    \/ \E t \in Tokens, o \in Owners : SRem(o, t) /\ \E s \in Requests : At(s, "srem") /\ request[s].t = t
    \/ \E t \in Tokens : GetEx(t) \/ DelSession(t)
    \/ \E o \in Owners : ExpireIndex(o) \/ MemoryRemoveAll(o)
    \/ \E o \in Owners, undertaken \in SUBSET Tokens :
          /\ DropIndex(o, undertaken)
          /\ undertaken = {} \/ \E s \in Requests : At(s, "drop") /\ request[s].o = o /\ request[s].old = undertaken

LEMMA StoreTyped == ASSUME SessionsTypeOK, StoreChanges PROVE SessionsTypeOK'
<1>1. CASE UNCHANGED sessionVars
  BY <1>1 DEF SessionsTypeOK, sessionVars
<1>2. ASSUME NEW t \in Tokens, NEW o \in Owners, NEW must \in BOOLEAN, SetEx(t, o, must) \/ MemoryCreate(t, o, must)
      PROVE  SessionsTypeOK'
  BY <1>2 DEF SessionsTypeOK, SetEx, MemoryCreate
<1>3. ASSUME NEW t \in Tokens, NEW o \in Owners, SAdd(o, t) \/ SRem(o, t) PROVE SessionsTypeOK'
  BY <1>3 DEF SessionsTypeOK, SAdd, SRem
<1>4. ASSUME NEW t \in Tokens, GetEx(t) \/ DelSession(t) PROVE SessionsTypeOK'
  BY <1>4 DEF SessionsTypeOK, GetEx, DelSession
<1>5. ASSUME NEW o \in Owners, ExpireIndex(o) \/ MemoryRemoveAll(o) PROVE SessionsTypeOK'
  BY <1>5 DEF SessionsTypeOK, ExpireIndex, MemoryRemoveAll
<1>6. ASSUME NEW o \in Owners, NEW undertaken \in SUBSET Tokens, DropIndex(o, undertaken) PROVE SessionsTypeOK'
  BY <1>6 DEF SessionsTypeOK, DropIndex, SessionsOf
<1>7. QED
  BY <1>1, <1>2, <1>3, <1>4, <1>5, <1>6 DEF StoreChanges, FreshTokens

LEMMA RequestsStore ==
    ASSUME TypeInv, NEW s \in Requests, RequestStep(s) \/ MutateReminder(s) PROVE StoreChanges
<1> DEFINE r == request[s]
<1>0. r \in RequestRow /\ Fits(r)
  BY DEF TypeInv, RequestsFit
<1>1. CASE SetSession(s)
  <2> DEFINE t == CHOOSE t \in FreshTokens : TRUE
             must == r.o \in Admins /\ r.row.pw = Default
  <2>1. t \in FreshTokens /\ must \in BOOLEAN /\ r.o \in Owners
    BY <1>0, <1>1 DEF SetSession, At, Fits, Runs, Answers
  <2>2. UNCHANGED sessionVars \/ SetEx(t, r.o, must) \/ MemoryCreate(t, r.o, must)
    BY <1>1 DEF SetSession, Command, Refused
  <2> HIDE DEF t, must
  <2>3. QED
    BY <2>1, <2>2 DEF StoreChanges
<1>2. CASE IndexSession(s)
  <2>1. UNCHANGED sessionVars \/ SAdd(r.o, r.t)
    BY <1>2 DEF IndexSession, Command, Refused
  <2>2. QED
    BY <1>0, <1>2, <2>1 DEF StoreChanges, IndexSession, At, Fits, Runs, Answers
<1>3. CASE UndoSession(s) \/ RemoveSession(s)
  <2>1. UNCHANGED sessionVars \/ DelSession(r.t)
    BY <1>3 DEF UndoSession, RemoveSession, Command
  <2>2. QED
    BY <1>0, <1>3, <2>1 DEF StoreChanges, UndoSession, RemoveSession, At, Fits
<1>4. CASE TimeIndex(s) \/ Renew(s)
  <2>1. UNCHANGED sessionVars \/ ExpireIndex(r.o)
    BY <1>4 DEF TimeIndex, Renew, Command
  <2>2. QED
    BY <1>0, <1>4, <2>1 DEF StoreChanges, TimeIndex, Renew, At, Fits, Runs, Answers
<1>5. CASE Resolve(s)
  <2>1. PICK t \in told : UNCHANGED sessionVars \/ GetEx(t)
    BY <1>5 DEF Resolve, Command
  <2>2. QED
    BY <2>1 DEF StoreChanges, TypeInv, AccountsTypeOK
<1>6. CASE ReadSession(s)
  BY <1>6 DEF ReadSession, Command, StoreChanges
<1>7. CASE UnlistSession(s)
  <2>1. UNCHANGED sessionVars \/ SRem(r.o, r.t)
    BY <1>7 DEF UnlistSession, Command
  <2>2. QED
    BY <1>0, <1>7, <2>1 DEF StoreChanges, UnlistSession, At, Fits, Runs, Answers
<1>8. CASE ReadIndex(s)
  <2>1. UNCHANGED sessionVars \/ MemoryRemoveAll(r.o)
    BY <1>8 DEF ReadIndex, Command
  <2>2. QED
    BY <1>0, <1>8, <2>1 DEF StoreChanges, ReadIndex, At, Fits, Runs, Answers
<1>9. CASE RemoveListed(s)
  <2>1. PICK t \in r.list : UNCHANGED sessionVars \/ DelSession(t)
    BY <1>9 DEF RemoveListed, Command
  <2>2. t \in Tokens
    BY <1>0 DEF RequestRow
  <2>3. QED
    BY <2>1, <2>2 DEF StoreChanges
<1>10. CASE RemoveIndex(s)
  <2>1. UNCHANGED sessionVars \/ DropIndex(r.o, r.old)
    BY <1>10 DEF RemoveIndex, Command
  <2>2. r.old \in SUBSET Tokens
    BY <1>0 DEF RequestRow
  <2>3. QED
    BY <1>0, <1>10, <2>1, <2>2 DEF StoreChanges, RemoveIndex, At, Fits, Runs, Answers
<1>11. ASSUME \/ Login(s) \/ ReadRow(s) \/ Reauthenticate(s) \/ LoginFails(s) \/ Rehash(s) \/ Finish(s)
              \/ UpdateAdmin(s) \/ ReadBack(s) \/ Blacklist(s)
              \/ RequestCode(s) \/ CheckCooldown(s) \/ InsertCode(s) \/ Deliver(s) \/ RemoveUndelivered(s)
              \/ MutateReminder(s)
       PROVE  UNCHANGED sessionVars
  BY <1>11 DEF Login, ReadRow, Reauthenticate, LoginFails, Rehash, Finish, UpdateAdmin, ReadBack, Blacklist, RequestCode,
     CheckCooldown, InsertCode, Deliver, RemoveUndelivered, MutateReminder, SameStore
<1>12. ASSUME ConfirmPasswordReset(s) \/ VerifyCode(s) \/ Register(s) \/ BindContact(s) PROVE UNCHANGED sessionVars
  BY <1>12 DEF ConfirmPasswordReset, VerifyCode, Register, BindContact
<1>13. QED
  BY <1>1, <1>2, <1>3, <1>4, <1>5, <1>6, <1>7, <1>8, <1>9, <1>10, <1>11, <1>12 DEF RequestStep, StoreChanges

\* The codes and what they paid for.
CodeChanges ==
    \/ UNCHANGED <<challenge, wrong, spent, effects>>
    \/ /\ UNCHANGED <<wrong, spent, effects>>
       /\ \E c \in Challenge :
             \/ /\ challenge[c].state = "none"
                /\ \E p \in Purposes, o \in Owners :
                      InsertChallenge(c, p, o) /\ \E s \in Requests : At(s, "insert") /\ request[s].purpose = p /\ request[s].o = o
             \/ RemoveChallenge(c) \/ ChallengeLapses(c) \/ CooldownEnds(c) \/ PurgeChallenge(c)
    \/ /\ UNCHANGED effects
       /\ \E c \in Challenge, p \in Purposes :
             Active(c, p) /\ (FailAttempt(c) \/ MarkVerified(c) \/ (LoseAttempt(c) /\ faults' = faults + 1))
    \/ \E c \in Challenge :
          /\ challenge[c].state \in {"sent", "verified"}
          /\ Consume(c) /\ Effect(<<challenge[c].purpose, challenge[c].subject>>)

ThrottleChanges ==
    \/ UNCHANGED <<throttle, due>>
    \/ \E k \in Scopes \X Subjects : RecordFailure(k) \/ ClearThrottle(k) \/ WindowEnds(k) \/ LockEnds(k)

LEMMA RequestsCodes ==
    ASSUME TypeInv, NEW s \in Requests, RequestStep(s) \/ MutateReminder(s) PROVE CodeChanges /\ ThrottleChanges
<1> DEFINE r == request[s]
<1>0. r \in RequestRow /\ Fits(r)
  BY DEF TypeInv, RequestsFit
<1>1. ASSUME \/ SetSession(s) \/ IndexSession(s) \/ UndoSession(s) \/ TimeIndex(s) \/ Resolve(s) \/ Renew(s)
             \/ ReadSession(s) \/ RemoveSession(s) \/ UnlistSession(s)
             \/ ReadIndex(s) \/ RemoveListed(s) \/ RemoveIndex(s)
             \/ Login(s) \/ ReadRow(s) \/ Reauthenticate(s) \/ ReadBack(s) \/ RequestCode(s) \/ CheckCooldown(s)
             \/ MutateReminder(s)
      PROVE  UNCHANGED <<challengeVars, accountVars>>
  BY <1>1 DEF SetSession, IndexSession, UndoSession, TimeIndex, Resolve, Renew, ReadSession, RemoveSession, UnlistSession,
     ReadIndex, RemoveListed, RemoveIndex, Login, ReadRow, Reauthenticate, ReadBack, RequestCode, CheckCooldown,
     MutateReminder, SameAccount
<1>2. ASSUME UNCHANGED <<challengeVars, accountVars>> PROVE CodeChanges /\ ThrottleChanges
  BY <1>2 DEF challengeVars, accountVars, CodeChanges, ThrottleChanges
<1>3. CASE LoginFails(s)
  <2> DEFINE k == <<Scope(r), r.o>>
  <2>1. k \in Scopes \X Subjects
    BY <1>0, <1>3, AccountsAssumption DEF LoginFails, At, Fits, Runs, Answers, Scope, Scopes
  <2>2. (RecordFailure(k) \/ UNCHANGED challengeVars) /\ UNCHANGED accountVars
    BY <1>3 DEF LoginFails, Statement
  <2> HIDE DEF k
  <2>3. ThrottleChanges
    BY <2>1, <2>2 DEF ThrottleChanges, challengeVars
  <2>4. UNCHANGED <<challenge, wrong, spent, effects>>
    BY <2>2 DEF RecordFailure, accountVars, challengeVars
  <2>5. QED
    BY <2>3, <2>4 DEF CodeChanges
<1>4. CASE Rehash(s) \/ UpdateAdmin(s) \/ Blacklist(s)
  BY <1>4 DEF Rehash, UpdateAdmin, Blacklist, challengeVars, CodeChanges, ThrottleChanges
<1>5. CASE Finish(s)
  <2> DEFINE k == <<Scope(r), r.o>>
  <2>1. k \in Scopes \X Subjects
    BY <1>0, <1>5, AccountsAssumption DEF Finish, At, Fits, Runs, Answers, Scope, Scopes
  <2>2. (ClearThrottle(k) \/ UNCHANGED challengeVars) /\ UNCHANGED effects
    BY <1>5 DEF Finish, Statement
  <2> HIDE DEF k
  <2>3. QED
    BY <2>1, <2>2 DEF ThrottleChanges, CodeChanges, ClearThrottle, challengeVars
<1>6. CASE ConfirmPasswordReset(s)
  <2>1. PICK c \in grants :
           \/ UNCHANGED <<challengeVars, effects>>
           \/ /\ Granted(c, "PASSWORD_RESET") /\ Consume(c) /\ Effect(<<"PASSWORD_RESET", challenge[c].subject>>)
              /\ UNCHANGED <<throttle, due>>
    BY <1>6 DEF ConfirmPasswordReset
  <2>2. QED
    BY <2>1 DEF CodeChanges, ThrottleChanges, Granted, challengeVars, TypeInv, AccountsTypeOK
<1>7. CASE InsertCode(s)
  <2> DEFINE unused == {c \in Challenge : challenge[c].state = "none"}
             c == CHOOSE c \in unused : TRUE
  <2>1. c \in unused
    BY <1>7 DEF InsertCode
  <2>2. /\ InsertChallenge(c, r.purpose, r.o) \/ UNCHANGED challenge
        /\ UNCHANGED <<throttle, due, wrong, spent, accountVars>>
    BY <1>7 DEF InsertCode
  <2>3. r.purpose \in Purposes /\ r.o \in Owners /\ At(s, "insert")
    BY <1>0, <1>7 DEF InsertCode, At, Fits, Runs, Answers, RequestRow
  <2> HIDE DEF c
  <2>4. QED
    BY <2>1, <2>2, <2>3 DEF CodeChanges, ThrottleChanges, accountVars
<1>8. CASE Deliver(s)
  BY <1>8 DEF Deliver, challengeVars, CodeChanges, ThrottleChanges
<1>9. CASE RemoveUndelivered(s)
  <2>1. r.c \in Challenge
    BY <1>0, <1>9 DEF RemoveUndelivered, At, Fits
  <2>2. QED
    BY <1>9, <2>1 DEF RemoveUndelivered, Statement, accountVars, CodeChanges, ThrottleChanges
<1>10. CASE VerifyCode(s)
  <2>1. UNCHANGED effects
    BY <1>10 DEF VerifyCode
  <2>2. PICK c \in Challenge :
           \/ UNCHANGED challengeVars
           \/ /\ UNCHANGED <<throttle, due>>
              /\ \/ Active(c, challenge[c].purpose)
                    /\ (MarkVerified(c) \/ FailAttempt(c) \/ (LoseAttempt(c) /\ faults' = faults + 1))
                 \/ UNCHANGED <<challenge, wrong, spent>>
    BY <1>10 DEF VerifyCode, WrongCode, Statement, MayFail
  <2>3. challenge[c].purpose \in Purposes
    BY DEF TypeInv, AccountsTypeOK, ChallengesTypeOK, ChallengeRow
  <2>4. QED
    BY <2>1, <2>2, <2>3 DEF CodeChanges, ThrottleChanges, challengeVars
<1>11. CASE Register(s)
  <2>1. PICK c \in grants :
           \/ UNCHANGED <<challengeVars, effects>>
           \/ /\ Granted(c, "REGISTER") /\ Consume(c) /\ Effect(<<"REGISTER", challenge[c].subject>>)
              /\ UNCHANGED <<throttle, due>>
    BY <1>11 DEF Register, Commit
  <2>2. QED
    BY <2>1 DEF CodeChanges, ThrottleChanges, Granted, challengeVars, TypeInv, AccountsTypeOK
<1>12. CASE BindContact(s)
  <2>1. PICK c \in Challenge :
           \/ UNCHANGED <<challengeVars, effects>>
           \/ /\ Active(c, "CONTACT") /\ challenge[c].subject = r.o /\ UNCHANGED <<throttle, due>>
              /\ \/ Consume(c) /\ Effect(<<"CONTACT", r.o>>)
                 \/ (FailAttempt(c) \/ (LoseAttempt(c) /\ faults' = faults + 1)) /\ UNCHANGED effects
    BY <1>12 DEF BindContact, Commit, WrongCode, Statement, MayFail
  <2>2. QED
    BY <2>1 DEF CodeChanges, ThrottleChanges, Active, challengeVars, Purposes
<1>13. QED
  BY <1>1, <1>2, <1>3, <1>4, <1>5, <1>6, <1>7, <1>8, <1>9, <1>10, <1>11, <1>12 DEF RequestStep

LEMMA TimeCodes == ASSUME TimePasses PROVE CodeChanges /\ ThrottleChanges /\ StoreChanges
<1>1. CASE "sessionsExpire" \in offered /\ (\E t \in Tokens : SessionExpires(t)) /\ UNCHANGED challengeVars /\ Others
  BY <1>1 DEF SessionExpires, StoreChanges, Others, accountVars, challengeVars, CodeChanges, ThrottleChanges
<1>2. CASE "sessionsExpire" \in offered /\ (\E o \in Owners : IndexExpires(o)) /\ UNCHANGED challengeVars /\ Others
  BY <1>2 DEF IndexExpires, StoreChanges, Others, accountVars, challengeVars, CodeChanges, ThrottleChanges
<1>3. CASE /\ \E c \in Challenge : ChallengeLapses(c) \/ CooldownEnds(c) \/ PurgeChallenge(c)
           /\ UNCHANGED sessionVars /\ Others
  BY <1>3 DEF ChallengeLapses, CooldownEnds, PurgeChallenge, StoreChanges, Others, accountVars, CodeChanges, ThrottleChanges
<1>4. CASE /\ \E k \in Scopes \X Subjects : WindowEnds(k) \/ LockEnds(k)
           /\ UNCHANGED sessionVars /\ Others
  BY <1>4 DEF WindowEnds, LockEnds, StoreChanges, Others, accountVars, CodeChanges, ThrottleChanges
<1>5. QED
  BY <1>1, <1>2, <1>3, <1>4 DEF TimePasses

LEMMA RowTyped ==
    ASSUME ChallengesTypeOK, SubjectsKnown, NEW c \in Challenge, NEW row \in ChallengeRow,
           row.state \in {"sent", "verified"} => row.subject \in Owners, challenge' = [challenge EXCEPT ![c] = row]
    PROVE  challenge' \in [Challenge -> ChallengeRow] /\ SubjectsKnown'
BY DEF ChallengesTypeOK, SubjectsKnown

LEMMA ChallengeTyped ==
    ASSUME ChallengesTypeOK, SubjectsKnown, CodeChanges PROVE challenge' \in [Challenge -> ChallengeRow] /\ SubjectsKnown'
<1> DEFINE Typed == challenge' \in [Challenge -> ChallengeRow] /\ SubjectsKnown'
<1>0. challenge \in [Challenge -> ChallengeRow]
  BY DEF ChallengesTypeOK
<1>1. CASE UNCHANGED challenge
  BY <1>0, <1>1 DEF SubjectsKnown
<1>11. ASSUME NEW c \in Challenge, LoseAttempt(c) PROVE Typed
  BY <1>1, <1>11 DEF LoseAttempt
<1>2. ASSUME NEW c \in Challenge, NEW p \in Purposes, NEW o \in Owners, InsertChallenge(c, p, o) PROVE Typed
  <2> DEFINE row == [state |-> "sent", purpose |-> p, subject |-> o, attempts |-> 0, recent |-> TRUE]
  <2>1. row \in ChallengeRow /\ row.state = "sent" /\ row.subject = o
    BY AccountsAssumption, ChallengesAssumption DEF ChallengeRow, ChallengeStates
  <2>2. challenge' = [challenge EXCEPT ![c] = row]
    BY <1>2 DEF InsertChallenge
  <2> HIDE DEF row
  <2>3. QED
    BY <2>1, <2>2, RowTyped
<1>3. ASSUME NEW c \in Challenge, RemoveChallenge(c) PROVE Typed
  <2> DEFINE row == [challenge[c] EXCEPT !.state = "deleted", !.recent = FALSE]
  <2>1. row \in ChallengeRow /\ row.state = "deleted"
    BY <1>0 DEF ChallengeRow, ChallengeStates
  <2>2. challenge' = [challenge EXCEPT ![c] = row]
    BY <1>0, <1>3 DEF RemoveChallenge
  <2> HIDE DEF row
  <2>3. QED
    BY <2>1, <2>2, RowTyped
<1>4. ASSUME NEW c \in Challenge, NEW st \in ChallengeStates, challenge' = [challenge EXCEPT ![c].state = st],
             st \in {"sent", "verified"} => challenge[c].state \in {"sent", "verified"}
      PROVE  Typed
  <2> DEFINE row == [challenge[c] EXCEPT !.state = st]
  <2>1. row \in ChallengeRow /\ row.state = st /\ row.subject = challenge[c].subject
    BY <1>0 DEF ChallengeRow
  <2>2. challenge' = [challenge EXCEPT ![c] = row]
    BY <1>0, <1>4
  <2>3. st \in {"sent", "verified"} => challenge[c].subject \in Owners
    BY <1>4 DEF SubjectsKnown
  <2> HIDE DEF row
  <2>4. QED
    BY <2>1, <2>2, <2>3, RowTyped
<1>5. ASSUME NEW c \in Challenge, CooldownEnds(c) PROVE Typed
  <2> DEFINE row == [challenge[c] EXCEPT !.recent = FALSE]
  <2>1. row \in ChallengeRow /\ row.state = challenge[c].state /\ row.subject = challenge[c].subject
    BY <1>0 DEF ChallengeRow
  <2>2. challenge' = [challenge EXCEPT ![c] = row]
    BY <1>0, <1>5 DEF CooldownEnds
  <2> HIDE DEF row
  <2>3. QED
    BY <2>1, <2>2, RowTyped DEF SubjectsKnown
<1>6. ASSUME NEW c \in Challenge, challenge[c].attempts < MaxAttempts, FailAttempt(c) PROVE Typed
  <2> DEFINE row == [challenge[c] EXCEPT !.attempts = @ + 1]
  <2>1. row \in ChallengeRow /\ row.state = challenge[c].state /\ row.subject = challenge[c].subject
    BY <1>0, <1>6, ChallengesAssumption DEF ChallengeRow
  <2>2. challenge' = [challenge EXCEPT ![c] = row]
    BY <1>0, <1>6 DEF FailAttempt
  <2> HIDE DEF row
  <2>3. QED
    BY <2>1, <2>2, RowTyped DEF SubjectsKnown
<1>7. ASSUME NEW c \in Challenge, ChallengeLapses(c) \/ PurgeChallenge(c) PROVE Typed
  BY <1>4, <1>7 DEF ChallengeLapses, PurgeChallenge, ChallengeStates
<1>8. ASSUME NEW c \in Challenge, MarkVerified(c), challenge[c].state = "sent" PROVE Typed
  BY <1>4, <1>8 DEF MarkVerified, ChallengeStates
<1>9. ASSUME NEW c \in Challenge, Consume(c) PROVE Typed
  BY <1>4, <1>9 DEF Consume, ChallengeStates
<1>10. QED
  BY <1>1, <1>2, <1>3, <1>5, <1>6, <1>7, <1>8, <1>9, <1>11 DEF CodeChanges, Active

LEMMA CodesTyped ==
    ASSUME ChallengesTypeOK, SubjectsKnown, effects \in [Purposes \X Owners -> Nat], CodeChanges, ThrottleChanges
    PROVE  ChallengesTypeOK' /\ SubjectsKnown' /\ effects' \in [Purposes \X Owners -> Nat]
<1> USE DEF ChallengesTypeOK
<1>1. challenge' \in [Challenge -> ChallengeRow] /\ SubjectsKnown'
  BY ChallengeTyped
<1>2. wrong' \in [Challenge -> Nat] /\ spent' \in [Challenge -> Nat]
  <2>1. \/ UNCHANGED wrong
        \/ \E c \in Challenge : wrong' = [wrong EXCEPT ![c] = @ + 1]
    BY DEF CodeChanges, FailAttempt, LoseAttempt, MarkVerified, Consume
  <2>2. \/ UNCHANGED spent
        \/ \E c \in Challenge : spent' = [spent EXCEPT ![c] = @ + 1]
    BY DEF CodeChanges, FailAttempt, LoseAttempt, MarkVerified, Consume
  <2>3. QED
    BY <2>1, <2>2
<1>3. effects' \in [Purposes \X Owners -> Nat]
  <2>1. ASSUME NEW k \in Purposes \X Owners, Effect(k) PROVE effects' \in [Purposes \X Owners -> Nat]
    BY <2>1 DEF Effect
  <2>2. UNCHANGED effects \/ \E c \in Challenge : /\ challenge[c].state \in {"sent", "verified"}
                                                  /\ Effect(<<challenge[c].purpose, challenge[c].subject>>)
    BY DEF CodeChanges
  <2>3. ASSUME NEW c \in Challenge, challenge[c].state \in {"sent", "verified"}
        PROVE  <<challenge[c].purpose, challenge[c].subject>> \in Purposes \X Owners
    BY <2>3 DEF SubjectsKnown, ChallengeRow
  <2>4. QED
    BY <2>1, <2>2, <2>3
<1>4. /\ throttle' \in [Scopes \X Subjects -> [count : Nat, window : BOOLEAN, locked : BOOLEAN]]
      /\ due' \in [Scopes \X Subjects -> Nat]
  <2>1. CASE UNCHANGED <<throttle, due>>
    BY <2>1
  <2>2. ASSUME NEW k \in Scopes \X Subjects, RecordFailure(k) PROVE <1>4!:
    BY <2>2, ChallengesAssumption DEF RecordFailure
  <2>3. ASSUME NEW k \in Scopes \X Subjects, ClearThrottle(k) PROVE <1>4!:
    BY <2>3 DEF ClearThrottle, NoThrottle
  <2>4. ASSUME NEW k \in Scopes \X Subjects, WindowEnds(k) PROVE <1>4!:
    BY <2>4 DEF WindowEnds
  <2>5. ASSUME NEW k \in Scopes \X Subjects, LockEnds(k) PROVE <1>4!:
    BY <2>5 DEF LockEnds
  <2>6. QED
    BY <2>1, <2>2, <2>3, <2>4, <2>5 DEF ThrottleChanges
<1>5. QED
  BY <1>1, <1>2, <1>3, <1>4

\* Accounts and what clients have been told.
LEMMA AccountTyped ==
    ASSUME TypeInv, NEW s \in Requests, RequestStep(s) \/ MutateReminder(s)
    PROVE  /\ told' \subseteq Tokens /\ grants' \subseteq Challenge /\ mailed' \subseteq Challenge
           /\ account' \in [Owners -> AccountRow] /\ changed' \in [Owners -> Passwords \cup {NoOne}]
<1> DEFINE r == request[s]
           Typed == /\ told' \subseteq Tokens /\ grants' \subseteq Challenge /\ mailed' \subseteq Challenge
                    /\ account' \in [Owners -> AccountRow] /\ changed' \in [Owners -> Passwords \cup {NoOne}]
<1>0. /\ r \in RequestRow /\ Fits(r)
      /\ told \subseteq Tokens /\ grants \subseteq Challenge /\ mailed \subseteq Challenge
      /\ account \in [Owners -> AccountRow] /\ changed \in [Owners -> Passwords \cup {NoOne}]
  BY DEF TypeInv, RequestsFit, AccountsTypeOK
<1>1. ASSUME UNCHANGED accountVars PROVE Typed
  BY <1>0, <1>1 DEF accountVars
<1>2. ASSUME \/ SetSession(s) \/ IndexSession(s) \/ UndoSession(s) \/ TimeIndex(s) \/ Resolve(s) \/ Renew(s)
             \/ ReadSession(s) \/ RemoveSession(s) \/ UnlistSession(s)
             \/ ReadIndex(s) \/ RemoveListed(s) \/ RemoveIndex(s)
             \/ Login(s) \/ ReadRow(s) \/ Reauthenticate(s) \/ ReadBack(s) \/ RequestCode(s) \/ CheckCooldown(s)
             \/ MutateReminder(s) \/ LoginFails(s) \/ InsertCode(s) \/ RemoveUndelivered(s)
      PROVE  UNCHANGED accountVars
  BY <1>2 DEF SetSession, IndexSession, UndoSession, TimeIndex, Resolve, Renew, ReadSession, RemoveSession, UnlistSession,
     ReadIndex, RemoveListed, RemoveIndex, Login, ReadRow, Reauthenticate, ReadBack, RequestCode, CheckCooldown,
     MutateReminder, SameAccount, LoginFails, InsertCode, RemoveUndelivered
<1>3. ASSUME UNCHANGED <<told, grants, mailed, changed>>, NEW o \in Owners, NEW row \in AccountRow,
             account' = [account EXCEPT ![o] = row]
      PROVE  Typed
  BY <1>0, <1>3
<1>4. ASSUME NEW o \in Owners, NEW pw \in Passwords, SetPassword(o, pw), UNCHANGED <<told, grants, mailed>> PROVE Typed
  BY <1>0, <1>4 DEF SetPassword, AccountRow
<1>5. CASE Rehash(s)
  <2>1. r.o \in Owners /\ r.pw \in Passwords
    BY <1>0, <1>5 DEF Rehash, At, Fits, Runs, Answers, RequestRow
  <2>2. /\ account' = [account EXCEPT ![r.o].pw = r.pw, ![r.o].legacy = FALSE] \/ UNCHANGED account
        /\ UNCHANGED <<told, grants, mailed, changed>>
    BY <1>5 DEF Rehash, Statement, SameRest
  <2> HIDE DEF r
  <2>3. QED
    BY <1>0, <2>1, <2>2 DEF AccountRow
<1>6. CASE UpdateAdmin(s)
  <2>1. r.o \in Owners /\ r.pw \in Passwords
    BY <1>0, <1>6 DEF UpdateAdmin, At, Fits, Runs, Answers, RequestRow
  <2>2. SetPassword(r.o, r.pw) \/ UNCHANGED <<account, changed>>
    BY <1>6 DEF UpdateAdmin
  <2>3. UNCHANGED <<told, grants, mailed>>
    BY <1>6 DEF UpdateAdmin, SameRest
  <2>4. CASE UNCHANGED <<account, changed>>
    BY <1>0, <2>3, <2>4
  <2>5. CASE SetPassword(r.o, r.pw)
    BY <2>1, <2>3, <2>5, <1>4
  <2>6. QED
    BY <2>2, <2>4, <2>5
<1>7. CASE Blacklist(s)
  <2>1. PICK u \in Users, to \in {"active", "disabled"} : account' = [account EXCEPT ![u].status = to] \/ UNCHANGED account
    BY <1>7 DEF Blacklist
  <2>2. UNCHANGED <<told, grants, mailed, changed>>
    BY <1>7 DEF Blacklist, SameRest
  <2>3. u \in Owners
    BY DEF Owners
  <2>4. QED
    BY <1>0, <2>1, <2>2, <2>3 DEF AccountRow
<1>8. CASE Finish(s)
  <2>1. r.t \in Tokens
    BY <1>0, <1>8 DEF Finish, At, Fits
  <2>2. told' \subseteq told \cup {r.t} /\ UNCHANGED <<account, grants, mailed, changed>>
    BY <1>8 DEF Finish
  <2>3. QED
    BY <1>0, <2>1, <2>2
<1>9. CASE ConfirmPasswordReset(s)
  <2>1. PICK c \in grants, pw \in NewPasswords :
           \/ UNCHANGED <<account, changed>>
           \/ Granted(c, "PASSWORD_RESET") /\ SetPassword(challenge[c].subject, pw)
    BY <1>9 DEF ConfirmPasswordReset
  <2>2. UNCHANGED <<told, grants, mailed>>
    BY <1>9 DEF ConfirmPasswordReset, SameRest
  <2>3. CASE UNCHANGED <<account, changed>>
    BY <1>0, <2>2, <2>3
  <2>4. CASE Granted(c, "PASSWORD_RESET") /\ SetPassword(challenge[c].subject, pw)
    <3>1. challenge[c].subject \in Owners /\ pw \in Passwords
      BY <1>0, <2>4 DEF Granted, TypeInv, SubjectsKnown, NewPasswords
    <3>2. QED
      BY <2>2, <2>4, <3>1, <1>4
  <2>5. QED
    BY <2>1, <2>3, <2>4
<1>10. CASE Deliver(s)
  <2>1. r.c \in Challenge
    BY <1>0, <1>10 DEF Deliver, At, Fits
  <2>2. mailed' \subseteq mailed \cup {r.c} /\ UNCHANGED <<account, grants, told, changed>>
    BY <1>10 DEF Deliver
  <2>3. QED
    BY <1>0, <2>1, <2>2
<1>11. CASE VerifyCode(s)
  <2>1. PICK c \in Challenge : UNCHANGED grants \/ grants' = grants \cup {c}
    BY <1>11 DEF VerifyCode
  <2>2. UNCHANGED <<account, mailed, told, changed>>
    BY <1>11 DEF VerifyCode
  <2>3. QED
    BY <1>0, <2>1, <2>2
<1>12. CASE Register(s)
  <2>1. PICK o \in Users, pw \in NewPasswords :
           LET row == [pw |-> pw, legacy |-> FALSE, status |-> "active", verified |-> TRUE]
           IN /\ UNCHANGED account \/ account' = [account EXCEPT ![o] = row]
              /\ UNCHANGED changed
    BY <1>12 DEF Register, Commit
  <2>2. UNCHANGED <<told, grants, mailed>>
    BY <1>12 DEF Register, SameRest
  <2> DEFINE row == [pw |-> pw, legacy |-> FALSE, status |-> "active", verified |-> TRUE]
  <2>3. o \in Owners /\ row \in AccountRow
    BY DEF Owners, AccountRow, NewPasswords
  <2>4. QED
    BY <1>0, <1>3, <2>1, <2>2, <2>3
<1>13. CASE BindContact(s)
  <2>1. account' = [account EXCEPT ![r.o].verified = TRUE] \/ UNCHANGED account
    BY <1>13 DEF BindContact, Commit
  <2>2. UNCHANGED <<told, grants, mailed, changed>>
    BY <1>13 DEF BindContact, Commit, SameRest
  <2>3. r.o \in Owners
    BY <1>0, <1>13 DEF BindContact, At, Fits, Runs, Answers
  <2> HIDE DEF r
  <2>4. QED
    BY <1>0, <2>1, <2>2, <2>3 DEF AccountRow
<1>14. QED
  BY <1>1, <1>2, <1>5, <1>6, <1>7, <1>8, <1>9, <1>10, <1>11, <1>12, <1>13 DEF RequestStep

LEMMA FaultsCounted ==
    ASSUME NEW s \in Requests, RequestStep(s) \/ MutateReminder(s) PROVE UNCHANGED faults \/ MayFail
<1>1. CASE SetSession(s) \/ IndexSession(s) \/ UndoSession(s) \/ TimeIndex(s) \/ Renew(s) \/ ReadSession(s)
           \/ RemoveSession(s) \/ UnlistSession(s) \/ ReadIndex(s) \/ RemoveListed(s) \/ RemoveIndex(s)
  BY <1>1 DEF SetSession, IndexSession, UndoSession, TimeIndex, Renew, ReadSession, RemoveSession, UnlistSession,
     ReadIndex, RemoveListed, RemoveIndex, Command, Refused
<1>2. CASE Resolve(s)
  BY <1>2 DEF Resolve, Command
<1>3. CASE \/ Login(s) \/ ReadRow(s) \/ Reauthenticate(s) \/ LoginFails(s) \/ Rehash(s) \/ Finish(s)
           \/ UpdateAdmin(s) \/ ReadBack(s) \/ Blacklist(s)
           \/ RequestCode(s) \/ CheckCooldown(s) \/ InsertCode(s) \/ Deliver(s) \/ RemoveUndelivered(s)
           \/ MutateReminder(s)
  BY <1>3 DEF Login, ReadRow, Reauthenticate, LoginFails, Rehash, Finish, UpdateAdmin, ReadBack, Blacklist, RequestCode,
     CheckCooldown, InsertCode, Deliver, RemoveUndelivered, MutateReminder, SameStore, Check, Statement
<1>4. CASE ConfirmPasswordReset(s)
  BY <1>4 DEF ConfirmPasswordReset
<1>5. CASE VerifyCode(s)
  BY <1>5 DEF VerifyCode, WrongCode, Statement
<1>6. CASE Register(s) \/ BindContact(s)
  BY <1>6 DEF Register, BindContact, Commit, WrongCode, Statement
<1>7. QED
  BY <1>1, <1>2, <1>3, <1>4, <1>5, <1>6 DEF RequestStep

\* The reminders change by their own actions and by those of a subscriber.
ReminderChanges ==
    \/ UNCHANGED reminderVars
    \/ RemindersNext
    \/ \E u \in Subscribers : AddReminder(u) \/ CancelReminder(u)

LEMMA RemindersStep == ASSUME TypeInv, [Next]_vars PROVE ReminderChanges
<1>1. CASE UNCHANGED vars
  BY <1>1 DEF vars, ReminderChanges
<1>2. ASSUME NEW s \in Requests, MutateReminder(s) PROVE ReminderChanges
  <2>1. request[s].pc \in {"remind", "unremind"}
    BY <1>2 DEF MutateReminder, At
  <2>2. request[s].o \in Users
    BY <2>1 DEF TypeInv, RequestsFit, Fits, Runs, Answers, UserTokenOps
  <2>3. QED
    BY <1>2, <2>2, AccountsAssumption DEF MutateReminder, ReminderChanges
<1>3. QED
  BY <1>1, <1>2 DEF Next, ReminderChanges

LEMMA RemindersTyped == ASSUME RemindersTypeOK, ReminderChanges PROVE RemindersTypeOK'
<1> USE RemindersAssumption DEF RemindersTypeOK, Statuses
<1>1. CASE UNCHANGED reminderVars
  BY <1>1 DEF reminderVars
<1>2. ASSUME NEW u \in Subscribers, AddReminder(u) PROVE RemindersTypeOK'
  BY <1>2 DEF AddReminder
<1>3. ASSUME NEW u \in Subscribers, CancelReminder(u) PROVE RemindersTypeOK'
  BY <1>3 DEF CancelReminder
<1>4. ASSUME NEW d \in Servers, ReadDue(d) PROVE RemindersTypeOK'
  BY <1>4 DEF ReadDue
<1>5. ASSUME NEW d \in Servers, Conclude(d) PROVE RemindersTypeOK'
  <2>1. sending[d] \in Subscribers
    BY <1>5 DEF Conclude
  <2>2. reminder' \in [Subscribers -> [status : Statuses, attempts : Nat, ready : BOOLEAN]]
    <3>1. \/ reminder' = reminder
          \/ reminder' = [reminder EXCEPT ![sending[d]].status = "SENT"]
          \/ \E st \in {"FAILED", "PENDING"} :
                reminder' = [reminder EXCEPT ![sending[d]] =
                    [status |-> st, attempts |-> reminder[sending[d]].attempts, ready |-> FALSE]]
      BY <1>5 DEF Conclude
    <3>2. CASE reminder' = [reminder EXCEPT ![sending[d]].status = "SENT"]
      BY <2>1, <3>2
    <3>3. ASSUME NEW st \in {"FAILED", "PENDING"},
                 reminder' = [reminder EXCEPT ![sending[d]] =
                    [status |-> st, attempts |-> reminder[sending[d]].attempts, ready |-> FALSE]]
          PROVE  <2>2!:
      <4> DEFINE row == [status |-> st, attempts |-> reminder[sending[d]].attempts, ready |-> FALSE]
      <4>1. row \in [status : Statuses, attempts : Nat, ready : BOOLEAN]
        BY <2>1
      <4> HIDE DEF row
      <4>2. QED
        BY <2>1, <3>3, <4>1 DEF row
    <3>4. QED
      BY <3>1, <3>2, <3>3
  <2>3. delivered' \in [Subscribers -> Nat] /\ unheard' \in [Subscribers -> Nat]
    <3>1. Mailed(sending[d]) \/ UNCHANGED delivered
      BY <1>5 DEF Conclude
    <3>2. UNCHANGED unheard \/ unheard' = [unheard EXCEPT ![sending[d]] = @ + 1]
      BY <1>5 DEF Conclude
    <3>3. QED
      BY <2>1, <3>1, <3>2 DEF Mailed
  <2>4. saleOpen' = saleOpen /\ batch' = batch /\ asked' = asked /\ sending' = [sending EXCEPT ![d] = Nothing]
    BY <1>5 DEF Conclude
  <2>5. QED
    BY <2>2, <2>3, <2>4
<1>6. ASSUME NEW d \in Servers, StopDispatch(d) PROVE RemindersTypeOK'
  <2>1. delivered' \in [Subscribers -> Nat]
    BY <1>6 DEF StopDispatch, Mailed
  <2>2. QED
    BY <1>6, <2>1 DEF StopDispatch
<1>7. ASSUME NEW d \in Servers, NEW u \in Subscribers, Claim(d, u) PROVE RemindersTypeOK'
  BY <1>7 DEF Claim
<1>8. CASE SaleOpens
  BY <1>8 DEF SaleOpens
<1>9. ASSUME NEW u \in Subscribers, RetryDue(u) PROVE RemindersTypeOK'
  BY <1>9 DEF RetryDue
<1>10. QED
  BY <1>1, <1>2, <1>3, <1>4, <1>5, <1>6, <1>7, <1>8, <1>9 DEF ReminderChanges, RemindersNext

\* A failure is counted, and none is forgotten.
LEMMA FaultsRemembered == ASSUME TypeInv, [Next]_vars PROVE faults' \in {faults, faults + 1}
<1>1. CASE \E s \in Requests : RequestStep(s) \/ MutateReminder(s)
  BY <1>1, FaultsCounted DEF MayFail
<1>2. CASE TimePasses \/ UNCHANGED vars \/ UNCHANGED <<sessionVars, challengeVars, accountVars, request, faults>>
  BY <1>2 DEF TimePasses, Others, vars
<1>3. QED
  BY <1>1, <1>2 DEF Next

\* What happens in a step, by the parts of the state.
LEMMA StepParts ==
    ASSUME TypeInv, [Next]_vars PROVE StoreChanges /\ CodeChanges /\ ThrottleChanges
<1>1. CASE UNCHANGED vars
  BY <1>1 DEF vars, accountVars, challengeVars, StoreChanges, CodeChanges, ThrottleChanges
<1>2. CASE \E s \in Requests : RequestStep(s) \/ MutateReminder(s)
  BY <1>2, RequestsStore, RequestsCodes
<1>3. CASE TimePasses
  BY <1>3, TimeCodes
<1>4. CASE UNCHANGED <<sessionVars, challengeVars, accountVars, request, faults>>
  BY <1>4 DEF accountVars, challengeVars, StoreChanges, CodeChanges, ThrottleChanges
<1>5. QED
  BY <1>1, <1>2, <1>3, <1>4 DEF Next

LEMMA TypesInitially == Init => TypeInv
<1> SUFFICES ASSUME NEW seed \in Seeds, InitWith(seed) PROVE TypeInv
  BY DEF Init
<1>1. /\ backend \in {"memory", "redis"} /\ account \in [Owners -> AccountRow]
      /\ session \in [Tokens -> Owners \cup {NoOne}] /\ challenge \in [Challenge -> ChallengeRow]
      /\ \A c \in Challenge : challenge[c].state # "none" => challenge[c].subject \in Owners
  BY SeedsAssumption DEF InitWith
<1>2. SessionsTypeOK
  BY <1>1 DEF InitWith, SessionsTypeOK, SessionsOf
<1>3. ChallengesTypeOK
  BY <1>1 DEF InitWith, ChallengesTypeOK, NoThrottle
<1>4. RemindersTypeOK
  BY DEF InitWith, RemindersInit, RemindersTypeOK, Statuses
<1>5. RequestsFit
  <2> DEFINE ended == [Idle EXCEPT !.pc = "ok"]
  <2>1. ended \in RequestRow /\ ended.pc = "ok"
    BY IdleFits DEF RequestRow, Pcs
  <2>2. \A s \in Requests : request[s] = Idle \/ request[s] = ended
    BY DEF InitWith
  <2>3. request = [s \in Requests |-> request[s]]
    BY Zenon DEF InitWith
  <2> HIDE DEF ended
  <2>4. Fits(ended)
    BY <2>1 DEF Fits, Runs, Answers
  <2>5. QED
    BY <2>1, <2>2, <2>3, <2>4, IdleFits DEF RequestsFit
<1>6. told \subseteq Tokens /\ grants \subseteq Challenge /\ mailed \subseteq Challenge
  BY DEF InitWith
<1>7. changed \in [Owners -> Passwords \cup {NoOne}] /\ effects \in [Purposes \X Owners -> Nat] /\ faults \in 0 .. MaxFaults
  BY AccountsAssumption DEF InitWith
<1>8. SubjectsKnown
  BY <1>1 DEF SubjectsKnown
<1>9. QED
  BY <1>1, <1>2, <1>3, <1>4, <1>5, <1>6, <1>7, <1>8 DEF TypeInv, AccountsTypeOK, RequestsFit

LEMMA TypesKept == TypeInv /\ [Next]_vars => TypeInv'
<1> SUFFICES ASSUME TypeInv, [Next]_vars PROVE TypeInv'
  OBVIOUS
<1> DEFINE Rest == /\ RequestsFit' /\ faults' \in 0 .. MaxFaults
                   /\ told' \subseteq Tokens /\ grants' \subseteq Challenge /\ mailed' \subseteq Challenge
                   /\ account' \in [Owners -> AccountRow] /\ changed' \in [Owners -> Passwords \cup {NoOne}]
<1>1. SessionsTypeOK' /\ ChallengesTypeOK' /\ SubjectsKnown' /\ effects' \in [Purposes \X Owners -> Nat] /\ RemindersTypeOK'
  BY StepParts, RemindersStep, StoreTyped, CodesTyped, RemindersTyped DEF TypeInv, AccountsTypeOK
<1>2. ASSUME NEW s \in Requests, RequestStep(s) \/ MutateReminder(s) PROVE Rest
  <2>1. faults' \in 0 .. MaxFaults
    BY <1>2, FaultsCounted, AccountsAssumption DEF MayFail, TypeInv, AccountsTypeOK
  <2>2. QED
    BY <1>2, <2>1, RequestStepFits, AccountTyped
<1>3. ASSUME UNCHANGED <<accountVars, request, faults>> PROVE Rest
  BY <1>3 DEF accountVars, TypeInv, AccountsTypeOK, RequestsFit
<1>4. Rest
  <2>1. CASE \E s \in Requests : RequestStep(s) \/ MutateReminder(s)
    BY <1>2, <2>1
  <2>2. CASE TimePasses \/ UNCHANGED vars \/ UNCHANGED <<sessionVars, challengeVars, accountVars, request, faults>>
    BY <1>3, <2>2 DEF TimePasses, Others, vars
  <2>3. QED
    BY <2>1, <2>2 DEF Next
<1>5. QED
  BY <1>1, <1>4 DEF TypeInv, AccountsTypeOK, RequestsFit

LEMMA TypesAlways == Spec => []TypeInv
BY TypesInitially, TypesKept, PTL DEF Spec

\* Rows, keys, requests and history keep their types whatever fails.
THEOREM AccountsTypeCorrect == Spec => []AccountsTypeOK
BY TypesAlways, PTL DEF TypeInv

-----------------------------------------------------------------------------
(* Codes.                                                                   *)

\* A wrong comparison is counted in the row unless a statement failed, and a
\* row that has paid for something is consumed.
CodesCounted ==
    \A c \in Challenge :
        /\ wrong[c] <= challenge[c].attempts + faults
        /\ challenge[c].state = "none" => wrong[c] = 0
        /\ spent[c] <= 1
        /\ challenge[c].state \notin {"consumed", "deleted"} => spent[c] = 0

LEMMA CodesCountedStep ==
    ASSUME TypeInv, CodesCounted, CodeChanges, faults' \in {faults, faults + 1} PROVE CodesCounted'
<1> SUFFICES ASSUME NEW d \in Challenge PROVE CodesCounted!(d)'
  BY DEF CodesCounted
<1>0. /\ challenge \in [Challenge -> ChallengeRow] /\ wrong \in [Challenge -> Nat] /\ spent \in [Challenge -> Nat]
      /\ \A c \in Challenge : CodesCounted!(c) /\ challenge[c].attempts \in Nat
      /\ faults \in Nat /\ faults' \in Nat /\ faults <= faults'
  BY AccountsAssumption, ChallengesAssumption DEF TypeInv, AccountsTypeOK, ChallengesTypeOK, ChallengeRow, CodesCounted
<1>1. CASE UNCHANGED <<challenge, wrong, spent, effects>>
  BY <1>0, <1>1
<1>2. ASSUME UNCHANGED <<wrong, spent, effects>>, NEW c \in Challenge, NEW p, NEW o, challenge[c].state = "none",
             InsertChallenge(c, p, o)
      PROVE  CodesCounted!(d)'
  BY <1>0, <1>2 DEF InsertChallenge
<1>3. ASSUME UNCHANGED <<wrong, spent, effects>>, NEW c \in Challenge, RemoveChallenge(c)
      PROVE  CodesCounted!(d)'
  BY <1>0, <1>3 DEF RemoveChallenge, ChallengeRow
<1>4. ASSUME NEW c \in Challenge, ChallengeLapses(c) PROVE CodesCounted!(d)'
  BY <1>0, <1>4 DEF ChallengeLapses, ChallengeRow
<1>5. ASSUME NEW c \in Challenge, CooldownEnds(c) PROVE CodesCounted!(d)'
  BY <1>0, <1>5 DEF CooldownEnds, ChallengeRow
<1>6. ASSUME NEW c \in Challenge, PurgeChallenge(c) PROVE CodesCounted!(d)'
  BY <1>0, <1>6 DEF PurgeChallenge, ChallengeRow
<1>7. ASSUME NEW c \in Challenge, NEW p, Active(c, p), FailAttempt(c) PROVE CodesCounted!(d)'
  BY <1>0, <1>7 DEF Active, FailAttempt, ChallengeRow
<1>8. ASSUME NEW c \in Challenge, NEW p, Active(c, p), MarkVerified(c) PROVE CodesCounted!(d)'
  BY <1>0, <1>8 DEF Active, MarkVerified, ChallengeRow
<1>9. ASSUME NEW c \in Challenge, challenge[c].state \in {"sent", "verified"}, Consume(c) PROVE CodesCounted!(d)'
  BY <1>0, <1>9 DEF Consume, ChallengeRow
<1>10. ASSUME NEW c \in Challenge, NEW p, Active(c, p), LoseAttempt(c), faults' = faults + 1 PROVE CodesCounted!(d)'
  BY <1>0, <1>10 DEF Active, LoseAttempt
<1>11. QED
  BY <1>1, <1>2, <1>3, <1>4, <1>5, <1>6, <1>7, <1>8, <1>9, <1>10 DEF CodeChanges

LEMMA CodesAlways == Spec => [](TypeInv /\ CodesCounted)
<1>1. Init => CodesCounted
  <2> SUFFICES ASSUME NEW seed \in Seeds, InitWith(seed) PROVE CodesCounted
    BY DEF Init
  <2>1. challenge \in [Challenge -> ChallengeRow]
    BY SeedsAssumption DEF InitWith
  <2>2. QED
    BY <2>1, ChallengesAssumption DEF InitWith, CodesCounted, ChallengeRow
<1>2. TypeInv /\ CodesCounted /\ [Next]_vars => CodesCounted'
  BY StepParts, FaultsRemembered, CodesCountedStep
<1>3. QED
  BY TypesInitially, TypesKept, <1>1, <1>2, PTL DEF Spec

\* No code is tried beyond max_attempts, but for the wrong tries whose count
\* was lost with a statement or a commit that failed, and none is redeemed
\* twice: for any number of requests that try it at once.
THEOREM CodesAreSpentOnce == Spec => []CodeSpentOnce
<1>1. TypeInv /\ CodesCounted => CodeSpentOnce
  <2> SUFFICES ASSUME TypeInv, CodesCounted, NEW c \in Challenge PROVE wrong[c] <= MaxAttempts + faults /\ spent[c] <= 1
    BY DEF CodeSpentOnce
  <2>1. challenge[c].attempts \in 0 .. MaxAttempts /\ wrong[c] \in Nat /\ faults \in Nat
    BY AccountsAssumption DEF TypeInv, AccountsTypeOK, ChallengesTypeOK, ChallengeRow
  <2>2. QED
    BY <2>1, ChallengesAssumption DEF CodesCounted
<1>2. QED
  BY CodesAlways, <1>1, PTL

\* The codes and grants that paid for a change of this kind to this account.
Paid(p, o) == {c \in Challenge : challenge[c].purpose = p /\ challenge[c].subject = o /\ spent[c] > 0}

LEMMA PaidSame ==
    ASSUME NEW p, NEW o, UNCHANGED effects,
           \A c \in Challenge :
              /\ spent'[c] = spent[c]
              /\ spent[c] > 0 => challenge'[c].purpose = challenge[c].purpose /\ challenge'[c].subject = challenge[c].subject
    PROVE  Paid(p, o)' = Paid(p, o)
BY DEF Paid

LEMMA PaidAdds ==
    ASSUME NEW c \in Challenge, c \notin Paid(challenge[c].purpose, challenge[c].subject), TypeInv, Consume(c),
           Effect(<<challenge[c].purpose, challenge[c].subject>>), challenge[c].subject \in Owners,
           GrantHasItsEffect
    PROVE  GrantHasItsEffect'
<1> DEFINE q == challenge[c].purpose
           v == challenge[c].subject
<1>0. /\ challenge \in [Challenge -> ChallengeRow] /\ spent \in [Challenge -> Nat]
      /\ effects \in [Purposes \X Owners -> Nat] /\ q \in Purposes
  BY DEF TypeInv, AccountsTypeOK, ChallengesTypeOK, ChallengeRow
<1>1. \A d \in Challenge : /\ challenge'[d].purpose = challenge[d].purpose /\ challenge'[d].subject = challenge[d].subject
                           /\ spent'[d] = IF d = c THEN spent[d] + 1 ELSE spent[d]
  BY <1>0 DEF Consume, ChallengeRow
<1>2. ASSUME NEW p \in Purposes, NEW o \in Owners
      PROVE  effects'[<<p, o>>] = Cardinality(Paid(p, o)')
  <2>0. effects[<<p, o>>] = Cardinality(Paid(p, o)) /\ IsFiniteSet(Paid(p, o))
    BY ChallengesAssumption, FS_Subset DEF GrantHasItsEffect, Paid
  <2>1. CASE p = q /\ o = v
    <3>1. Paid(p, o)' = Paid(p, o) \cup {c}
      BY <1>0, <1>1, <2>1 DEF Paid
    <3>2. effects'[<<p, o>>] = effects[<<p, o>>] + 1
      BY <1>0, <2>1 DEF Effect
    <3>3. QED
      BY <2>0, <2>1, <3>1, <3>2, FS_AddElement
  <2>2. CASE ~(p = q /\ o = v)
    <3>1. Paid(p, o)' = Paid(p, o)
      BY <1>0, <1>1, <2>2 DEF Paid
    <3>2. effects'[<<p, o>>] = effects[<<p, o>>]
      BY <1>0, <2>2 DEF Effect
    <3>3. QED
      BY <2>0, <3>1, <3>2
  <2>3. QED
    BY <2>1, <2>2
<1>3. QED
  BY <1>2 DEF GrantHasItsEffect, Paid

LEMMA EffectsStep == TypeInv /\ CodesCounted /\ GrantHasItsEffect /\ CodeChanges => GrantHasItsEffect'
<1> SUFFICES ASSUME TypeInv, CodesCounted, GrantHasItsEffect, CodeChanges PROVE GrantHasItsEffect'
  OBVIOUS
<1>0. /\ challenge \in [Challenge -> ChallengeRow] /\ spent \in [Challenge -> Nat]
      /\ \A c \in Challenge : CodesCounted!(c)
  BY DEF TypeInv, AccountsTypeOK, ChallengesTypeOK, CodesCounted
<1> DEFINE Kept == \A c \in Challenge :
              /\ spent'[c] = spent[c]
              /\ spent[c] > 0 => challenge'[c].purpose = challenge[c].purpose /\ challenge'[c].subject = challenge[c].subject
<1>1. ASSUME UNCHANGED effects, Kept PROVE GrantHasItsEffect'
  <2>1. \A p \in Purposes, o \in Owners : Paid(p, o)' = Paid(p, o)
    BY <1>1, PaidSame
  <2>2. QED
    BY <1>1, <2>1 DEF GrantHasItsEffect, Paid
<1>2. CASE UNCHANGED <<challenge, wrong, spent, effects>>
  BY <1>1, <1>2
<1>3. ASSUME UNCHANGED spent, NEW c \in Challenge, NEW p, NEW o, challenge[c].state = "none", InsertChallenge(c, p, o)
      PROVE  Kept
  BY <1>0, <1>3 DEF InsertChallenge
<1>4. ASSUME UNCHANGED spent, NEW c \in Challenge, RemoveChallenge(c) PROVE Kept
  BY <1>0, <1>4 DEF RemoveChallenge, ChallengeRow
<1>5. ASSUME NEW c \in Challenge, ChallengeLapses(c) PROVE Kept
  BY <1>0, <1>5 DEF ChallengeLapses, ChallengeRow
<1>6. ASSUME NEW c \in Challenge, CooldownEnds(c) PROVE Kept
  BY <1>0, <1>6 DEF CooldownEnds, ChallengeRow
<1>7. ASSUME NEW c \in Challenge, PurgeChallenge(c) PROVE Kept
  BY <1>0, <1>7 DEF PurgeChallenge, ChallengeRow
<1>8. ASSUME NEW c \in Challenge, FailAttempt(c) PROVE Kept
  BY <1>0, <1>8 DEF FailAttempt, ChallengeRow
<1>9. ASSUME NEW c \in Challenge, MarkVerified(c) \/ LoseAttempt(c) PROVE Kept
  BY <1>0, <1>9 DEF MarkVerified, LoseAttempt, ChallengeRow
<1>10. ASSUME NEW c \in Challenge, challenge[c].state \in {"sent", "verified"}, Consume(c),
              Effect(<<challenge[c].purpose, challenge[c].subject>>)
       PROVE  GrantHasItsEffect'
  <2>1. c \notin Paid(challenge[c].purpose, challenge[c].subject)
    BY <1>0, <1>10 DEF Paid
  <2>2. challenge[c].subject \in Owners
    BY <1>10 DEF TypeInv, SubjectsKnown
  <2>3. QED
    BY <1>10, <2>1, <2>2, PaidAdds
<1>11. CASE UNCHANGED effects /\ Kept
  BY <1>1, <1>11
<1>12. QED
  BY <1>2, <1>3, <1>4, <1>5, <1>6, <1>7, <1>8, <1>9, <1>10, <1>11 DEF CodeChanges

\* Each grant or code that is used up has had its effect, once, and nothing
\* else has had it: commits that fail or whose reply is lost included.
THEOREM GrantsHaveTheirEffect == Spec => []GrantHasItsEffect
<1>1. Init => GrantHasItsEffect
  <2> SUFFICES ASSUME NEW seed \in Seeds, InitWith(seed), NEW p \in Purposes, NEW o \in Owners
               PROVE  effects[<<p, o>>] = Cardinality(Paid(p, o))
    BY DEF Init, GrantHasItsEffect, Paid
  <2>1. Paid(p, o) = {} /\ effects[<<p, o>>] = 0
    BY DEF InitWith, Paid
  <2>2. QED
    BY <2>1, FS_EmptySet
<1>2. TypeInv /\ CodesCounted /\ GrantHasItsEffect /\ [Next]_vars => GrantHasItsEffect'
  BY StepParts, EffectsStep
<1>3. QED
  BY CodesAlways, <1>1, <1>2, PTL DEF Spec

-----------------------------------------------------------------------------
(* Throttling.                                                              *)

\* The row counts at least the failures that are due, and enough of them lock.
FailuresCounted ==
    \A k \in Scopes \X Subjects :
        /\ due[k] <= throttle[k].count
        /\ ~throttle[k].window => due[k] = 0
        /\ due[k] >= MaxFailures => throttle[k].locked

LEMMA FailuresCountedStep ==
    ASSUME MaxFailures > 1, ChallengesTypeOK, FailuresCounted, ThrottleChanges PROVE FailuresCounted'
<1> SUFFICES ASSUME NEW k \in Scopes \X Subjects PROVE FailuresCounted!(k)'
  BY DEF FailuresCounted
<1>0. /\ throttle \in [Scopes \X Subjects -> [count : Nat, window : BOOLEAN, locked : BOOLEAN]]
      /\ due \in [Scopes \X Subjects -> Nat] /\ MaxFailures \in Nat
      /\ FailuresCounted!(k)
  BY ChallengesAssumption DEF ChallengesTypeOK, FailuresCounted
<1>1. CASE UNCHANGED <<throttle, due>>
  BY <1>0, <1>1
<1>2. ASSUME NEW j \in Scopes \X Subjects, RecordFailure(j) PROVE FailuresCounted!(k)'
  <2> DEFINE row == throttle[j]
             first == row.count = 0
             reopened == ~first /\ ~row.window
             new == [count |-> IF first \/ reopened THEN 1 ELSE row.count + 1, window |-> TRUE,
                     locked |-> ~first /\ (row.locked \/ (~reopened /\ row.count + 1 >= MaxFailures))]
  <2>1. throttle' = [throttle EXCEPT ![j] = new] /\ due' = [due EXCEPT ![j] = @ + 1]
    BY <1>2 DEF RecordFailure
  <2>2. CASE k # j
    BY <1>0, <2>1, <2>2
  <2>3. CASE k = j
    <3>1. throttle'[k] = new /\ due'[k] = due[k] + 1
      BY <1>0, <2>1, <2>3
    <3>2. /\ throttle[k].count \in Nat /\ due[k] \in Nat
          /\ throttle[k].window \in BOOLEAN /\ throttle[k].locked \in BOOLEAN
      BY <1>0
    <3>3. CASE first \/ reopened
      <4>1. due[k] = 0
        BY <1>0, <2>3, <3>2, <3>3
      <4>2. QED
        BY <3>1, <3>3, <4>1, <1>0
    <3>4. CASE ~(first \/ reopened)
      BY <1>0, <2>3, <3>1, <3>2, <3>4
    <3>5. QED
      BY <3>3, <3>4
  <2>4. QED
    BY <2>2, <2>3
<1>3. ASSUME NEW j \in Scopes \X Subjects, ClearThrottle(j) PROVE FailuresCounted!(k)'
  BY <1>0, <1>3 DEF ClearThrottle, NoThrottle
<1>4. ASSUME NEW j \in Scopes \X Subjects, WindowEnds(j) \/ LockEnds(j) PROVE FailuresCounted!(k)'
  BY <1>0, <1>4 DEF WindowEnds, LockEnds
<1>5. QED
  BY <1>1, <1>2, <1>3, <1>4 DEF ThrottleChanges

LEMMA BecomeBelow ==
    ASSUME TypeInv, LockedOutAfterFailures, NEW s \in Requests, NEW r, r.failures < MaxFailures, Become(s, r)
    PROVE  LockedOutAfterFailures'
<1>1. Settle(r).failures < MaxFailures
  BY ChallengesAssumption DEF Settle, Idle
<1>2. QED
  BY <1>1 DEF Become, LockedOutAfterFailures, TypeInv, RequestsFit

LEMMA OutdateBelow ==
    ASSUME TypeInv, LockedOutAfterFailures, NEW s \in Requests, NEW o, NEW r, r.failures < MaxFailures,
           request' = Outdate(o, s, r)
    PROVE  LockedOutAfterFailures'
<1>1. Settle(r).failures < MaxFailures
  BY ChallengesAssumption DEF Settle, Idle
<1>2. ASSUME NEW q \in Requests PROVE request'[q].failures < MaxFailures
  <2>1. CASE q = s
    BY <1>1, <2>1 DEF Outdate
  <2>2. CASE q # s
    <3> DEFINE b == request[q].stale \/ (request[q].o = o /\ request[q].row # NoRow)
    <3>1. request'[q] = [request[q] EXCEPT !.stale = b]
      BY <2>2 DEF Outdate
    <3> HIDE DEF b
    <3>2. request[q] \in RequestRow
      BY DEF TypeInv, RequestsFit
    <3>3. QED
      BY <3>1, <3>2 DEF RequestRow, LockedOutAfterFailures
  <2>3. QED
    BY <2>1, <2>2
<1>3. QED
  BY <1>2 DEF LockedOutAfterFailures

\* The failures a request goes on with are those of an account that is not
\* locked when the request asks.
LEMMA RequestsBelow ==
    ASSUME TypeInv, LockedOutAfterFailures, FailuresCounted, NEW s \in Requests, RequestStep(s) \/ MutateReminder(s)
    PROVE  LockedOutAfterFailures'
<1> DEFINE r == request[s]
<1>0. r \in RequestRow /\ Fits(r) /\ r.failures < MaxFailures
  BY DEF TypeInv, RequestsFit, LockedOutAfterFailures
<1>1. ASSUME NEW pc, Become(s, To(s, pc)) PROVE LockedOutAfterFailures'
  <2>1. To(s, pc).failures = r.failures
    BY <1>0 DEF To, RequestRow
  <2>2. QED
    BY <1>0, <1>1, <2>1, BecomeBelow
<1>2. ASSUME NEW q, Become(s, q), q.failures = 0 PROVE LockedOutAfterFailures'
  BY <1>2, BecomeBelow, ChallengesAssumption
<1>3. ASSUME NEW k \in Scopes \X Subjects, ~Blocked(k) PROVE due[k] < MaxFailures
  BY <1>3, ChallengesAssumption DEF FailuresCounted, Blocked, TypeInv, AccountsTypeOK, ChallengesTypeOK
<1>4. CASE PlainStep(s)
  <2>1. \E pc : Become(s, To(s, pc))
    BY <1>4 DEF PlainStep, UndoSession, TimeIndex, RemoveSession, UnlistSession, RemoveIndex, IndexSession, LoginFails,
       Rehash, Finish, ReadBack, Blacklist, CheckCooldown, Deliver, RemoveUndelivered, BindContact, MutateReminder,
       Command, Refused, Commit
  <2>2. QED
    BY <1>1, <2>1
<1>5. CASE SetSession(s)
  <2>1. PICK t : \E pc : Become(s, To(s, pc)) \/ Become(s, [[request[s] EXCEPT !.t = t] EXCEPT !.pc = pc])
    BY <1>5 DEF SetSession, Command, Refused
  <2>2. ASSUME NEW pc PROVE [[request[s] EXCEPT !.t = t] EXCEPT !.pc = pc].failures = r.failures
    BY <1>0 DEF RequestRow
  <2>3. QED
    BY <1>0, <1>1, <2>1, <2>2, BecomeBelow
<1>6. CASE ReadSession(s)
  <2>1. \/ \E pc : Become(s, To(s, pc))
        \/ Become(s, [To(s, "del") EXCEPT !.list = {To(s, "del").t}])
    BY <1>6 DEF ReadSession, Command
  <2>2. [To(s, "del") EXCEPT !.list = {To(s, "del").t}].failures = r.failures
    BY <1>0 DEF RequestRow, To
  <2>3. QED
    BY <1>0, <1>1, <2>1, <2>2, BecomeBelow
<1>7. CASE ReadIndex(s) \/ RemoveListed(s)
  <2>1. \E pc : Become(s, To(s, pc)) \/ \E l : Become(s, [To(s, pc) EXCEPT !.list = l])
    BY <1>7 DEF ReadIndex, RemoveListed, Command
  <2>2. ASSUME NEW pc, NEW l PROVE [To(s, pc) EXCEPT !.list = l].failures = r.failures
    BY <1>0 DEF RequestRow, To
  <2>3. QED
    BY <1>0, <1>1, <2>1, <2>2, BecomeBelow
<1>8. CASE InsertCode(s)
  <2>1. Become(s, To(s, "failed")) \/ \E c : Become(s, [To(s, "deliver") EXCEPT !.c = c])
    BY <1>8 DEF InsertCode
  <2>2. ASSUME NEW c PROVE [To(s, "deliver") EXCEPT !.c = c].failures = r.failures
    BY <1>0 DEF RequestRow, To
  <2>3. QED
    BY <1>0, <1>1, <2>1, <2>2, BecomeBelow
<1>9. CASE Resolve(s) \/ Renew(s)
  <2>1. CASE Renew(s)
    <3>1. Become(s, Resolved(request[s]))
      BY <2>1 DEF Renew, Command
    <3>2. Resolved(request[s]).failures = r.failures
      BY <1>0 DEF Resolved, RequestRow
    <3>3. QED
      BY <1>0, <3>1, <3>2, BecomeBelow
  <2>2. CASE Resolve(s)
    <3>1. PICK op, t, pw :
            LET q == [Idle EXCEPT !.op = op, !.t = t, !.o = session[t], !.pw = pw]
            IN Become(s, [q EXCEPT !.pc = "failed"]) \/ Become(s, Resolved(q)) \/ Become(s, [q EXCEPT !.pc = "renew"])
      BY <2>2 DEF Resolve, Command
    <3> DEFINE q == [Idle EXCEPT !.op = op, !.t = t, !.o = session[t], !.pw = pw]
    <3>2. \A pc : [q EXCEPT !.pc = pc].failures = 0
      BY DEF Idle
    <3>3. \E pc : Resolved(q) = [q EXCEPT !.pc = pc]
      <4> HIDE DEF q
      <4>1. QED
        BY DEF Resolved
    <3>4. \E pc : Become(s, [q EXCEPT !.pc = pc])
      BY <3>1, <3>3
    <3> HIDE DEF q
    <3>5. QED
      BY <1>2, <3>2, <3>4
  <2>3. QED
    BY <1>9, <2>1, <2>2
<1>10. ASSUME NEW k \in Scopes \X Subjects, NEW past \in RequestRow, NEW refused, past.failures < MaxFailures,
              refused.failures < MaxFailures, Check(s, k, past, refused)
       PROVE  LockedOutAfterFailures'
  <2>1. CASE Become(s, past) \/ Become(s, refused)
    BY <1>10, <2>1, BecomeBelow
  <2>2. CASE ~Blocked(k) /\ Become(s, [past EXCEPT !.failures = due[k]])
    <3> DEFINE n == due[k]
    <3>1. n < MaxFailures
      BY <1>3, <2>2
    <3> HIDE DEF n
    <3>2. [past EXCEPT !.failures = n].failures = n
      BY DEF RequestRow
    <3>3. QED
      BY <2>2, <3>1, <3>2, BecomeBelow DEF n
  <2>3. QED
    BY <1>10, <2>1, <2>2 DEF Check
<1>11. CASE Login(s) \/ ReadRow(s) \/ Reauthenticate(s)
  <2>1. CASE Login(s)
    <3>1. PICK o \in Owners, pw \in Passwords :
            LET q == [Idle EXCEPT !.op = "login", !.o = o, !.pw = pw, !.pc = "row"]
            IN Check(s, <<"account", o>>, q, [q EXCEPT !.pc = "failed"])
      BY <2>1 DEF Login
    <3> DEFINE q == [Idle EXCEPT !.op = "login", !.o = o, !.pw = pw, !.pc = "row"]
               refused == [q EXCEPT !.pc = "failed"]
    <3>2. <<"account", o>> \in Scopes \X Subjects
      BY AccountsAssumption DEF Scopes
    <3>3. q \in RequestRow
      BY IdleFits DEF RequestRow, Ops, Pcs
    <3>4. q.failures = 0 /\ refused.failures = 0 /\ 0 < MaxFailures
      BY ChallengesAssumption DEF Idle
    <3>5. Check(s, <<"account", o>>, q, refused)
      BY <3>1
    <3> HIDE DEF q, refused
    <3>6. QED
      BY <1>10, <3>2, <3>3, <3>4, <3>5
  <2>2. CASE ReadRow(s)
    <3> DEFINE a == [request[s] EXCEPT !.row = account[request[s].o]]
    <3>1. \E pc : Become(s, [a EXCEPT !.pc = pc]) \/ Become(s, To(s, pc))
      BY <2>2 DEF ReadRow, Accepted
    <3>2. \A pc : [a EXCEPT !.pc = pc].failures = r.failures
      BY <1>0 DEF RequestRow
    <3>3. QED
      BY <1>0, <1>1, <3>1, <3>2, BecomeBelow
  <2>3. CASE Reauthenticate(s)
    <3> DEFINE k == <<"contact_reauth", r.o>>
               past == IF Matches(r.pw, r.row) THEN Accepted(r) ELSE To(s, "fail")
    <3>1. k \in Scopes \X Subjects
      BY <1>0, <2>3, AccountsAssumption DEF Reauthenticate, At, Fits, Runs, Answers, Scopes
    <3>2. Accepted(r) \in RequestRow /\ Accepted(r).failures = r.failures
      BY <1>0 DEF Accepted, RequestRow, Pcs
    <3>3. To(s, "fail") \in RequestRow /\ To(s, "fail").failures = r.failures /\ To(s, "failed").failures = r.failures
      BY <1>0, ToTyped DEF Pcs, Same
    <3>4. Check(s, k, past, To(s, "failed"))
      BY <2>3 DEF Reauthenticate
    <3>5. past \in RequestRow /\ past.failures < MaxFailures /\ To(s, "failed").failures < MaxFailures
      BY <1>0, <3>2, <3>3
    <3> HIDE DEF k, past
    <3>6. QED
      BY <1>10, <3>1, <3>4, <3>5
  <2>4. QED
    BY <1>11, <2>1, <2>2, <2>3
<1>13. CASE ConfirmPasswordReset(s)
  <2>1. PICK c \in grants, pw \in NewPasswords :
          LET o == challenge[c].subject
              q == [Idle EXCEPT !.op = "reset", !.o = o, !.c = c, !.pw = pw, !.old = told \cap SessionsOf(o)]
          IN \/ Become(s, [Idle EXCEPT !.op = "reset", !.pc = "failed"])
             \/ request' = Outdate(o, s, [q EXCEPT !.pc = "revoke"])
             \/ request' = Outdate(o, s, [q EXCEPT !.pc = "failed"])
             \/ Become(s, [q EXCEPT !.pc = "failed"])
    BY <1>13 DEF ConfirmPasswordReset
  <2> DEFINE o == challenge[c].subject
             old == told \cap SessionsOf(o)
             q == [Idle EXCEPT !.op = "reset", !.o = o, !.c = c, !.pw = pw, !.old = old]
  <2>2. \/ Become(s, [Idle EXCEPT !.op = "reset", !.pc = "failed"])
        \/ request' = Outdate(o, s, [q EXCEPT !.pc = "revoke"])
        \/ request' = Outdate(o, s, [q EXCEPT !.pc = "failed"])
        \/ Become(s, [q EXCEPT !.pc = "failed"])
    BY <2>1
  <2> HIDE DEF o, old
  <2>3. /\ [q EXCEPT !.pc = "revoke"].failures = 0 /\ [q EXCEPT !.pc = "failed"].failures = 0
        /\ [Idle EXCEPT !.op = "reset", !.pc = "failed"].failures = 0
    BY DEF Idle
  <2> HIDE DEF q
  <2>4. 0 < MaxFailures
    BY ChallengesAssumption
  <2>5. QED
    BY <1>2, <2>2, <2>3, <2>4, OutdateBelow
<1>14. CASE UpdateAdmin(s)
  <2> DEFINE q == [To(s, "readback") EXCEPT !.old = told \cap SessionsOf(request[s].o)]
  <2>1. \/ request' = Outdate(request[s].o, s, q)
        \/ request' = Outdate(request[s].o, s, To(s, "failed"))
        \/ Become(s, To(s, "failed"))
    BY <1>14 DEF UpdateAdmin
  <2>2. q.failures = r.failures /\ To(s, "failed").failures = r.failures
    BY <1>0 DEF To, RequestRow
  <2> HIDE DEF q
  <2>3. QED
    BY <1>0, <1>1, <2>1, <2>2, OutdateBelow
<1>15. CASE RequestCode(s) \/ VerifyCode(s) \/ Register(s)
  <2>1. CASE RequestCode(s)
    <3>1. PICK o, purpose, pc : Become(s, [Idle EXCEPT !.op = "send", !.o = o, !.purpose = purpose, !.pc = pc])
      BY <2>1 DEF RequestCode
    <3>2. [Idle EXCEPT !.op = "send", !.o = o, !.purpose = purpose, !.pc = pc].failures = 0
      BY DEF Idle
    <3>3. QED
      BY <1>2, <3>1, <3>2
  <2>2. CASE VerifyCode(s)
    <3>1. PICK c, pc :
            LET q == [Idle EXCEPT !.op = "verify", !.c = c, !.pc = "failed"]
            IN Become(s, q) \/ Become(s, [q EXCEPT !.pc = pc])
      BY <2>2 DEF VerifyCode
    <3> DEFINE q == [Idle EXCEPT !.op = "verify", !.c = c, !.pc = "failed"]
    <3>2. q.failures = 0 /\ [q EXCEPT !.pc = pc].failures = 0
      BY DEF Idle
    <3>3. QED
      BY <1>2, <3>1, <3>2
  <2>3. CASE Register(s)
    <3>1. PICK o, c :
            LET q == [Idle EXCEPT !.op = "register", !.o = o, !.c = c, !.pc = "failed"]
            IN Become(s, q) \/ Become(s, [q EXCEPT !.pc = "setex"]) \/ Become(s, To(s, "failed"))
      BY <2>3 DEF Register, Commit
    <3> DEFINE q == [Idle EXCEPT !.op = "register", !.o = o, !.c = c, !.pc = "failed"]
    <3>2. q.failures = 0 /\ [q EXCEPT !.pc = "setex"].failures = 0
      BY DEF Idle
    <3>3. QED
      BY <1>1, <1>2, <3>1, <3>2
  <2>4. QED
    BY <1>15, <2>1, <2>2, <2>3
<1>16. QED
  BY <1>4, <1>5, <1>6, <1>7, <1>8, <1>9, <1>11, <1>13, <1>14, <1>15 DEF RequestStep, PlainStep

LEMMA LocksAlways == MaxFailures > 1 => (Spec => [](TypeInv /\ FailuresCounted /\ LockedOutAfterFailures))
<1> SUFFICES ASSUME MaxFailures > 1 PROVE Spec => [](TypeInv /\ FailuresCounted /\ LockedOutAfterFailures)
  OBVIOUS
<1>1. Init => FailuresCounted /\ LockedOutAfterFailures
  <2> SUFFICES ASSUME NEW seed \in Seeds, InitWith(seed) PROVE FailuresCounted /\ LockedOutAfterFailures
    BY DEF Init
  <2>1. FailuresCounted
    BY ChallengesAssumption DEF InitWith, FailuresCounted, NoThrottle
  <2>2. LockedOutAfterFailures
    BY ChallengesAssumption DEF InitWith, LockedOutAfterFailures, Idle
  <2>3. QED
    BY <2>1, <2>2
<1>2. TypeInv /\ FailuresCounted /\ [Next]_vars => FailuresCounted'
  BY StepParts, FailuresCountedStep DEF TypeInv, AccountsTypeOK
<1>3. TypeInv /\ FailuresCounted /\ LockedOutAfterFailures /\ [Next]_vars => LockedOutAfterFailures'
  <2> SUFFICES ASSUME TypeInv, FailuresCounted, LockedOutAfterFailures, [Next]_vars PROVE LockedOutAfterFailures'
    OBVIOUS
  <2>1. CASE UNCHANGED request
    BY <2>1 DEF LockedOutAfterFailures
  <2>2. CASE \E s \in Requests : RequestStep(s) \/ MutateReminder(s)
    BY <2>2, RequestsBelow
  <2>3. QED
    BY <2>1, <2>2 DEF Next, TimePasses, Others, vars
<1>4. QED
  BY TypesInitially, TypesKept, <1>1, <1>2, <1>3, PTL DEF Spec

\* No attempt gets past isBlocked once the limit of failures is on record, for
\* every interleaving of attempts, unless the query of isBlocked fails; those
\* that were past it may still compare their password.  max_failures of one
\* is excepted, because the first failure of a new row never locks
\* (AuthSecurityRepository::recordFailure).
THEOREM LocksHoldAttemptsBack == MaxFailures > 1 => (Spec => []LockedOutAfterFailures)
<1> SUFFICES ASSUME MaxFailures > 1 PROVE Spec => []LockedOutAfterFailures
  OBVIOUS
<1>1. Spec => [](TypeInv /\ FailuresCounted /\ LockedOutAfterFailures)
  BY LocksAlways
<1>2. QED
  BY <1>1, PTL

-----------------------------------------------------------------------------
(* Reminders.                                                               *)

Senders(u) == {d \in Servers : sending[d] = u}
Pending(u) == IF Waiting(u) THEN 1 ELSE 0

\* Each time a reminder was asked for, and each mail whose answer was lost, is
\* used by a mail that was delivered, a mail on its way or the row that waits,
\* by one of them at most.
MailsAccounted ==
    \A u \in Subscribers : delivered[u] + Cardinality(Senders(u)) + Pending(u) <= asked[u] + unheard[u]

LEMMA SendersFinite == ASSUME NEW u PROVE IsFiniteSet(Senders(u)) /\ Cardinality(Senders(u)) \in Nat
BY RemindersAssumption, FS_Subset, FS_CardinalityType DEF Senders

\* A server takes a mail to send, or has none any more.
LEMMA SenderAdds ==
    ASSUME RemindersTypeOK, NEW d \in Servers, NEW u \in Subscribers, sending[d] = Nothing, sending' = [sending EXCEPT ![d] = u],
           NEW v \in Subscribers
    PROVE  Cardinality(Senders(v)') = Cardinality(Senders(v)) + (IF v = u THEN 1 ELSE 0)
<1>1. CASE v = u
  <2>1. Senders(v)' = Senders(v) \cup {d} /\ d \notin Senders(v)
    BY <1>1, RemindersAssumption DEF Senders, RemindersTypeOK
  <2>2. QED
    BY <1>1, <2>1, SendersFinite, FS_AddElement
<1>2. CASE v # u
  <2>1. Senders(v)' = Senders(v)
    BY <1>2, RemindersAssumption DEF Senders, RemindersTypeOK
  <2>2. QED
    BY <1>2, <2>1, SendersFinite
<1>3. QED
  BY <1>1, <1>2

LEMMA SenderLeaves ==
    ASSUME RemindersTypeOK, NEW d \in Servers, sending' = [sending EXCEPT ![d] = Nothing], NEW v \in Subscribers
    PROVE  Cardinality(Senders(v)') = Cardinality(Senders(v)) - (IF v = sending[d] THEN 1 ELSE 0)
<1>1. CASE v = sending[d]
  <2>1. Senders(v)' = Senders(v) \ {d} /\ d \in Senders(v)
    BY <1>1, RemindersAssumption DEF Senders, RemindersTypeOK
  <2>2. QED
    BY <1>1, <2>1, SendersFinite, FS_RemoveElement
<1>2. CASE v # sending[d]
  <2>1. Senders(v)' = Senders(v)
    BY <1>2, RemindersAssumption DEF Senders, RemindersTypeOK
  <2>2. QED
    BY <1>2, <2>1, SendersFinite
<1>3. QED
  BY <1>1, <1>2

LEMMA MailsStep == ASSUME RemindersTypeOK, MailsAccounted, ReminderChanges PROVE MailsAccounted'
<1> SUFFICES ASSUME NEW v \in Subscribers PROVE MailsAccounted!(v)'
  BY DEF MailsAccounted
<1>0. /\ MailsAccounted!(v) /\ Cardinality(Senders(v)) \in Nat
      /\ delivered \in [Subscribers -> Nat] /\ asked \in [Subscribers -> Nat] /\ unheard \in [Subscribers -> Nat]
      /\ delivered[v] \in Nat /\ asked[v] \in Nat /\ unheard[v] \in Nat
      /\ reminder \in [Subscribers -> [status : Statuses, attempts : Nat, ready : BOOLEAN]]
  BY SendersFinite DEF MailsAccounted, RemindersTypeOK
<1>1. CASE UNCHANGED reminderVars
  BY <1>0, <1>1 DEF reminderVars, Senders, Pending, Waiting
<1>2. ASSUME NEW u \in Subscribers, AddReminder(u) PROVE MailsAccounted!(v)'
  <2>1. Senders(v)' = Senders(v) /\ delivered' = delivered /\ unheard' = unheard
    BY <1>2 DEF AddReminder, Senders
  <2>2. CASE v = u
    <3>1. reminder'[u].status = "PENDING"
      BY <1>0, <1>2 DEF AddReminder
    <3>2. asked'[u] = asked[u] + 1 \/ (asked'[u] = asked[u] /\ reminder[u].status = "PENDING")
      BY <1>0, <1>2 DEF AddReminder
    <3>3. QED
      BY <1>0, <2>1, <2>2, <3>1, <3>2 DEF Pending, Waiting
  <2>3. CASE v # u
    <3>1. reminder'[v] = reminder[v] /\ asked'[v] = asked[v]
      BY <1>0, <1>2, <2>3 DEF AddReminder
    <3>2. QED
      BY <1>0, <2>1, <3>1 DEF Pending, Waiting
  <2>4. QED
    BY <2>2, <2>3
<1>3. ASSUME NEW u \in Subscribers, CancelReminder(u) PROVE MailsAccounted!(v)'
  <2>1. Waiting(v)' => Waiting(v)
    BY <1>0, <1>3 DEF CancelReminder, Waiting
  <2>2. Senders(v)' = Senders(v) /\ delivered' = delivered /\ asked' = asked /\ unheard' = unheard
    BY <1>3 DEF CancelReminder, Senders
  <2>3. QED
    BY <1>0, <2>1, <2>2 DEF Pending
<1>4. ASSUME NEW d \in Servers, ReadDue(d) PROVE MailsAccounted!(v)'
  BY <1>0, <1>4 DEF ReadDue, Senders, Pending, Waiting
<1>5. ASSUME NEW d \in Servers, Conclude(d) PROVE MailsAccounted!(v)'
  <2> DEFINE u == sending[d]
  <2>1. u \in Subscribers /\ asked' = asked
    BY <1>5 DEF Conclude, RemindersTypeOK
  <2>2. Cardinality(Senders(v)') = Cardinality(Senders(v)) - (IF v = u THEN 1 ELSE 0)
    BY <1>5, SenderLeaves DEF Conclude
  <2>0. ASSUME NEW row, reminder' = [reminder EXCEPT ![u] = row] PROVE v # u => (Waiting(v)' => Waiting(v))
    BY <1>0, <2>0, <2>1 DEF Waiting
  <2>3. CASE UNCHANGED <<delivered, unheard>> \/ (Mailed(u) /\ unheard' = [unheard EXCEPT ![u] = @ + 1])
    <3>1. v # u => (Waiting(v)' => Waiting(v))
      BY <1>0, <1>5, <2>0, <2>1 DEF Conclude, Waiting
    <3>2. \/ delivered'[v] = delivered[v] /\ unheard'[v] = unheard[v]
          \/ v = u /\ delivered'[v] = delivered[v] + 1 /\ unheard'[v] = unheard[v] + 1
      BY <1>0, <2>1, <2>3 DEF Mailed
    <3>3. QED
      BY <1>0, <2>1, <2>2, <3>1, <3>2 DEF Pending
  <2>4. CASE /\ Mailed(u) /\ UNCHANGED unheard
             /\ reminder' \in {[reminder EXCEPT ![u].status = "SENT"], reminder}
    <3>1. Waiting(v)' => Waiting(v)
      BY <1>0, <2>1, <2>4 DEF Waiting
    <3>2. delivered'[v] = delivered[v] + (IF v = u THEN 1 ELSE 0)
      BY <1>0, <2>1, <2>4 DEF Mailed
    <3>3. QED
      BY <1>0, <2>1, <2>2, <2>4, <3>1, <3>2 DEF Pending
  <2>5. QED
    BY <1>5, <2>3, <2>4 DEF Conclude
<1>6. ASSUME NEW d \in Servers, StopDispatch(d) PROVE MailsAccounted!(v)'
  <2>1. Cardinality(Senders(v)') = Cardinality(Senders(v)) - (IF v = sending[d] THEN 1 ELSE 0)
    BY <1>6, SenderLeaves DEF StopDispatch
  <2>2. delivered'[v] = delivered[v] \/ (v = sending[d] /\ delivered'[v] = delivered[v] + 1)
    BY <1>0, <1>6, RemindersAssumption DEF StopDispatch, Mailed, RemindersTypeOK
  <2>3. UNCHANGED <<reminder, asked, unheard>>
    BY <1>6 DEF StopDispatch
  <2>4. QED
    BY <1>0, <2>1, <2>2, <2>3 DEF Pending, Waiting
<1>7. ASSUME NEW d \in Servers, NEW u \in Subscribers, Claim(d, u) PROVE MailsAccounted!(v)'
  <2>0. UNCHANGED <<asked, delivered, unheard>>
    BY <1>7 DEF Claim
  <2>1. CASE /\ Waiting(u) /\ sending' \in {[sending EXCEPT ![d] = u], sending}
             /\ reminder' = [reminder EXCEPT ![u].status = "PROCESSING", ![u].attempts = @ + 1]
    <3>1. Cardinality(Senders(v)') \in {Cardinality(Senders(v)) + (IF v = u THEN 1 ELSE 0), Cardinality(Senders(v))}
      <4>1. CASE sending' = [sending EXCEPT ![d] = u]
        BY <1>7, <4>1, SenderAdds DEF Claim
      <4>2. CASE sending' = sending
        BY <4>2 DEF Senders
      <4>3. QED
        BY <2>1, <4>1, <4>2
    <3>2. IF v = u THEN ~Waiting(v)' ELSE Waiting(v)' = Waiting(v)
      BY <1>0, <2>1 DEF Waiting
    <3>3. QED
      BY <1>0, <2>0, <2>1, <3>1, <3>2 DEF Pending
  <2>2. CASE UNCHANGED <<reminder, sending>>
    BY <1>0, <2>0, <2>2 DEF Senders, Pending, Waiting
  <2>3. QED
    BY <1>7, <2>1, <2>2 DEF Claim
<1>8. CASE SaleOpens
  <2>1. reminder'[v].status = reminder[v].status
    BY <1>0, <1>8 DEF SaleOpens
  <2>2. QED
    BY <1>0, <1>8, <2>1 DEF SaleOpens, Senders, Pending, Waiting
<1>9. ASSUME NEW u \in Subscribers, RetryDue(u) PROVE MailsAccounted!(v)'
  <2>1. reminder'[v].status = reminder[v].status
    BY <1>0, <1>9 DEF RetryDue
  <2>2. QED
    BY <1>0, <1>9, <2>1 DEF RetryDue, Senders, Pending, Waiting
<1>10. QED
  BY <1>1, <1>2, <1>3, <1>4, <1>5, <1>6, <1>7, <1>8, <1>9 DEF ReminderChanges, RemindersNext

\* Any number of servers that dispatch, stop and repeat their attempts mail a
\* subscriber at most once for each time the reminder was asked for and once
\* more for each mail whose answer was lost.
THEOREM RemindersAreMailedOnce == Spec => []MailedOncePerRequest
<1>1. Init => MailsAccounted
  <2> SUFFICES ASSUME RemindersInit, NEW u \in Subscribers PROVE MailsAccounted!(u)
    BY DEF Init, InitWith, MailsAccounted
  <2>1. Senders(u) = {}
    BY RemindersAssumption DEF RemindersInit, Senders
  <2>2. QED
    BY <2>1, FS_EmptySet DEF RemindersInit, Pending, Waiting
<1>2. TypeInv /\ MailsAccounted /\ [Next]_vars => MailsAccounted'
  BY RemindersStep, MailsStep DEF TypeInv, AccountsTypeOK
<1>3. TypeInv /\ MailsAccounted => MailedOncePerRequest
  <2> SUFFICES ASSUME TypeInv, MailsAccounted, NEW u \in Subscribers PROVE delivered[u] <= asked[u] + unheard[u]
    BY DEF MailedOncePerRequest
  <2>1. /\ delivered[u] \in Nat /\ asked[u] \in Nat /\ unheard[u] \in Nat /\ Cardinality(Senders(u)) \in Nat /\ Pending(u) \in Nat
        /\ delivered[u] + Cardinality(Senders(u)) + Pending(u) <= asked[u] + unheard[u]
    BY SendersFinite DEF TypeInv, AccountsTypeOK, RemindersTypeOK, MailsAccounted, Pending
  <2>2. QED
    BY <2>1
<1>4. QED
  BY TypesInitially, TypesKept, <1>1, <1>2, <1>3, PTL DEF Spec

-----------------------------------------------------------------------------
(* Passwords.                                                               *)

\* An account with a new password is in the current format and exists; a
\* reset that is under way is one of an account; and a request that writes an
\* old-format password anew knows of no new one, or is stale.
AccountsReset == \A o \in Owners : changed[o] # NoOne => ~account[o].legacy /\ (o \in Users => account[o].status # "absent")
CodesReset ==
    \A c \in Challenge :
        challenge[c].state \in {"sent", "verified"} /\ challenge[c].purpose = "PASSWORD_RESET" =>
            account[challenge[c].subject].status # "absent"
RequestReset(r) ==
    /\ Runs(r.pc) /\ r.purpose = "PASSWORD_RESET" => account[r.o].status # "absent"
    /\ r.pc \in {"reauth", "rehash"} /\ r.row.legacy /\ ~r.stale => changed[r.o] = NoOne
    /\ r.pc = "rehash" => r.row.legacy

ResetInv == AccountsReset /\ CodesReset /\ \A s \in Requests : RequestReset(request[s])

LEMMA BecomeSelf ==
    ASSUME TypeInv, NEW s \in Requests, NEW q, Become(s, q)
    PROVE  /\ request'[s].pc = q.pc
           /\ q.pc \notin Answers => request'[s] = q
           /\ \A p \in Requests \ {s} : request'[p] = request[p]
<1>1. Settle(q).pc = q.pc /\ (q.pc \notin Answers => Settle(q) = q)
  BY DEF Settle, Idle
<1>2. QED
  BY <1>1 DEF Become, TypeInv, RequestsFit

LEMMA OutdateSelf ==
    ASSUME TypeInv, NEW s \in Requests, NEW o, NEW q, request' = Outdate(o, s, q)
    PROVE  /\ request'[s].pc = q.pc
           /\ q.pc \notin Answers => request'[s] = q
           /\ \A p \in Requests \ {s} :
                 /\ request'[p] = [request[p] EXCEPT !.stale = request'[p].stale]
                 /\ request[p].stale \/ (request[p].o = o /\ request[p].row # NoRow) => request'[p].stale
<1>1. Settle(q).pc = q.pc /\ (q.pc \notin Answers => Settle(q) = q)
  BY DEF Settle, Idle
<1>2. request'[s] = Settle(q)
  BY DEF Outdate
<1>3. ASSUME NEW p \in Requests \ {s}
      PROVE  /\ request'[p] = [request[p] EXCEPT !.stale = request'[p].stale]
             /\ request[p].stale \/ (request[p].o = o /\ request[p].row # NoRow) => request'[p].stale
  <2> DEFINE b == request[p].stale \/ (request[p].o = o /\ request[p].row # NoRow)
  <2>1. request'[p] = [request[p] EXCEPT !.stale = b]
    BY DEF Outdate
  <2>2. request[p] \in RequestRow
    BY DEF TypeInv, RequestsFit
  <2> HIDE DEF b
  <2>3. request'[p].stale = b
    BY <2>1, <2>2 DEF RequestRow
  <2>4. QED
    BY <2>1, <2>3 DEF b
<1>4. QED
  BY <1>1, <1>2, <1>3

\* What a request learns of the account, and where it does.
Moved(r, n) ==
    /\ n.pc \in {"reauth", "rehash"} =>
          /\ n.o = r.o /\ n.stale = r.stale /\ (n.pc = "rehash" => n.row.legacy)
          /\ (r.pc = "row" /\ n.row = account[r.o]) \/ (r.pc = "reauth" /\ n.row = r.row)
    /\ Runs(n.pc) /\ n.purpose = "PASSWORD_RESET" =>
          \/ Runs(r.pc) /\ r.purpose = n.purpose /\ n.o = r.o
          \/ n.o \in Users /\ account[n.o].status # "absent"

LEMMA MovesOn ==
    ASSUME TypeInv, NEW s \in Requests, NEW q, Become(s, q) \/ \E o : request' = Outdate(o, s, q),
           \/ q.pc \in Answers
           \/ /\ q.pc \notin {"reauth", "rehash"}
              /\ q.purpose = "CONTACT" \/ (Runs(request[s].pc) /\ q.purpose = request[s].purpose /\ q.o = request[s].o)
    PROVE  Moved(request[s], request'[s])
<1>1. request'[s].pc = q.pc /\ (q.pc \notin Answers => request'[s] = q)
  BY BecomeSelf, OutdateSelf
<1>2. QED
  BY <1>1 DEF Moved, Runs, Answers

LEMMA RequestsMove ==
    ASSUME TypeInv, NEW s \in Requests, RequestStep(s) \/ MutateReminder(s) PROVE Moved(request[s], request'[s])
<1> DEFINE r == request[s]
<1>0. r \in RequestRow /\ Fits(r)
  BY DEF TypeInv, RequestsFit
<1>1. ASSUME NEW pc, Become(s, To(s, pc)), pc \notin {"reauth", "rehash"}, Runs(r.pc) \/ pc \in Answers
      PROVE  Moved(r, request'[s])
  <2>1. To(s, pc).pc = pc /\ To(s, pc).purpose = r.purpose /\ To(s, pc).o = r.o
    BY <1>0 DEF To, RequestRow
  <2>2. QED
    BY <1>1, <2>1, MovesOn
<1>2. ASSUME NEW q, Become(s, q), q.purpose = "CONTACT", q.pc \notin {"reauth", "rehash"} PROVE Moved(r, request'[s])
  BY <1>2, MovesOn
<1>3. ASSUME NEW q, Become(s, q), q.purpose = r.purpose, q.o = r.o, Runs(r.pc), q.pc \notin {"reauth", "rehash"}
      PROVE  Moved(r, request'[s])
  BY <1>3, MovesOn
<1>4. CASE PlainStep(s)
  <2>1. \E pc : Become(s, To(s, pc)) /\ pc \notin {"reauth", "rehash"} /\ Runs(r.pc)
    <3>1. Runs(r.pc)
      BY <1>4 DEF PlainStep, UndoSession, TimeIndex, RemoveSession, UnlistSession, RemoveIndex, IndexSession, LoginFails,
         Rehash, Finish, ReadBack, Blacklist, CheckCooldown, Deliver, RemoveUndelivered, BindContact, MutateReminder,
         Runs, Answers, At
    <3>2. \E pc : Become(s, To(s, pc)) /\ pc \notin {"reauth", "rehash"}
      BY <1>4 DEF PlainStep, UndoSession, TimeIndex, RemoveSession, UnlistSession, RemoveIndex, IndexSession, LoginFails,
         Rehash, Finish, ReadBack, Blacklist, CheckCooldown, Deliver, RemoveUndelivered, BindContact, MutateReminder,
         Command, Refused, Commit
    <3>3. QED
      BY <3>1, <3>2
  <2>2. QED
    BY <1>1, <2>1
<1>5. CASE SetSession(s)
  <2>1. PICK t : \E pc \in {"failed", "clear", "sadd"} :
            Become(s, To(s, pc)) \/ Become(s, [[request[s] EXCEPT !.t = t] EXCEPT !.pc = pc])
    BY <1>5 DEF SetSession, Command, Refused
  <2>2. ASSUME NEW pc
        PROVE  LET q == [[request[s] EXCEPT !.t = t] EXCEPT !.pc = pc] IN q.pc = pc /\ q.purpose = r.purpose /\ q.o = r.o
    BY <1>0 DEF RequestRow
  <2>3. Runs(r.pc)
    BY <1>5 DEF SetSession, At, Runs, Answers
  <2>4. QED
    BY <1>1, <1>3, <2>1, <2>2, <2>3
<1>6. CASE ReadSession(s)
  <2> DEFINE q == [To(s, "del") EXCEPT !.list = {To(s, "del").t}]
  <2>1. (\E pc \in {"del", "ok"} : Become(s, To(s, pc))) \/ Become(s, q)
    BY <1>6 DEF ReadSession, Command
  <2>2. q.pc = "del" /\ q.purpose = r.purpose /\ q.o = r.o
    BY <1>0 DEF RequestRow, To
  <2> HIDE DEF q
  <2>3. Runs(r.pc)
    BY <1>6 DEF ReadSession, At, Runs, Answers
  <2>4. QED
    BY <1>1, <1>3, <2>1, <2>2, <2>3
<1>7. CASE ReadIndex(s) \/ RemoveListed(s)
  <2>1. \E pc \in {"ok", "unrevoked", "each", "drop"} :
            Become(s, To(s, pc)) \/ \E l : Become(s, [To(s, pc) EXCEPT !.list = l])
    BY <1>7 DEF ReadIndex, RemoveListed, Command
  <2>2. ASSUME NEW pc, NEW l
        PROVE  LET q == [To(s, pc) EXCEPT !.list = l] IN q.pc = pc /\ q.purpose = r.purpose /\ q.o = r.o
    BY <1>0 DEF RequestRow, To
  <2>3. Runs(r.pc)
    BY <1>7 DEF ReadIndex, RemoveListed, At, Runs, Answers
  <2>4. QED
    BY <1>1, <1>3, <2>1, <2>2, <2>3
<1>8. CASE InsertCode(s)
  <2>1. PICK c : Become(s, To(s, "failed")) \/ Become(s, [To(s, "deliver") EXCEPT !.c = c])
    BY <1>8 DEF InsertCode
  <2> DEFINE q == [To(s, "deliver") EXCEPT !.c = c]
  <2>2. q.pc = "deliver" /\ q.purpose = r.purpose /\ q.o = r.o
    BY <1>0 DEF RequestRow, To
  <2>3. Runs(r.pc)
    BY <1>8 DEF InsertCode, At, Runs, Answers
  <2>4. QED
    BY <1>1, <1>3, <2>1, <2>2, <2>3
<1>9. CASE Resolve(s) \/ Renew(s)
  <2>1. CASE Renew(s)
    <3>1. Become(s, Resolved(r)) /\ Runs(r.pc)
      BY <2>1 DEF Renew, Command, At, Runs, Answers
    <3>2. Resolved(r).purpose = r.purpose /\ Resolved(r).o = r.o
      BY <1>0 DEF Resolved, RequestRow
    <3>3. Resolved(r).pc \notin {"reauth", "rehash"}
      <4>1. r.op \in TokenOps
        BY <1>0, <2>1 DEF Renew, At, Fits, Runs, Answers
      <4>2. QED
        BY <1>0, <4>1 DEF Resolved, RequestRow, TokenOps, UserTokenOps, AdminTokenOps
    <3>4. QED
      BY <1>3, <3>1, <3>2, <3>3
  <2>2. CASE Resolve(s)
    <3>1. PICK op \in TokenOps, t \in told, pw \in NewPasswords :
            LET q == [Idle EXCEPT !.op = op, !.t = t, !.o = session[t], !.pw = pw]
            IN Become(s, [q EXCEPT !.pc = "failed"]) \/ Become(s, Resolved(q)) \/ Become(s, [q EXCEPT !.pc = "renew"])
      BY <2>2 DEF Resolve, Command
    <3> DEFINE q == [Idle EXCEPT !.op = op, !.t = t, !.o = session[t], !.pw = pw]
    <3>2. \A pc : [q EXCEPT !.pc = pc].purpose = "CONTACT" /\ [q EXCEPT !.pc = pc].pc = pc
      BY DEF Idle
    <3>3. Resolved(q).purpose = "CONTACT" /\ Resolved(q).pc \notin {"reauth", "rehash"}
      <4>1. q.op = op /\ q.purpose = "CONTACT" /\ DOMAIN q = DOMAIN Idle
        BY DEF Idle
      <4>2. {"purpose", "pc"} \subseteq DOMAIN Idle /\ DOMAIN q = DOMAIN Idle
        BY DEF Idle
      <4> HIDE DEF q
      <4>3. QED
        BY <4>1, <4>2 DEF Resolved, TokenOps, UserTokenOps, AdminTokenOps
    <3>4. \/ Become(s, [q EXCEPT !.pc = "failed"])
          \/ Become(s, [q EXCEPT !.pc = "renew"])
          \/ Become(s, Resolved(q))
      BY <3>1
    <3> HIDE DEF q
    <3>5. QED
      BY <1>2, <3>2, <3>3, <3>4
  <2>3. QED
    BY <1>9, <2>1, <2>2
<1>10. CASE Login(s)
  <2>1. PICK o \in Owners, pw \in Passwords :
          LET q == [Idle EXCEPT !.op = "login", !.o = o, !.pw = pw, !.pc = "row"]
          IN Check(s, <<"account", o>>, q, [q EXCEPT !.pc = "failed"])
    BY <1>10 DEF Login
  <2> DEFINE q == [Idle EXCEPT !.op = "login", !.o = o, !.pw = pw, !.pc = "row"]
             f == [q EXCEPT !.pc = "failed"]
  <2>2. /\ q.purpose = "CONTACT" /\ q.pc = "row" /\ f.purpose = "CONTACT" /\ f.pc = "failed"
        /\ \A n : [q EXCEPT !.failures = n].purpose = "CONTACT" /\ [q EXCEPT !.failures = n].pc = "row"
    BY DEF Idle
  <2>3. Become(s, q) \/ Become(s, f) \/ \E n : Become(s, [q EXCEPT !.failures = n])
    BY <2>1 DEF Check
  <2> HIDE DEF q, f
  <2>4. QED
    BY <1>2, <2>2, <2>3
<1>11. CASE ReadRow(s)
  <2> DEFINE a == [request[s] EXCEPT !.row = account[request[s].o]]
  <2>0. a.purpose = r.purpose /\ a.o = r.o /\ a.row = account[r.o] /\ a.stale = r.stale /\ a \in RequestRow
    <3>1. account[r.o] \in AccountRow
      BY <1>0, <1>11 DEF ReadRow, At, Fits, Runs, Answers, TypeInv, AccountsTypeOK
    <3>2. QED
      BY <1>0, <3>1 DEF RequestRow
  <2>1. Become(s, To(s, "fail")) \/ Become(s, To(s, "failed"))
        \/ \E pc : Become(s, [a EXCEPT !.pc = pc]) /\ (pc = "rehash" => a.row.legacy)
    <3> DEFINE disabled == a.o \in Users /\ account[request[s].o].status = "disabled"
    <3>1. \/ Become(s, To(s, "fail")) \/ Become(s, To(s, "failed"))
          \/ Become(s, IF a.op = "contact"
                       THEN [a EXCEPT !.pc = IF disabled THEN "failed" ELSE "reauth"]
                       ELSE IF disabled THEN [a EXCEPT !.pc = "failed"]
                       ELSE IF Matches(a.pw, account[request[s].o]) THEN Accepted(a)
                       ELSE [a EXCEPT !.pc = "fail"])
      BY <1>11, Zenon DEF ReadRow
    <3> HIDE DEF disabled, a
    <3>2. CASE a.op = "contact"
      BY <3>1, <3>2
    <3>3. CASE a.op # "contact"
      <4>1. \/ Become(s, To(s, "fail")) \/ Become(s, To(s, "failed"))
            \/ Become(s, [a EXCEPT !.pc = "failed"]) \/ Become(s, [a EXCEPT !.pc = "fail"]) \/ Become(s, Accepted(a))
        BY <3>1, <3>3
      <4>2. QED
        BY <4>1 DEF Accepted
    <3>4. QED
      BY <3>2, <3>3
  <2>7. CASE Become(s, To(s, "fail")) \/ Become(s, To(s, "failed"))
    BY <1>1, <1>11, <2>7 DEF ReadRow, At, Runs, Answers
  <2> HIDE DEF a
  <2> SUFFICES ASSUME NEW pc, Become(s, [a EXCEPT !.pc = pc]), pc = "rehash" => a.row.legacy PROVE Moved(r, request'[s])
    BY <2>1, <2>7
  <2> DEFINE q == [a EXCEPT !.pc = pc]
  <2>3. q.pc = pc /\ q.purpose = a.purpose /\ q.o = a.o /\ q.row = a.row /\ q.stale = a.stale
    BY <2>0 DEF RequestRow
  <2> HIDE DEF q
  <2>4. request'[s].pc = q.pc /\ (q.pc \notin Answers => request'[s] = q)
    BY BecomeSelf DEF q
  <2>5. r.pc = "row"
    BY <1>11 DEF ReadRow, At
  <2>6. QED
    BY <2>0, <2>3, <2>4, <2>5 DEF Moved, Runs, Answers
<1>12. CASE Reauthenticate(s)
  <2>1. r.pc = "reauth"
    BY <1>12 DEF Reauthenticate, At
  <2>2. \E pc : /\ pc = "rehash" => r.row.legacy
               /\ \/ Become(s, To(s, pc))
                  \/ \E n : Become(s, [[r EXCEPT !.pc = pc] EXCEPT !.failures = n])
    <3> DEFINE past == IF Matches(r.pw, r.row) THEN Accepted(r) ELSE To(s, "fail")
    <3>1. Check(s, <<"contact_reauth", r.o>>, past, To(s, "failed"))
      BY <1>12 DEF Reauthenticate
    <3>2. PICK pc : past = [r EXCEPT !.pc = pc] /\ (pc = "rehash" => r.row.legacy)
      BY DEF Accepted, To
    <3> HIDE DEF past
    <3>3. Become(s, To(s, "failed")) \/ Become(s, past) \/ \E n : Become(s, [past EXCEPT !.failures = n])
      BY <3>1 DEF Check
    <3>4. QED
      BY <3>2, <3>3 DEF To
  <2>3. ASSUME NEW n, NEW pc, pc = "rehash" => r.row.legacy, Become(s, [[r EXCEPT !.pc = pc] EXCEPT !.failures = n])
        PROVE  Moved(r, request'[s])
    <3> DEFINE q == [[r EXCEPT !.pc = pc] EXCEPT !.failures = n]
    <3>1. q.pc = pc /\ q.purpose = r.purpose /\ q.o = r.o /\ q.row = r.row /\ q.stale = r.stale
      BY <1>0 DEF RequestRow
    <3>2. request'[s].pc = q.pc /\ (q.pc \notin Answers => request'[s] = q)
      BY <2>3, BecomeSelf
    <3> HIDE DEF q
    <3>3. QED
      BY <2>1, <2>3, <3>1, <3>2 DEF Moved, Runs, Answers
  <2>4. ASSUME NEW pc, pc = "rehash" => r.row.legacy, Become(s, To(s, pc)) PROVE Moved(r, request'[s])
    <3> DEFINE q == To(s, pc)
    <3>1. q.pc = pc /\ q.purpose = r.purpose /\ q.o = r.o /\ q.row = r.row /\ q.stale = r.stale
      BY <1>0 DEF RequestRow, To
    <3>2. request'[s].pc = q.pc /\ (q.pc \notin Answers => request'[s] = q)
      BY <2>4, BecomeSelf
    <3> HIDE DEF q
    <3>3. QED
      BY <2>1, <2>4, <3>1, <3>2 DEF Moved, Runs, Answers
  <2>5. QED
    BY <2>2, <2>3, <2>4
<1>13. CASE ConfirmPasswordReset(s)
  <2>1. PICK c \in grants, pw \in NewPasswords :
          LET o == challenge[c].subject
              q == [Idle EXCEPT !.op = "reset", !.o = o, !.c = c, !.pw = pw, !.old = told \cap SessionsOf(o)]
          IN \/ Become(s, [Idle EXCEPT !.op = "reset", !.pc = "failed"])
             \/ request' = Outdate(o, s, [q EXCEPT !.pc = "revoke"])
             \/ request' = Outdate(o, s, [q EXCEPT !.pc = "failed"])
             \/ Become(s, [q EXCEPT !.pc = "failed"])
    BY <1>13 DEF ConfirmPasswordReset
  <2> DEFINE o == challenge[c].subject
             q == [Idle EXCEPT !.op = "reset", !.o = o, !.c = c, !.pw = pw, !.old = told \cap SessionsOf(o)]
  <2>2. /\ [q EXCEPT !.pc = "revoke"].purpose = "CONTACT" /\ [q EXCEPT !.pc = "failed"].pc = "failed"
        /\ [q EXCEPT !.pc = "revoke"].pc = "revoke"
        /\ [Idle EXCEPT !.op = "reset", !.pc = "failed"].pc = "failed"
    BY DEF Idle
  <2>3. \/ Become(s, [Idle EXCEPT !.op = "reset", !.pc = "failed"])
        \/ request' = Outdate(o, s, [q EXCEPT !.pc = "revoke"])
        \/ request' = Outdate(o, s, [q EXCEPT !.pc = "failed"])
        \/ Become(s, [q EXCEPT !.pc = "failed"])
    BY <2>1
  <2> HIDE DEF o, q
  <2>4. QED
    BY <2>2, <2>3, MovesOn DEF Answers
<1>14. CASE UpdateAdmin(s)
  <2> DEFINE q == [To(s, "readback") EXCEPT !.old = told \cap SessionsOf(request[s].o)]
             f == To(s, "failed")
  <2>1. request' = Outdate(r.o, s, q) \/ request' = Outdate(r.o, s, f) \/ Become(s, f)
    BY <1>14 DEF UpdateAdmin
  <2>2. q.pc = "readback" /\ q.purpose = r.purpose /\ q.o = r.o /\ f.pc = "failed"
    BY <1>0 DEF To, RequestRow
  <2>3. Runs(r.pc)
    BY <1>14 DEF UpdateAdmin, At, Runs, Answers
  <2> HIDE DEF q, f
  <2>4. QED
    BY <2>1, <2>2, <2>3, MovesOn DEF Answers
<1>15. CASE RequestCode(s)
  <2>1. PICK purpose \in {"REGISTER", "PASSWORD_RESET"}, o \in Users :
            Become(s, [Idle EXCEPT !.op = "send", !.o = o, !.purpose = purpose,
                                   !.pc = IF MaySend(purpose, o) THEN "cansend" ELSE "failed"])
    BY <1>15 DEF RequestCode
  <2> DEFINE pc == IF MaySend(purpose, o) THEN "cansend" ELSE "failed"
             q == [Idle EXCEPT !.op = "send", !.o = o, !.purpose = purpose, !.pc = pc]
  <2>2. q.pc = pc /\ q.purpose = purpose /\ q.o = o
    BY DEF Idle
  <2>3. Become(s, q) /\ pc \in {"cansend", "failed"} /\ (pc = "cansend" => MaySend(purpose, o))
    BY <2>1
  <2> HIDE DEF q, pc
  <2>4. request'[s].pc = q.pc /\ (q.pc \notin Answers => request'[s] = q)
    BY <2>3, BecomeSelf
  <2>5. QED
    BY <2>2, <2>3, <2>4 DEF Moved, Runs, Answers, MaySend
<1>16. CASE VerifyCode(s)
  <2>1. PICK c \in Challenge :
         \/ Become(s, [[Idle EXCEPT !.op = "verify", !.c = c, !.pc = "failed"] EXCEPT !.pc = "ok"])
         \/ Become(s, [Idle EXCEPT !.op = "verify", !.c = c, !.pc = "failed"])
    BY <1>16 DEF VerifyCode
  <2> DEFINE q == [Idle EXCEPT !.op = "verify", !.c = c, !.pc = "failed"]
  <2>2. q.pc = "failed" /\ [q EXCEPT !.pc = "ok"].pc = "ok"
    BY DEF Idle
  <2>3. Become(s, [q EXCEPT !.pc = "ok"]) \/ Become(s, q)
    BY <2>1
  <2> HIDE DEF q
  <2>4. QED
    BY <2>2, <2>3, MovesOn DEF Answers
<1>17. CASE Register(s)
  <2>1. PICK o, c :
            LET q == [Idle EXCEPT !.op = "register", !.o = o, !.c = c, !.pc = "failed"]
            IN Become(s, q) \/ Become(s, [q EXCEPT !.pc = "setex"]) \/ Become(s, To(s, "failed"))
    BY <1>17 DEF Register, Commit
  <2> DEFINE q == [Idle EXCEPT !.op = "register", !.o = o, !.c = c, !.pc = "failed"]
  <2>2. q.pc = "failed" /\ [q EXCEPT !.pc = "setex"].pc = "setex" /\ [q EXCEPT !.pc = "setex"].purpose = "CONTACT"
    BY DEF Idle
  <2>3. QED
    BY <1>1, <1>2, <2>1, <2>2, MovesOn DEF Answers
<1>18. QED
  BY <1>4, <1>5, <1>6, <1>7, <1>8, <1>9, <1>10, <1>11, <1>12, <1>13, <1>14, <1>15, <1>16, <1>17 DEF RequestStep, PlainStep

\* What a step does to an account, and to those that are about to write to it.
LEMMA AccountMoves ==
    ASSUME TypeInv, ResetInv, NEW s \in Requests, RequestStep(s) \/ MutateReminder(s), NEW o \in Owners
    PROVE  /\ account[o].status # "absent" => account'[o].status # "absent"
           /\ account'[o].legacy => account[o].legacy
           /\ account'[o].pw # account[o].pw =>
                 \/ changed'[o] = account'[o].pw
                 \/ request[s].pc = "rehash" /\ request[s].o = o
                 \/ o \in Users /\ account[o].status = "absent"
           /\ changed'[o] # changed[o] =>
                 /\ ~account'[o].legacy /\ (o \in Users => account'[o].status # "absent")
                 /\ request'[s].pc \notin {"reauth", "rehash"}
                 /\ \A p \in Requests \ {s} : request[p].o = o /\ request[p].row # NoRow => request'[p].stale
<1> DEFINE r == request[s]
           G == /\ account[o].status # "absent" => account'[o].status # "absent"
                /\ account'[o].legacy => account[o].legacy
                /\ account'[o].pw # account[o].pw =>
                      \/ changed'[o] = account'[o].pw
                      \/ r.pc = "rehash" /\ r.o = o
                      \/ o \in Users /\ account[o].status = "absent"
                /\ changed'[o] # changed[o] =>
                      /\ ~account'[o].legacy /\ (o \in Users => account'[o].status # "absent")
                      /\ request'[s].pc \notin {"reauth", "rehash"}
                      /\ \A p \in Requests \ {s} : request[p].o = o /\ request[p].row # NoRow => request'[p].stale
<1>0. /\ r \in RequestRow /\ Fits(r)
      /\ account \in [Owners -> AccountRow] /\ changed \in [Owners -> Passwords \cup {NoOne}]
  BY DEF TypeInv, RequestsFit, AccountsTypeOK
<1>1. ASSUME UNCHANGED <<account, changed>> PROVE G
  BY <1>1
<1>2. ASSUME \/ SetSession(s) \/ IndexSession(s) \/ UndoSession(s) \/ TimeIndex(s) \/ Resolve(s) \/ Renew(s)
             \/ ReadSession(s) \/ RemoveSession(s) \/ UnlistSession(s)
             \/ ReadIndex(s) \/ RemoveListed(s) \/ RemoveIndex(s)
             \/ Login(s) \/ ReadRow(s) \/ Reauthenticate(s) \/ ReadBack(s) \/ RequestCode(s) \/ CheckCooldown(s)
             \/ MutateReminder(s) \/ LoginFails(s) \/ InsertCode(s) \/ RemoveUndelivered(s)
      PROVE  UNCHANGED <<account, changed>>
  BY <1>2 DEF SetSession, IndexSession, UndoSession, TimeIndex, Resolve, Renew, ReadSession, RemoveSession, UnlistSession,
     ReadIndex, RemoveListed, RemoveIndex, Login, ReadRow, Reauthenticate, ReadBack, RequestCode, CheckCooldown,
     MutateReminder, SameAccount, LoginFails, InsertCode, RemoveUndelivered, accountVars
<1>3. ASSUME Finish(s) \/ Deliver(s) \/ VerifyCode(s) PROVE UNCHANGED <<account, changed>>
  BY <1>3 DEF Finish, Deliver, VerifyCode
<1>4. ASSUME Rehash(s) PROVE G
  <2>0. r.pc = "rehash" /\ changed' = changed
    BY <1>4 DEF Rehash, At
  <2>1. CASE account' = account
    BY <2>0, <2>1
  <2> SUFFICES ASSUME account' = [account EXCEPT ![r.o].pw = r.pw, ![r.o].legacy = FALSE] PROVE G
    BY <1>4, <2>1 DEF Rehash, Statement
  <2>2. r.o \in Owners
    BY <1>0, <2>0 DEF Fits, Runs, Answers
  <2> HIDE DEF r
  <2>3. CASE o = r.o
    <3>1. account'[o].status = account[o].status /\ ~account'[o].legacy
      BY <1>0, <2>2, <2>3 DEF AccountRow
    <3>2. QED
      BY <2>0, <2>3, <3>1
  <2>4. CASE o # r.o
    <3>1. account'[o] = account[o]
      BY <1>0, <2>2, <2>4
    <3>2. QED
      BY <2>0, <3>1
  <2>5. QED
    BY <2>3, <2>4
<1>5. ASSUME NEW v \in Owners, NEW pw \in Passwords, NEW q, SetPassword(v, pw), request' = Outdate(v, s, q),
             q.pc \notin {"reauth", "rehash"}, v \in Users => account[v].status # "absent"
      PROVE  G
  <2>1. request'[s].pc \notin {"reauth", "rehash"}
    BY <1>5, OutdateSelf
  <2>2. \A p \in Requests \ {s} : request[p].o = v /\ request[p].row # NoRow => request'[p].stale
    BY <1>5, OutdateSelf
  <2>3. CASE o = v
    <3>1. account'[o].pw = pw /\ ~account'[o].legacy /\ account'[o].status = account[o].status /\ changed'[o] = pw
      BY <1>0, <1>5, <2>3 DEF SetPassword, AccountRow
    <3>2. QED
      BY <1>5, <2>1, <2>2, <2>3, <3>1
  <2>4. CASE o # v
    <3>1. account'[o] = account[o] /\ changed'[o] = changed[o]
      BY <1>0, <1>5, <2>4 DEF SetPassword
    <3>2. QED
      BY <3>1
  <2>5. QED
    BY <2>3, <2>4
<1>6. ASSUME UpdateAdmin(s) PROVE G
  <2> DEFINE q == [To(s, "readback") EXCEPT !.old = told \cap SessionsOf(r.o)]
             f == To(s, "failed")
  <2>1. r.o \in Admins /\ r.pw \in Passwords
    <3>1. Runs(r.pc) /\ r.op \in AdminTokenOps
      BY <1>0, <1>6 DEF UpdateAdmin, At, Fits, Runs, Answers, AdminTokenOps
    <3>2. QED
      BY <1>0, <3>1 DEF Fits, RequestRow
  <2>2. \/ SetPassword(r.o, r.pw) /\ (request' = Outdate(r.o, s, q) \/ request' = Outdate(r.o, s, f))
        \/ UNCHANGED <<account, changed>>
    BY <1>6 DEF UpdateAdmin
  <2>3. q.pc = "readback" /\ f.pc = "failed"
    BY <1>0 DEF To, RequestRow
  <2>4. r.o \in Owners /\ r.o \notin Users
    BY <2>1, OwnersAssumption DEF Owners
  <2> HIDE DEF q, f, G
  <2>5. QED
    BY <1>1, <1>5, <2>1, <2>2, <2>3, <2>4
<1>7. ASSUME ConfirmPasswordReset(s) PROVE G
  <2>1. PICK c \in grants, pw \in NewPasswords :
          LET v == challenge[c].subject
              q == [Idle EXCEPT !.op = "reset", !.o = v, !.c = c, !.pw = pw, !.old = told \cap SessionsOf(v)]
          IN \/ UNCHANGED <<account, changed>>
             \/ /\ Granted(c, "PASSWORD_RESET") /\ SetPassword(v, pw)
                /\ \/ request' = Outdate(v, s, [q EXCEPT !.pc = "revoke"])
                   \/ request' = Outdate(v, s, [q EXCEPT !.pc = "failed"])
    BY <1>7 DEF ConfirmPasswordReset
  <2> DEFINE v == challenge[c].subject
             old == told \cap SessionsOf(v)
             q == [Idle EXCEPT !.op = "reset", !.o = v, !.c = c, !.pw = pw, !.old = old]
  <2>2. \/ UNCHANGED <<account, changed>>
        \/ /\ Granted(c, "PASSWORD_RESET") /\ SetPassword(v, pw)
           /\ \E pc \in {"revoke", "failed"} : request' = Outdate(v, s, [q EXCEPT !.pc = pc])
    BY <2>1
  <2>3. ASSUME Granted(c, "PASSWORD_RESET") PROVE v \in Owners /\ account[v].status # "absent" /\ pw \in Passwords
    BY <2>3 DEF Granted, ResetInv, AccountsReset, CodesReset, TypeInv, AccountsTypeOK, SubjectsKnown, NewPasswords
  <2>4. \A pc : [q EXCEPT !.pc = pc].pc = pc
    BY DEF Idle
  <2> HIDE DEF q, v, old
  <2>5. QED
    BY <1>1, <1>5, <2>2, <2>3, <2>4
<1>8. ASSUME Blacklist(s) PROVE G
  <2>1. PICK u \in Users, to \in {"active", "disabled"} :
          \/ UNCHANGED account
          \/ account' = [account EXCEPT ![u].status = to]
    BY <1>8 DEF Blacklist
  <2>2. changed' = changed
    BY <1>8 DEF Blacklist
  <2>3. QED
    BY <1>0, <2>1, <2>2 DEF AccountRow, Owners
<1>9. ASSUME Register(s) PROVE G
  <2>1. PICK u \in Users, pw \in NewPasswords :
          LET row == [pw |-> pw, legacy |-> FALSE, status |-> "active", verified |-> TRUE]
          IN \/ UNCHANGED account
             \/ account[u].status = "absent" /\ account' = [account EXCEPT ![u] = row]
    BY <1>9 DEF Register, Commit
  <2>2. changed' = changed
    BY <1>9 DEF Register, Commit
  <2> DEFINE row == [pw |-> pw, legacy |-> FALSE, status |-> "active", verified |-> TRUE]
  <2>3. row.legacy = FALSE /\ row.status = "active"
    OBVIOUS
  <2>4. UNCHANGED account \/ (account[u].status = "absent" /\ account' = [account EXCEPT ![u] = row])
    BY <2>1
  <2> HIDE DEF row
  <2>5. QED
    BY <1>0, <2>2, <2>3, <2>4
<1>10. ASSUME BindContact(s) PROVE G
  <2>1. PICK u : UNCHANGED account \/ account' = [account EXCEPT ![u].verified = TRUE]
    BY <1>10 DEF BindContact, Commit
  <2>2. changed' = changed
    BY <1>10 DEF BindContact, Commit
  <2>3. QED
    BY <1>0, <2>1, <2>2 DEF AccountRow
<1>11. G
  BY <1>1, <1>2, <1>3, <1>4, <1>6, <1>7, <1>8, <1>9, <1>10 DEF RequestStep
<1>12. QED
  BY <1>11

\* The other requests stay where they are.
LEMMA OthersWait ==
    ASSUME TypeInv, NEW s \in Requests, RequestStep(s) \/ MutateReminder(s), NEW p \in Requests \ {s}
    PROVE  /\ request'[p] = [request[p] EXCEPT !.stale = request'[p].stale]
           /\ request[p].stale => request'[p].stale
<1>0. request[p] \in RequestRow
  BY DEF TypeInv, RequestsFit
<1>1. ASSUME request'[p] = request[p]
      PROVE  request'[p] = [request[p] EXCEPT !.stale = request'[p].stale] /\ (request[p].stale => request'[p].stale)
  BY <1>0, <1>1 DEF RequestRow
<1>2. ASSUME NEW o, NEW q, request' = Outdate(o, s, q)
      PROVE  request'[p] = [request[p] EXCEPT !.stale = request'[p].stale] /\ (request[p].stale => request'[p].stale)
  BY <1>2, OutdateSelf
<1>3. (\E q : Become(s, q)) \/ (\E o, q : request' = Outdate(o, s, q))
  <2>1. CASE PlainStep(s)
    BY <2>1 DEF PlainStep, UndoSession, TimeIndex, RemoveSession, UnlistSession, RemoveIndex, IndexSession, LoginFails,
       Rehash, Finish, ReadBack, Blacklist, CheckCooldown, Deliver, RemoveUndelivered, BindContact, MutateReminder,
       Command, Refused, Commit
  <2>2. CASE SetSession(s) \/ ReadSession(s) \/ ReadIndex(s) \/ RemoveListed(s) \/ Resolve(s) \/ Renew(s)
    BY <2>2 DEF SetSession, ReadSession, ReadIndex, RemoveListed, Resolve, Renew, Command, Refused
  <2>3. CASE Login(s) \/ ReadRow(s) \/ Reauthenticate(s) \/ RequestCode(s) \/ InsertCode(s) \/ VerifyCode(s)
    BY <2>3 DEF Login, ReadRow, Reauthenticate, RequestCode, InsertCode, VerifyCode, Check
  <2>4. CASE ConfirmPasswordReset(s) \/ UpdateAdmin(s) \/ Register(s)
    BY <2>4 DEF ConfirmPasswordReset, UpdateAdmin, Register, Commit
  <2>5. QED
    BY <2>1, <2>2, <2>3, <2>4 DEF RequestStep, PlainStep
<1>4. CASE \E q : Become(s, q)
  BY <1>1, <1>4, BecomeSelf
<1>5. QED
  BY <1>2, <1>3, <1>4

LEMMA CodesResetStep ==
    ASSUME TypeInv, ResetInv, CodeChanges,
           \A o \in Owners : account[o].status # "absent" => account'[o].status # "absent"
    PROVE  CodesReset'
<1> SUFFICES ASSUME NEW d \in Challenge, challenge'[d].state \in {"sent", "verified"}, challenge'[d].purpose = "PASSWORD_RESET"
             PROVE  account'[challenge'[d].subject].status # "absent"
  BY DEF CodesReset
<1>0. /\ challenge \in [Challenge -> ChallengeRow]
      /\ \A c \in Challenge : challenge[c].state \in {"sent", "verified"} => challenge[c].subject \in Owners
  BY DEF TypeInv, AccountsTypeOK, ChallengesTypeOK, SubjectsKnown
<1>1. ASSUME challenge[d].state \in {"sent", "verified"}, challenge[d].purpose = "PASSWORD_RESET",
             challenge'[d].subject = challenge[d].subject
      PROVE  account'[challenge'[d].subject].status # "absent"
  BY <1>0, <1>1 DEF ResetInv, CodesReset
<1>2. ASSUME NEW c \in Challenge, NEW p \in Purposes, NEW o \in Owners, InsertChallenge(c, p, o),
             NEW s \in Requests, At(s, "insert"), request[s].purpose = p, request[s].o = o
      PROVE  account'[challenge'[d].subject].status # "absent"
  <2>1. CASE d = c
    <3>1. p = "PASSWORD_RESET" /\ challenge'[d].subject = o
      BY <1>0, <1>2, <2>1 DEF InsertChallenge
    <3>2. Runs(request[s].pc)
      BY <1>2 DEF At, Runs, Answers
    <3>3. QED
      BY <1>2, <3>1, <3>2 DEF ResetInv, RequestReset
  <2>2. CASE d # c
    BY <1>0, <1>1, <1>2, <2>2 DEF InsertChallenge
  <2>3. QED
    BY <2>1, <2>2
<1>3. CASE UNCHANGED challenge \/ \E c \in Challenge : LoseAttempt(c)
  BY <1>1, <1>3 DEF LoseAttempt
<1>4. ASSUME NEW c \in Challenge,
             RemoveChallenge(c) \/ ChallengeLapses(c) \/ CooldownEnds(c) \/ PurgeChallenge(c) \/ FailAttempt(c) \/ Consume(c)
      PROVE  account'[challenge'[d].subject].status # "absent"
  <2>1. /\ challenge'[d].subject = challenge[d].subject /\ challenge'[d].purpose = challenge[d].purpose
        /\ challenge'[d].state = challenge[d].state \/ challenge'[d].state \in {"deleted", "lapsed", "consumed"}
    BY <1>0, <1>4 DEF RemoveChallenge, ChallengeLapses, CooldownEnds, PurgeChallenge, FailAttempt, Consume, ChallengeRow
  <2>2. QED
    BY <1>1, <2>1
<1>5. ASSUME NEW c \in Challenge, NEW p, Active(c, p), MarkVerified(c)
      PROVE  account'[challenge'[d].subject].status # "absent"
  <2>1. /\ challenge'[d].subject = challenge[d].subject /\ challenge'[d].purpose = challenge[d].purpose
        /\ challenge'[d].state = challenge[d].state \/ (challenge[d].state = "sent" /\ challenge'[d].state = "verified")
    BY <1>0, <1>5 DEF Active, MarkVerified, ChallengeRow
  <2>2. QED
    BY <1>1, <2>1
<1>6. QED
  BY <1>2, <1>3, <1>4, <1>5 DEF CodeChanges

LEMMA RequestResetStep ==
    ASSUME TypeInv, ResetInv, NEW s \in Requests, RequestStep(s) \/ MutateReminder(s), NEW p \in Requests
    PROVE  RequestReset(request[p])'
<1> DEFINE n == request'[p]
<1>0. /\ request[p] \in RequestRow /\ Fits(request[p]) /\ RequestReset(request[p])
      /\ AccountsReset /\ n \in RequestRow /\ Fits(n)
  BY RequestStepFits DEF TypeInv, RequestsFit, ResetInv
<1>1. \A o \in Owners : account[o].status # "absent" => account'[o].status # "absent"
  BY AccountMoves
<1>2. CASE p = s
  <2>1. Moved(request[s], n)
    BY <1>2, RequestsMove
  <2>2. Runs(n.pc) /\ n.purpose = "PASSWORD_RESET" => account'[n.o].status # "absent"
    BY <1>0, <1>1, <1>2, <2>1 DEF Moved, RequestReset, Fits
  <2>3. ASSUME n.pc \in {"reauth", "rehash"}, n.row.legacy, ~n.stale PROVE changed'[n.o] = NoOne
    <3>1. n.o \in Owners
      BY <1>0, <2>3 DEF Fits, Runs, Answers
    <3>2. changed'[n.o] = changed[n.o]
      BY <1>2, <2>3, <3>1, AccountMoves
    <3>3. changed[n.o] = NoOne
      <4>1. CASE request[s].pc = "row" /\ n.row = account[n.o]
        BY <1>0, <2>3, <3>1, <4>1 DEF AccountsReset
      <4>2. CASE request[s].pc = "reauth" /\ n.row = request[s].row /\ n.stale = request[s].stale /\ n.o = request[s].o
        BY <1>0, <1>2, <2>3, <4>2 DEF RequestReset
      <4>3. QED
        BY <2>1, <2>3, <4>1, <4>2 DEF Moved
    <3>4. QED
      BY <3>2, <3>3
  <2>4. n.pc = "rehash" => n.row.legacy
    BY <2>1 DEF Moved
  <2>5. QED
    BY <2>2, <2>3, <2>4 DEF RequestReset
<1>3. CASE p # s
  <2>1. n = [request[p] EXCEPT !.stale = n.stale] /\ (request[p].stale => n.stale)
    BY <1>3, OthersWait
  <2>2. n.pc = request[p].pc /\ n.o = request[p].o /\ n.purpose = request[p].purpose /\ n.row = request[p].row
    BY <1>0, <2>1 DEF RequestRow
  <2>3. Runs(n.pc) /\ n.purpose = "PASSWORD_RESET" => account'[n.o].status # "absent"
    BY <1>0, <1>1, <2>2 DEF RequestReset, Fits
  <2>4. ASSUME n.pc \in {"reauth", "rehash"}, n.row.legacy, ~n.stale PROVE changed'[n.o] = NoOne
    <3>1. n.o \in Owners
      BY <1>0, <2>4 DEF Fits, Runs, Answers
    <3>2. changed[n.o] = NoOne
      BY <1>0, <2>1, <2>2, <2>4 DEF RequestReset
    <3>3. request[p].row # NoRow
      BY <2>2, <2>4 DEF NoRow
    <3>4. changed'[n.o] = changed[n.o]
      BY <1>3, <2>2, <2>4, <3>1, <3>3, AccountMoves
    <3>5. QED
      BY <3>2, <3>4
  <2>5. n.pc = "rehash" => n.row.legacy
    BY <1>0, <2>2 DEF RequestReset
  <2>6. QED
    BY <2>3, <2>4, <2>5 DEF RequestReset
<1>4. QED
  BY <1>2, <1>3

LEMMA ResetStep == TypeInv /\ ResetInv /\ [Next]_vars => ResetInv'
<1> SUFFICES ASSUME TypeInv, ResetInv, [Next]_vars PROVE ResetInv'
  OBVIOUS
<1>0. CodeChanges /\ AccountsReset
  BY StepParts DEF ResetInv
<1>1. ASSUME NEW s \in Requests, RequestStep(s) \/ MutateReminder(s) PROVE ResetInv'
  <2>1. AccountsReset'
    <3> SUFFICES ASSUME NEW o \in Owners, changed'[o] # NoOne
                 PROVE  ~account'[o].legacy /\ (o \in Users => account'[o].status # "absent")
      BY DEF AccountsReset
    <3>1. CASE changed'[o] = changed[o]
      BY <1>0, <1>1, <3>1, AccountMoves DEF AccountsReset
    <3>2. CASE changed'[o] # changed[o]
      BY <1>1, <3>2, AccountMoves
    <3>3. QED
      BY <3>1, <3>2
  <2>2. CodesReset'
    BY <1>0, <1>1, AccountMoves, CodesResetStep
  <2>3. \A p \in Requests : RequestReset(request[p])'
    BY <1>1, RequestResetStep
  <2>4. QED
    BY <2>1, <2>2, <2>3 DEF ResetInv, AccountsReset, CodesReset, RequestReset
<1>2. ASSUME UNCHANGED <<account, changed, request>> PROVE ResetInv'
  <2>1. CodesReset'
    BY <1>0, <1>2, CodesResetStep
  <2>2. QED
    BY <1>2, <2>1 DEF ResetInv, AccountsReset, CodesReset, RequestReset
<1>3. CASE TimePasses \/ UNCHANGED vars \/ UNCHANGED <<sessionVars, challengeVars, accountVars, request, faults>>
  BY <1>2, <1>3 DEF TimePasses, Others, vars, accountVars
<1>4. QED
  BY <1>1, <1>3 DEF Next

LEMMA ResetInitially == Init => ResetInv
<1> SUFFICES ASSUME NEW seed \in Seeds, InitWith(seed) PROVE ResetInv
  BY DEF Init
<1>1. AccountsReset
  BY DEF InitWith, AccountsReset
<1>2. CodesReset
  BY SeedsAssumption DEF InitWith, CodesReset
<1>3. ASSUME NEW s \in Requests PROVE RequestReset(request[s])
  <2>1. ~Runs(request[s].pc)
    BY <1>3 DEF InitWith, Idle, Runs, Answers
  <2>2. QED
    BY <2>1 DEF RequestReset, Runs, Answers
<1>4. QED
  BY <1>1, <1>2, <1>3 DEF ResetInv

\* No login that had compared the old password, and no registration, puts
\* another password over one that a reset or a change has set; the upgrade of
\* an old hash by a request that read it before is the one exception.
THEOREM ResetsAreKept == Spec => ResetsStick
<1> DEFINE Step == \A o \in Owners :
          changed[o] # NoOne /\ account'[o].pw # changed[o] =>
              \/ changed'[o] = account'[o].pw
              \/ account[o].pw # changed[o]
              \/ \E s \in Requests : request[s].pc = "rehash" /\ request[s].stale /\ request[s].row.legacy
<1>1. TypeInv /\ ResetInv /\ [Next]_vars => [Step]_vars
  <2> SUFFICES ASSUME TypeInv, ResetInv, Next, NEW o \in Owners, changed[o] # NoOne, account'[o].pw # account[o].pw
               PROVE  \/ changed'[o] = account'[o].pw
                      \/ \E s \in Requests : request[s].pc = "rehash" /\ request[s].stale /\ request[s].row.legacy
    OBVIOUS
  <2>1. PICK s \in Requests : RequestStep(s) \/ MutateReminder(s)
    BY DEF Next, TimePasses, Others, accountVars
  <2>2. AccountsReset /\ RequestReset(request[s]) /\ Fits(request[s])
    BY DEF TypeInv, RequestsFit, ResetInv
  <2>3. CASE request[s].pc = "rehash" /\ request[s].o = o
    <3>1. request[s].row.legacy /\ request[s].stale
      BY <2>2, <2>3 DEF RequestReset
    <3>2. QED
      BY <2>3, <3>1
  <2>4. CASE o \in Users /\ account[o].status = "absent"
    BY <2>2, <2>4 DEF AccountsReset
  <2>5. QED
    BY <2>1, <2>3, <2>4, AccountMoves
<1>2. Spec => [](TypeInv /\ ResetInv)
  BY TypesInitially, TypesKept, ResetInitially, ResetStep, PTL DEF Spec
<1>3. Spec => [][Step]_vars
  BY <1>1, <1>2, PTL DEF Spec
<1>4. QED
  BY <1>3 DEF ResetsStick

-----------------------------------------------------------------------------
(* Sessions.                                                                *)

Gone(t) == session[t] = NoOne \/ t \in unlisted
Listed(t, o) == Gone(t) \/ (session[t] = o /\ t \in index[o])

\* Those of whom every session is in the index.
Sound(o) == o \in Users \/ faults = 0

\* What a request in the middle of its commands may rely on.
RequestHolds(r) ==
    /\ r.old \subseteq told
    /\ r.pc \in {"each", "drop"} => backend = "redis"
    /\ r.pc \in {"sadd", "ttl", "clear"} /\ r.op # "contact" => session[r.t] \in {NoOne, r.o}
    /\ backend = "redis" /\ r.pc = "srem" => session[r.t] = NoOne
    /\ backend = "redis" /\ Sound(r.o) =>
          /\ r.pc \in {"ttl", "clear"} /\ r.op # "contact" => Listed(r.t, r.o)
          /\ r.pc \in {"readback", "revoke"} => \A t \in r.old : Listed(t, r.o)
          /\ r.pc = "each" => \A t \in r.old : Gone(t) \/ t \in r.list
          /\ r.pc = "drop" => \A t \in r.old : Gone(t)
    /\ backend = "memory" /\ r.pc \in {"readback", "revoke"} => \A t \in r.old : session[t] \in {NoOne, r.o}
    /\ r.op \in {"reset", "change"} /\ r.pc = "ok" /\ Sound(r.o) => \A t \in r.old : Gone(t)

ToldListed ==
    backend = "redis" => \A t \in told : session[t] # NoOne /\ Sound(session[t]) => Listed(t, session[t])

SessionsInv == ToldListed /\ \A s \in Requests : RequestHolds(request[s])

\* A token that a client or a request has.
Held(t) == t \in told \/ \E s \in Requests : request[s].t = t

\* No step gives a held token another owner, brings back a session that has
\* ended or takes a live one off the index without its being noted.
LEMMA TokensStep ==
    ASSUME TypeInv, SessionsInv, StoreChanges, NEW t \in Tokens, Held(t)
    PROVE  /\ backend' = backend
           /\ session'[t] \in {session[t], NoOne}
           /\ Gone(t) => Gone(t)'
           /\ \A o \in Owners : backend = "redis" /\ Sound(o) /\ Listed(t, o) => Listed(t, o)'
<1> DEFINE G == /\ backend' = backend
                /\ session'[t] \in {session[t], NoOne}
                /\ Gone(t) => Gone(t)'
                /\ \A o \in Owners : backend = "redis" /\ Sound(o) /\ Listed(t, o) => Listed(t, o)'
<1>0. /\ session \in [Tokens -> Owners \cup {NoOne}]
      /\ index \in [Owners -> SUBSET Tokens]
  BY DEF TypeInv, AccountsTypeOK, SessionsTypeOK
<1>1. ASSUME UNCHANGED sessionVars PROVE G
  BY <1>1 DEF sessionVars, Gone, Listed
<1>2. ASSUME NEW f \in FreshTokens, NEW o \in Owners, NEW must, SetEx(f, o, must) \/ MemoryCreate(f, o, must) PROVE G
  <2>1. f # t
    BY <1>2 DEF FreshTokens, Held
  <2>2. session'[t] = session[t] /\ UNCHANGED <<backend, index, unlisted>>
    BY <1>0, <1>2, <2>1 DEF SetEx, MemoryCreate
  <2>3. QED
    BY <2>2 DEF Gone, Listed
<1>3. ASSUME NEW f \in Tokens, NEW o \in Owners, SAdd(o, f) PROVE G
  BY <1>0, <1>3 DEF SAdd, Gone, Listed
<1>4. ASSUME NEW f \in Tokens, NEW o \in Owners, SRem(o, f), NEW s \in Requests, At(s, "srem"), request[s].t = f PROVE G
  <2>1. UNCHANGED <<backend, session, unlisted>>
    BY <1>4 DEF SRem
  <2>2. backend = "redis" => session[f] = NoOne
    BY <1>4 DEF SessionsInv, RequestHolds, At
  <2>3. \A v \in Owners : index'[v] = index[v] \/ index'[v] = index[v] \ {f}
    BY <1>0, <1>4 DEF SRem
  <2>4. QED
    BY <1>0, <2>1, <2>2, <2>3 DEF Gone, Listed
<1>5. ASSUME NEW f \in Tokens, GetEx(f) \/ DelSession(f) PROVE G
  <2>1. session'[t] \in {session[t], NoOne} /\ UNCHANGED <<backend, index, unlisted>>
    BY <1>0, <1>5 DEF GetEx, DelSession
  <2>2. QED
    BY <2>1 DEF Gone, Listed
<1>6. ASSUME NEW o \in Owners, ExpireIndex(o) \/ MemoryRemoveAll(o) PROVE G
  <2>1. session'[t] \in {session[t], NoOne} /\ UNCHANGED <<backend, index, unlisted>>
    BY <1>0, <1>6 DEF ExpireIndex, MemoryRemoveAll
  <2>2. QED
    BY <2>1 DEF Gone, Listed
<1>7. ASSUME NEW v \in Owners, NEW undertaken \in SUBSET Tokens, DropIndex(v, undertaken),
             undertaken = {} \/ \E s \in Requests : At(s, "drop") /\ request[s].o = v /\ request[s].old = undertaken
      PROVE  G
  <2>1. /\ UNCHANGED <<backend, session>> /\ unlisted \subseteq unlisted'
        /\ \A o \in Owners \ {v} : index'[o] = index[o]
    BY <1>0, <1>7 DEF DropIndex
  <2>2. ASSUME backend = "redis", Sound(v), session[t] = v, t \in index[v] PROVE Gone(t)'
    <3>1. CASE t \in undertaken
      <4>1. PICK s \in Requests : At(s, "drop") /\ request[s].o = v /\ request[s].old = undertaken
        BY <1>7, <3>1
      <4>2. Gone(t)
        BY <2>2, <3>1, <4>1 DEF SessionsInv, RequestHolds, At
      <4>3. QED
        BY <2>1, <4>2 DEF Gone
    <3>2. CASE t \notin undertaken
      BY <1>7, <2>2, <3>2 DEF DropIndex, SessionsOf, Gone
    <3>3. QED
      BY <3>1, <3>2
  <2>3. Gone(t) => Gone(t)'
    BY <2>1 DEF Gone
  <2>4. QED
    BY <2>1, <2>2, <2>3 DEF Listed
<1>8. G
  BY <1>1, <1>2, <1>3, <1>4, <1>5, <1>6, <1>7 DEF StoreChanges
<1>9. QED
  BY <1>8

LEMMA StoreBackend == ASSUME StoreChanges PROVE backend' = backend
BY DEF StoreChanges, sessionVars, SetEx, MemoryCreate, SAdd, SRem, GetEx, DelSession, ExpireIndex, MemoryRemoveAll,
   DropIndex

LEMMA SelfKeeps ==
    ASSUME TypeInv, NEW s \in Requests, NEW q, Become(s, q) \/ \E o : request' = Outdate(o, s, q)
    PROVE  /\ request'[s].pc = q.pc /\ request'[s].op = q.op /\ request'[s].o = q.o /\ request'[s].old = q.old
           /\ q.pc \notin Answers => request'[s] = q
<1>1. request'[s] = Settle(q)
  BY DEF Become, Outdate, TypeInv, RequestsFit
<1>2. Settle(q).pc = q.pc /\ Settle(q).op = q.op /\ Settle(q).o = q.o /\ Settle(q).old = q.old /\ (q.pc \notin Answers => Settle(q) = q)
  BY DEF Settle, Idle
<1>3. QED
  BY <1>1, <1>2

Duties == {"sadd", "ttl", "clear", "srem", "readback", "revoke", "each", "drop"}

\* A request that relies on nothing after its step.
LEMMA FreeOfDuty ==
    ASSUME TypeInv, NEW s \in Requests, NEW q, Become(s, q) \/ \E o : request' = Outdate(o, s, q), q.old \subseteq told',
           q.pc \notin Duties \/ (q.pc = "clear" /\ q.op = "contact"), q.pc = "ok" => q.op \notin {"reset", "change"}
    PROVE  RequestHolds(request[s])'
<1>1. /\ request'[s].pc = q.pc /\ request'[s].op = q.op /\ request'[s].old = q.old
  BY SelfKeeps
<1> DEFINE n == request'[s]
<1>2. /\ n.old \subseteq told'
      /\ n.pc \notin {"sadd", "ttl", "srem", "readback", "revoke", "each", "drop"}
      /\ n.pc = "clear" => n.op = "contact"
      /\ n.pc = "ok" => n.op \notin {"reset", "change"}
  BY <1>1 DEF Duties
<1> HIDE DEF n
<1>3. QED
  BY <1>2 DEF RequestHolds, n

LEMMA ToldGrows ==
    ASSUME NEW s \in Requests, RequestStep(s) \/ MutateReminder(s)
    PROVE  /\ told \subseteq told'
           /\ told' # told => Finish(s) /\ request[s].op # "contact" /\ told' = told \cup {request[s].t}
<1>1. CASE Finish(s)
  BY <1>1 DEF Finish
<1>2. CASE \/ SetSession(s) \/ IndexSession(s) \/ UndoSession(s) \/ TimeIndex(s) \/ Resolve(s) \/ Renew(s)
           \/ ReadSession(s) \/ RemoveSession(s) \/ UnlistSession(s)
           \/ ReadIndex(s) \/ RemoveListed(s) \/ RemoveIndex(s)
           \/ Login(s) \/ ReadRow(s) \/ Reauthenticate(s) \/ ReadBack(s) \/ RequestCode(s) \/ CheckCooldown(s)
           \/ MutateReminder(s) \/ LoginFails(s) \/ InsertCode(s) \/ RemoveUndelivered(s)
  <2>1. told' = told
    BY <1>2 DEF SetSession, IndexSession, UndoSession, TimeIndex, Resolve, Renew, ReadSession, RemoveSession, UnlistSession,
       ReadIndex, RemoveListed, RemoveIndex, Login, ReadRow, Reauthenticate, ReadBack, RequestCode, CheckCooldown,
       MutateReminder, SameAccount, LoginFails, InsertCode, RemoveUndelivered, accountVars
  <2>2. QED
    BY <2>1
<1>3. CASE \/ Rehash(s) \/ ConfirmPasswordReset(s) \/ UpdateAdmin(s) \/ Blacklist(s) \/ Deliver(s) \/ VerifyCode(s)
           \/ Register(s) \/ BindContact(s)
  <2>1. told' = told
    BY <1>3 DEF Rehash, ConfirmPasswordReset, UpdateAdmin, Blacklist, Deliver, VerifyCode, Register, BindContact, SameRest
  <2>2. QED
    BY <2>1
<1>4. QED
  BY <1>1, <1>2, <1>3 DEF RequestStep

\* Steps after which a request relies on nothing.
LEMMA IdleDuties ==
    ASSUME TypeInv, NEW s \in Requests, RequestStep(s) \/ MutateReminder(s), request[s].old \subseteq told,
           \/ PlainStep(s) /\ ~IndexSession(s) /\ ~TimeIndex(s) /\ ~RemoveSession(s) /\ ~RemoveIndex(s) /\ ~ReadBack(s)
           \/ ReadSession(s) \/ InsertCode(s) \/ Resolve(s) \/ Renew(s) \/ Login(s) \/ ReadRow(s) \/ Reauthenticate(s)
           \/ RequestCode(s) \/ VerifyCode(s) \/ Register(s)
    PROVE  RequestHolds(request[s])'
<1> DEFINE r == request[s]
<1>0. r \in RequestRow /\ Fits(r) /\ r.old \subseteq told' /\ {} \subseteq told'
  BY ToldGrows DEF TypeInv, RequestsFit
<1>1. ASSUME NEW pc, Become(s, To(s, pc)), pc \notin Duties \/ (pc = "clear" /\ r.op = "contact"),
             pc = "ok" => r.op \notin {"reset", "change"}
      PROVE  RequestHolds(request[s])'
  <2>1. To(s, pc).pc = pc /\ To(s, pc).op = r.op /\ To(s, pc).old = r.old
    BY <1>0 DEF To, RequestRow
  <2>2. QED
    BY <1>0, <1>1, <2>1, FreeOfDuty
<1>2. ASSUME NEW q, Become(s, q), q.old = {}, q.pc \notin Duties, q.pc = "ok" => q.op \notin {"reset", "change"}
      PROVE  RequestHolds(request[s])'
  BY <1>0, <1>2, FreeOfDuty
<1>3. ASSUME NEW q, Become(s, q), q.old = r.old, q.op = r.op, q.pc \notin Duties \/ (q.pc = "clear" /\ r.op = "contact"),
             q.pc = "ok" => q.op \notin {"reset", "change"}
      PROVE  RequestHolds(request[s])'
  BY <1>0, <1>3, FreeOfDuty
<1>4. CASE UndoSession(s) \/ UnlistSession(s)
  <2>1. \E pc \in {"ok", "failed"} : Become(s, To(s, pc))
    BY <1>4 DEF UndoSession, UnlistSession, Command
  <2>2. r.op \notin {"reset", "change"}
    BY <1>0, <1>4 DEF UndoSession, UnlistSession, At, Fits
  <2>3. QED
    BY <1>1, <2>1, <2>2 DEF Duties
<1>5. CASE Rehash(s) \/ Finish(s) \/ LoginFails(s)
  <2>1. \E pc : Become(s, To(s, pc)) /\ (pc \in {"setex", "cansend", "ok", "failed"} \/ (pc = "clear" /\ r.op # "login"))
    BY <1>5 DEF Rehash, Finish, LoginFails
  <2>2. r.op \notin {"reset", "change"} /\ (r.pc = "rehash" => r.op \in {"login", "contact"})
    BY <1>0, <1>5 DEF Rehash, Finish, LoginFails, At, Fits
  <2>3. \E pc : Become(s, To(s, pc)) /\ (pc \in {"setex", "cansend", "ok", "failed"} \/ (pc = "clear" /\ r.op = "contact"))
    BY <1>5, <2>1, <2>2 DEF Rehash, Finish, LoginFails, At
  <2>4. QED
    BY <1>1, <2>2, <2>3 DEF Duties
<1>6. CASE Blacklist(s) \/ CheckCooldown(s) \/ Deliver(s) \/ RemoveUndelivered(s) \/ BindContact(s) \/ MutateReminder(s)
  <2>1. \E pc \in {"ok", "failed", "insert", "remove"} : Become(s, To(s, pc))
    BY <1>6 DEF Blacklist, CheckCooldown, Deliver, RemoveUndelivered, BindContact, MutateReminder, Commit
  <2>2. r.op \notin {"reset", "change"}
    BY <1>0, <1>6 DEF Blacklist, CheckCooldown, Deliver, RemoveUndelivered, BindContact, MutateReminder, At, Fits
  <2>3. QED
    BY <1>1, <2>1, <2>2 DEF Duties
<1>7. CASE ReadSession(s)
  <2> DEFINE q == [To(s, "del") EXCEPT !.list = {To(s, "del").t}]
  <2>1. (\E pc \in {"del", "ok"} : Become(s, To(s, pc))) \/ Become(s, q)
    BY <1>7 DEF ReadSession, Command
  <2>2. q.pc = "del" /\ q.old = r.old /\ q.op = r.op
    BY <1>0 DEF RequestRow, To
  <2> HIDE DEF q
  <2>3. r.op = "logout"
    BY <1>0, <1>7 DEF ReadSession, At, Fits
  <2>4. QED
    BY <1>1, <1>3, <2>1, <2>2, <2>3 DEF Duties
<1>8. CASE InsertCode(s)
  <2>1. PICK c : Become(s, To(s, "failed")) \/ Become(s, [To(s, "deliver") EXCEPT !.c = c])
    BY <1>8 DEF InsertCode
  <2> DEFINE q == [To(s, "deliver") EXCEPT !.c = c]
  <2>2. q.pc = "deliver" /\ q.old = r.old /\ q.op = r.op
    BY <1>0 DEF RequestRow, To
  <2> HIDE DEF q
  <2>3. QED
    BY <1>1, <1>3, <2>1, <2>2 DEF Duties, q
<1>9. CASE Renew(s)
  <2>1. Become(s, Resolved(r)) /\ r.op \in TokenOps
    BY <1>0, <1>9 DEF Renew, Command, At, Fits
  <2>2. Resolved(r).old = r.old /\ Resolved(r).op = r.op
    BY <1>0 DEF Resolved, RequestRow
  <2>3. Resolved(r).pc \notin Duties /\ (Resolved(r).pc = "ok" => r.op = "use")
    BY <1>0, <2>1 DEF Resolved, RequestRow, TokenOps, UserTokenOps, AdminTokenOps, Duties
  <2>4. QED
    BY <1>3, <2>1, <2>2, <2>3
<1>10. CASE Resolve(s)
  <2>1. PICK op \in TokenOps, t \in told, pw \in NewPasswords :
            LET q == [Idle EXCEPT !.op = op, !.t = t, !.o = session[t], !.pw = pw]
            IN Become(s, [q EXCEPT !.pc = "failed"]) \/ Become(s, Resolved(q)) \/ Become(s, [q EXCEPT !.pc = "renew"])
    BY <1>10 DEF Resolve, Command
  <2> DEFINE q == [Idle EXCEPT !.op = op, !.t = t, !.o = session[t], !.pw = pw]
  <2>2. \A pc : [q EXCEPT !.pc = pc].old = {} /\ [q EXCEPT !.pc = pc].pc = pc
    BY DEF Idle
  <2>3. q.op = op /\ q.old = {} /\ {"old", "op", "pc"} \subseteq DOMAIN q
    BY DEF Idle
  <2>4. \/ Become(s, [q EXCEPT !.pc = "failed"])
        \/ Become(s, [q EXCEPT !.pc = "renew"])
        \/ Become(s, Resolved(q))
    BY <2>1
  <2> HIDE DEF q
  <2>5. Resolved(q).old = {} /\ Resolved(q).op = op /\ Resolved(q).pc \notin Duties /\ (Resolved(q).pc = "ok" => op = "use")
    BY <2>3 DEF Resolved, TokenOps, UserTokenOps, AdminTokenOps, Duties
  <2>6. QED
    BY <1>2, <2>2, <2>4, <2>5 DEF Duties
<1>11. CASE Login(s)
  <2>1. PICK o \in Owners, pw \in Passwords :
          LET q == [Idle EXCEPT !.op = "login", !.o = o, !.pw = pw, !.pc = "row"]
          IN Check(s, <<"account", o>>, q, [q EXCEPT !.pc = "failed"])
    BY <1>11 DEF Login
  <2> DEFINE q == [Idle EXCEPT !.op = "login", !.o = o, !.pw = pw, !.pc = "row"]
             f == [q EXCEPT !.pc = "failed"]
  <2>2. /\ q.old = {} /\ q.pc = "row" /\ f.old = {} /\ f.pc = "failed"
        /\ \A n : [q EXCEPT !.failures = n].old = {} /\ [q EXCEPT !.failures = n].pc = "row"
    BY DEF Idle
  <2>3. Become(s, q) \/ Become(s, f) \/ \E n : Become(s, [q EXCEPT !.failures = n])
    BY <2>1 DEF Check
  <2> HIDE DEF q, f
  <2>4. QED
    BY <1>2, <2>2, <2>3 DEF Duties
<1>12. CASE ReadRow(s)
  <2> DEFINE a == [request[s] EXCEPT !.row = account[request[s].o]]
             disabled == a.o \in Users /\ account[request[s].o].status = "disabled"
  <2>1. \/ Become(s, To(s, "fail")) \/ Become(s, To(s, "failed"))
        \/ Become(s, IF a.op = "contact"
                     THEN [a EXCEPT !.pc = IF disabled THEN "failed" ELSE "reauth"]
                     ELSE IF disabled THEN [a EXCEPT !.pc = "failed"]
                     ELSE IF Matches(a.pw, account[request[s].o]) THEN Accepted(a)
                     ELSE [a EXCEPT !.pc = "fail"])
    BY <1>12, Zenon DEF ReadRow
  <2>2. a.old = r.old /\ a.op = r.op /\ {"old", "op", "pc"} \subseteq DOMAIN a
    BY <1>0 DEF RequestRow
  <2>3. r.op \in {"login", "contact"}
    BY <1>0, <1>12 DEF ReadRow, At, Fits
  <2> HIDE DEF disabled, a
  <2>4. \/ Become(s, To(s, "fail")) \/ Become(s, To(s, "failed"))
        \/ \E pc \in {"failed", "reauth", "fail", "rehash", "setex"} : Become(s, [a EXCEPT !.pc = pc])
    <3>1. CASE a.op = "contact"
      BY <2>1, <3>1
    <3>2. CASE a.op # "contact"
      <4>1. \/ Become(s, To(s, "fail")) \/ Become(s, To(s, "failed"))
            \/ Become(s, [a EXCEPT !.pc = "failed"]) \/ Become(s, [a EXCEPT !.pc = "fail"]) \/ Become(s, Accepted(a))
        BY <2>1, <3>2
      <4>2. QED
        BY <2>2, <2>3, <3>2, <4>1 DEF Accepted
    <3>3. QED
      BY <3>1, <3>2
  <2>5. ASSUME NEW pc \in {"failed", "reauth", "fail", "rehash", "setex"}
        PROVE  [a EXCEPT !.pc = pc].old = r.old /\ [a EXCEPT !.pc = pc].op = r.op /\ [a EXCEPT !.pc = pc].pc = pc
    BY <2>2
  <2>6. QED
    BY <1>1, <1>3, <2>4, <2>5 DEF Duties
<1>13. CASE Reauthenticate(s)
  <2>1. r.op = "contact"
    BY <1>0, <1>13 DEF Reauthenticate, At, Fits
  <2>2. \/ Become(s, To(s, "failed"))
        \/ \E pc \in {"rehash", "clear", "fail"} :
              \/ Become(s, To(s, pc))
              \/ \E n : Become(s, [[r EXCEPT !.pc = pc] EXCEPT !.failures = n])
    <3> DEFINE past == IF Matches(r.pw, r.row) THEN Accepted(r) ELSE To(s, "fail")
    <3>1. Check(s, <<"contact_reauth", r.o>>, past, To(s, "failed"))
      BY <1>13 DEF Reauthenticate
    <3>2. PICK pc \in {"rehash", "clear", "fail"} : past = [r EXCEPT !.pc = pc]
      BY <2>1 DEF Accepted, To
    <3> HIDE DEF past
    <3>3. Become(s, To(s, "failed")) \/ Become(s, past) \/ \E n : Become(s, [past EXCEPT !.failures = n])
      BY <3>1 DEF Check
    <3>4. QED
      BY <3>2, <3>3 DEF To
  <2>3. ASSUME NEW n, NEW pc
        PROVE  LET q == [[r EXCEPT !.pc = pc] EXCEPT !.failures = n] IN q.old = r.old /\ q.op = r.op /\ q.pc = pc
    BY <1>0 DEF RequestRow
  <2>4. QED
    BY <1>1, <1>3, <2>1, <2>2, <2>3 DEF Duties
<1>14. CASE RequestCode(s)
  <2>1. PICK purpose \in {"REGISTER", "PASSWORD_RESET"}, o \in Users :
            Become(s, [Idle EXCEPT !.op = "send", !.o = o, !.purpose = purpose,
                                   !.pc = IF MaySend(purpose, o) THEN "cansend" ELSE "failed"])
    BY <1>14 DEF RequestCode
  <2> DEFINE pc == IF MaySend(purpose, o) THEN "cansend" ELSE "failed"
             q == [Idle EXCEPT !.op = "send", !.o = o, !.purpose = purpose, !.pc = pc]
  <2>2. q.pc = pc /\ q.old = {}
    BY DEF Idle
  <2>3. Become(s, q) /\ pc \in {"cansend", "failed"}
    BY <2>1
  <2> HIDE DEF q, pc
  <2>4. QED
    BY <1>2, <2>2, <2>3 DEF Duties
<1>15. CASE VerifyCode(s)
  <2>1. PICK c \in Challenge :
         \/ Become(s, [[Idle EXCEPT !.op = "verify", !.c = c, !.pc = "failed"] EXCEPT !.pc = "ok"])
         \/ Become(s, [Idle EXCEPT !.op = "verify", !.c = c, !.pc = "failed"])
    BY <1>15 DEF VerifyCode
  <2> DEFINE q == [Idle EXCEPT !.op = "verify", !.c = c, !.pc = "failed"]
             v == [q EXCEPT !.pc = "ok"]
  <2>2. q.pc = "failed" /\ q.old = {} /\ v.pc = "ok" /\ v.old = {} /\ v.op = "verify"
    BY DEF Idle
  <2>3. Become(s, v) \/ Become(s, q)
    BY <2>1
  <2> HIDE DEF q, v
  <2>4. QED
    BY <1>2, <2>2, <2>3 DEF Duties
<1>16. CASE Register(s)
  <2>1. PICK o, c :
            LET q == [Idle EXCEPT !.op = "register", !.o = o, !.c = c, !.pc = "failed"]
            IN Become(s, q) \/ Become(s, [q EXCEPT !.pc = "setex"]) \/ Become(s, To(s, "failed"))
    BY <1>16 DEF Register, Commit
  <2> DEFINE q == [Idle EXCEPT !.op = "register", !.o = o, !.c = c, !.pc = "failed"]
             v == [q EXCEPT !.pc = "setex"]
  <2>2. q.pc = "failed" /\ q.old = {} /\ v.pc = "setex" /\ v.old = {}
    BY DEF Idle
  <2>3. Become(s, q) \/ Become(s, v) \/ Become(s, To(s, "failed"))
    BY <2>1
  <2> HIDE DEF q, v
  <2>4. QED
    BY <1>1, <1>2, <2>2, <2>3 DEF Duties
<1>17. QED
  BY <1>4, <1>5, <1>6, <1>7, <1>8, <1>9, <1>10, <1>11, <1>12, <1>13, <1>14, <1>15, <1>16 DEF PlainStep

LEMMA FaultsGrow ==
    ASSUME TypeInv, NEW s \in Requests, RequestStep(s) \/ MutateReminder(s)
    PROVE  /\ faults \in Nat /\ (faults' = 0 => faults = 0)
           /\ MayFail => faults' # 0
           /\ \A o : Sound(o)' => Sound(o)
BY FaultsCounted, AccountsAssumption DEF TypeInv, AccountsTypeOK, MayFail, Sound

\* The session that is created.
LEMMA CreationDuties ==
    ASSUME TypeInv, SessionsInv, NEW s \in Requests, SetSession(s) \/ IndexSession(s) \/ TimeIndex(s)
    PROVE  RequestHolds(request[s])'
<1> DEFINE r == request[s]
           n == request'[s]
<1>0. /\ r \in RequestRow /\ Fits(r) /\ r.o \in Owners /\ RequestHolds(r) /\ r.old \subseteq told'
      /\ session \in [Tokens -> Owners \cup {NoOne}] /\ index \in [Owners -> SUBSET Tokens]
      /\ RequestStep(s) /\ r.op \in {"login", "register"}
  <2>1. RequestStep(s)
    BY DEF RequestStep
  <2>2. r.pc \in {"setex", "sadd", "ttl"}
    BY DEF SetSession, IndexSession, TimeIndex, At
  <2>3. QED
    BY <2>1, <2>2, ToldGrows DEF TypeInv, RequestsFit, AccountsTypeOK, SessionsTypeOK, SessionsInv, Fits, Runs, Answers, RequestHolds
<1>1. ASSUME NEW pc \in {"failed", "undo"}, Become(s, To(s, pc)) PROVE RequestHolds(request[s])'
  <2>1. To(s, pc).pc = pc /\ To(s, pc).old = r.old
    BY <1>0 DEF To, RequestRow
  <2>2. QED
    BY <1>0, <1>1, <2>1, FreeOfDuty DEF Duties
<1>2. CASE SetSession(s)
  <2> DEFINE t == CHOOSE t \in FreshTokens : TRUE
  <2>1. t \in Tokens
    BY <1>2 DEF SetSession, FreshTokens
  <2>2. \/ \E pc \in {"clear", "sadd"} :
              /\ Become(s, [[request[s] EXCEPT !.t = t] EXCEPT !.pc = pc]) /\ session' = [session EXCEPT ![t] = r.o]
              /\ backend' = "memory" \/ pc = "sadd"
        \/ Become(s, To(s, "failed"))
    BY <1>2 DEF SetSession, Command, Refused, SetEx, MemoryCreate
  <2> HIDE DEF t
  <2>3. ASSUME NEW pc \in {"clear", "sadd"}, Become(s, [[request[s] EXCEPT !.t = t] EXCEPT !.pc = pc]),
               session' = [session EXCEPT ![t] = r.o], backend' = "memory" \/ pc = "sadd"
        PROVE  RequestHolds(request[s])'
    <3> DEFINE q == [[request[s] EXCEPT !.t = t] EXCEPT !.pc = pc]
    <3>1. q.pc = pc /\ q.t = t /\ q.o = r.o /\ q.op = r.op /\ q.old = r.old
      BY <1>0 DEF RequestRow
    <3> HIDE DEF q
    <3>2. n = q
      BY <2>3, <3>1, SelfKeeps DEF q, Answers
    <3>3. session'[t] = r.o
      BY <1>0, <2>1, <2>3
    <3> HIDE DEF n
    <3>4. QED
      BY <1>0, <2>3, <3>1, <3>2, <3>3 DEF RequestHolds, n
  <2>4. QED
    BY <1>1, <2>2, <2>3
<1> PICK o, t : o = r.o /\ t = r.t
  OBVIOUS
<1>3. ASSUME NEW pc \in {"ttl", "clear"}, Become(s, To(s, pc)), session'[t] \in {NoOne, r.o},
             backend' = "redis" /\ Sound(o)' => Listed(t, o)'
      PROVE  RequestHolds(request[s])'
  <2>1. To(s, pc).pc = pc /\ To(s, pc).t = r.t /\ To(s, pc).o = r.o /\ To(s, pc).op = r.op /\ To(s, pc).old = r.old
    BY <1>0 DEF To, RequestRow
  <2>2. n = To(s, pc)
    BY <1>3, <2>1, SelfKeeps DEF Answers
  <2>3. n.pc = pc /\ n.t = r.t /\ n.o = r.o /\ n.op = r.op /\ n.old = r.old
    BY <2>1, <2>2
  <2> HIDE DEF n
  <2>4. QED
    BY <1>0, <1>3, <2>3 DEF RequestHolds, n
<1>4. CASE IndexSession(s)
  <2>1. /\ r.pc = "sadd" /\ r.t \in Tokens /\ session[r.t] \in {NoOne, r.o}
    BY <1>0, <1>4 DEF IndexSession, At, Fits, RequestHolds
  <2>2. session' = session
    BY <1>4 DEF IndexSession, Command, Refused, SAdd, sessionVars
  <2>3. \/ SAdd(r.o, r.t) /\ Become(s, To(s, "ttl"))
        \/ MayFail /\ r.o \in Admins /\ (Become(s, To(s, "ttl")) \/ Become(s, To(s, "clear")))
        \/ Become(s, To(s, "failed")) \/ Become(s, To(s, "undo"))
    BY <1>4 DEF IndexSession, Command, Refused
  <2>4. CASE SAdd(r.o, r.t) /\ Become(s, To(s, "ttl"))
    <3>1. t \in index'[o]
      BY <1>0, <2>1, <2>4 DEF SAdd
    <3>2. Listed(t, o)'
      BY <2>1, <2>2, <3>1 DEF Listed, Gone
    <3>3. QED
      BY <1>3, <2>1, <2>2, <2>4, <3>2
  <2>5. CASE MayFail /\ r.o \in Admins /\ (Become(s, To(s, "ttl")) \/ Become(s, To(s, "clear")))
    <3>1. ~Sound(o)'
      BY <1>0, <2>5, FaultsGrow, OwnersAssumption DEF Sound
    <3>2. QED
      BY <1>3, <2>1, <2>2, <2>5, <3>1
  <2>6. QED
    BY <1>1, <2>3, <2>4, <2>5
<1>5. CASE TimeIndex(s)
  <2>1. r.pc = "ttl" /\ r.t \in Tokens /\ Become(s, To(s, "clear"))
    BY <1>0, <1>5 DEF TimeIndex, Command, At, Fits
  <2>2. /\ backend' = backend /\ session'[t] \in {session[r.t], NoOne}
        /\ backend = "redis" /\ Sound(o) /\ Listed(t, o) => Listed(t, o)'
    BY <1>0, <2>1, RequestsStore, TokensStep DEF Held
  <2>3. Sound(o)' => Sound(o)
    BY <1>0, FaultsGrow
  <2>4. session[r.t] \in {NoOne, r.o} /\ (backend = "redis" /\ Sound(o) => Listed(t, o))
    BY <1>0, <2>1 DEF RequestHolds
  <2>5. QED
    BY <1>3, <2>1, <2>2, <2>3, <2>4
<1>6. QED
  BY <1>2, <1>4, <1>5

\* The logout.
LEMMA LogoutDuties ==
    ASSUME TypeInv, SessionsInv, NEW s \in Requests, RemoveSession(s) PROVE RequestHolds(request[s])'
<1> DEFINE r == request[s]
           n == request'[s]
<1>0. /\ r \in RequestRow /\ r.pc = "del" /\ r.op = "logout" /\ r.t \in Tokens /\ r.old \subseteq told'
      /\ session \in [Tokens -> Owners \cup {NoOne}]
  <2>1. RequestStep(s) /\ r.pc = "del"
    BY DEF RequestStep, RemoveSession, At
  <2>2. QED
    BY <2>1, ToldGrows DEF TypeInv, RequestsFit, AccountsTypeOK, SessionsTypeOK, SessionsInv, Fits, RequestHolds
<1>1. CASE Become(s, To(s, "ok"))
  <2>1. To(s, "ok").pc = "ok" /\ To(s, "ok").old = r.old /\ To(s, "ok").op = r.op
    BY <1>0 DEF To, RequestRow
  <2>2. QED
    BY <1>0, <1>1, <2>1, FreeOfDuty DEF Duties
<1>2. CASE Become(s, To(s, "srem")) /\ DelSession(r.t)
  <2>1. To(s, "srem").pc = "srem" /\ To(s, "srem").t = r.t /\ To(s, "srem").old = r.old /\ To(s, "srem").op = r.op
    BY <1>0 DEF To, RequestRow
  <2>2. n = To(s, "srem")
    BY <1>2, <2>1, SelfKeeps DEF Answers
  <2>3. session'[r.t] = NoOne
    BY <1>0, <1>2 DEF DelSession
  <2>4. n.pc = "srem" /\ n.t = r.t /\ n.op = r.op /\ n.old = r.old
    BY <2>1, <2>2
  <2> HIDE DEF n
  <2>5. QED
    BY <1>0, <2>3, <2>4 DEF RequestHolds, n
<1>3. QED
  BY <1>1, <1>2 DEF RemoveSession, Command

\* The password change writes, the revocation reads the index.
LEMMA ChangeDuties ==
    ASSUME TypeInv, SessionsInv, NEW s \in Requests, ConfirmPasswordReset(s) \/ UpdateAdmin(s) \/ ReadBack(s)
    PROVE  RequestHolds(request[s])'
<1> DEFINE r == request[s]
           n == request'[s]
<1>0. /\ r \in RequestRow /\ Fits(r) /\ RequestHolds(r) /\ r.old \subseteq told'
      /\ session \in [Tokens -> Owners \cup {NoOne}] /\ told \subseteq told' /\ told \subseteq Tokens
      /\ RequestStep(s) /\ UNCHANGED sessionVars
      /\ backend = "redis" => \A t \in told : session[t] # NoOne /\ Sound(session[t]) => Listed(t, session[t])
      /\ \A o : Sound(o)' => Sound(o)
  <2>1. RequestStep(s)
    BY DEF RequestStep
  <2>2. UNCHANGED sessionVars
    BY DEF ConfirmPasswordReset, UpdateAdmin, ReadBack, SameStore
  <2>3. QED
    BY <2>1, <2>2, ToldGrows, FaultsGrow
       DEF TypeInv, RequestsFit, AccountsTypeOK, SessionsTypeOK, SessionsInv, RequestHolds, ToldListed
<1>1. ASSUME NEW o, NEW old \in SUBSET told, n.pc \in {"readback", "revoke"}, n.o = o, n.old = old,
             \A t \in old : /\ backend = "redis" /\ Sound(o) => Listed(t, o)
                            /\ backend = "memory" => session[t] \in {NoOne, o}
      PROVE  RequestHolds(request[s])'
  <2>1. \A t \in old : /\ backend' = "redis" /\ Sound(o)' => Listed(t, o)'
                       /\ backend' = "memory" => session'[t] \in {NoOne, o}
    <3>1. UNCHANGED <<backend, session, index, unlisted>>
      BY <1>0 DEF sessionVars
    <3>2. Sound(o)' => Sound(o)
      BY <1>0
    <3>3. QED
      BY <1>1, <3>1, <3>2 DEF Listed, Gone
  <2>2. n.pc \in {"readback", "revoke"} /\ n.o = o /\ n.old = old
    BY <1>1
  <2> HIDE DEF n
  <2>3. QED
    BY <1>0, <2>1, <2>2 DEF RequestHolds, n
<1>2. ASSUME NEW o PROVE \A t \in told \cap SessionsOf(o) : /\ backend = "redis" /\ Sound(o) => Listed(t, o)
                                                            /\ backend = "memory" => session[t] \in {NoOne, o}
  BY <1>0 DEF SessionsOf, Listed, Gone
<1>3. CASE ConfirmPasswordReset(s)
  <2>1. PICK c \in grants, pw \in NewPasswords :
          LET o == challenge[c].subject
              q == [Idle EXCEPT !.op = "reset", !.o = o, !.c = c, !.pw = pw, !.old = told \cap SessionsOf(o)]
          IN \/ Become(s, [Idle EXCEPT !.op = "reset", !.pc = "failed"])
             \/ request' = Outdate(o, s, [q EXCEPT !.pc = "revoke"])
             \/ request' = Outdate(o, s, [q EXCEPT !.pc = "failed"])
             \/ Become(s, [q EXCEPT !.pc = "failed"])
    BY <1>3 DEF ConfirmPasswordReset
  <2> DEFINE v == challenge[c].subject
             old == told \cap SessionsOf(v)
             q == [Idle EXCEPT !.op = "reset", !.o = v, !.c = c, !.pw = pw, !.old = old]
             no == [Idle EXCEPT !.op = "reset", !.pc = "failed"]
             go == [q EXCEPT !.pc = "revoke"]
             stop == [q EXCEPT !.pc = "failed"]
  <2>2. \/ Become(s, no) \/ Become(s, stop) \/ request' = Outdate(v, s, stop)
        \/ request' = Outdate(v, s, go)
    BY <2>1
  <2>3. /\ no.pc = "failed" /\ no.old = {} /\ stop.pc = "failed" /\ stop.old = old
        /\ go.pc = "revoke" /\ go.old = old /\ go.o = v
    BY DEF Idle
  <2>4. old \subseteq told /\ \A t \in old : /\ backend = "redis" /\ Sound(v) => Listed(t, v)
                                             /\ backend = "memory" => session[t] \in {NoOne, v}
    BY <1>2
  <2> HIDE DEF no, go, stop, q, old, v
  <2>5. CASE request' = Outdate(v, s, go)
    <3>1. n = go
      BY <2>3, <2>5, SelfKeeps DEF Answers
    <3> PICK o, l : o = v /\ l = old
      OBVIOUS
    <3>2. QED
      BY <1>1, <2>3, <2>4, <3>1
  <2>6. CASE Become(s, no) \/ Become(s, stop) \/ request' = Outdate(v, s, stop)
    BY <1>0, <2>3, <2>4, <2>6, FreeOfDuty DEF Duties
  <2>7. QED
    BY <2>2, <2>5, <2>6
<1>4. CASE UpdateAdmin(s)
  <2> DEFINE old == told \cap SessionsOf(r.o)
             q == [To(s, "readback") EXCEPT !.old = old]
             f == To(s, "failed")
  <2>1. request' = Outdate(r.o, s, q) \/ request' = Outdate(r.o, s, f) \/ Become(s, f)
    BY <1>4 DEF UpdateAdmin
  <2>2. q.pc = "readback" /\ q.o = r.o /\ q.old = old /\ f.pc = "failed" /\ f.old = r.old
    BY <1>0 DEF To, RequestRow
  <2>6. CASE request' = Outdate(r.o, s, f) \/ Become(s, f)
    BY <1>0, <2>2, <2>6, FreeOfDuty DEF Duties
  <2> SUFFICES ASSUME request' = Outdate(r.o, s, q) PROVE RequestHolds(request[s])'
    BY <2>1, <2>6
  <2>3. n = q
    BY <2>2, SelfKeeps DEF Answers
  <2> PICK o, l : o = r.o /\ l = old
    OBVIOUS
  <2>4. l \subseteq told /\ \A t \in l : /\ backend = "redis" /\ Sound(o) => Listed(t, o)
                                         /\ backend = "memory" => session[t] \in {NoOne, o}
    BY <1>2
  <2> HIDE DEF q, old
  <2>5. QED
    BY <1>1, <2>2, <2>3, <2>4
<1>5. CASE ReadBack(s)
  <2>1. r.pc = "readback" /\ \E pc \in {"revoke", "failed"} : Become(s, To(s, pc))
    BY <1>5 DEF ReadBack, At
  <2>2. ASSUME NEW pc PROVE To(s, pc).pc = pc /\ To(s, pc).o = r.o /\ To(s, pc).old = r.old
    BY <1>0 DEF To, RequestRow
  <2>3. CASE Become(s, To(s, "failed"))
    BY <1>0, <2>2, <2>3, FreeOfDuty DEF Duties
  <2>4. CASE Become(s, To(s, "revoke"))
    <3>1. n = To(s, "revoke")
      BY <2>2, <2>4, SelfKeeps DEF Answers
    <3> PICK o, l : o = r.o /\ l = r.old
      OBVIOUS
    <3>2. l \subseteq told /\ \A t \in l : /\ backend = "redis" /\ Sound(o) => Listed(t, o)
                                           /\ backend = "memory" => session[t] \in {NoOne, o}
      BY <1>0, <2>1 DEF RequestHolds
    <3>3. n.pc = "revoke" /\ n.o = o /\ n.old = l
      BY <2>2, <3>1
    <3>4. QED
      BY <1>1, <3>2, <3>3
  <2>5. QED
    BY <2>1, <2>3, <2>4
<1>6. QED
  BY <1>3, <1>4, <1>5

\* The revocation deletes what it read, then the index.
LEMMA RevocationDuties ==
    ASSUME TypeInv, SessionsInv, NEW s \in Requests, ReadIndex(s) \/ RemoveListed(s) \/ RemoveIndex(s)
    PROVE  RequestHolds(request[s])'
<1> DEFINE r == request[s]
           n == request'[s]
<1> PICK o, old : o = r.o /\ old = r.old
  OBVIOUS
<1>0. /\ r \in RequestRow /\ RequestHolds(r) /\ old \subseteq told /\ old \subseteq told' /\ o \in Owners
      /\ session \in [Tokens -> Owners \cup {NoOne}] /\ index \in [Owners -> SUBSET Tokens] /\ told \subseteq Tokens
      /\ backend \in {"memory", "redis"} /\ backend' = backend
      /\ \A v : Sound(v)' => Sound(v)
      /\ \A t \in old : Gone(t) => Gone(t)'
  <2>1. RequestStep(s) /\ r.pc \in {"revoke", "each", "drop"}
    BY DEF RequestStep, ReadIndex, RemoveListed, RemoveIndex, At
  <2>2. /\ r \in RequestRow /\ RequestHolds(r) /\ old \subseteq told /\ told \subseteq Tokens /\ Fits(r)
        /\ session \in [Tokens -> Owners \cup {NoOne}] /\ index \in [Owners -> SUBSET Tokens]
        /\ backend \in {"memory", "redis"}
    BY DEF TypeInv, RequestsFit, AccountsTypeOK, SessionsTypeOK, SessionsInv, RequestHolds
  <2>3. backend' = backend /\ \A t \in old : Gone(t) => Gone(t)'
    <3>1. StoreChanges
      BY <2>1, RequestsStore
    <3>2. backend' = backend
      BY <3>1 DEF StoreChanges, sessionVars, SetEx, MemoryCreate, SAdd, SRem, GetEx, DelSession, ExpireIndex, MemoryRemoveAll,
         DropIndex
    <3>3. QED
      BY <2>2, <3>1, <3>2, TokensStep DEF Held
  <2>4. o \in Owners
    BY <2>1, <2>2 DEF Fits, Runs, Answers
  <2>5. QED
    BY <2>1, <2>2, <2>3, <2>4, ToldGrows, FaultsGrow
<1>1. ASSUME Become(s, To(s, "ok")), Sound(o) => \A t \in old : Gone(t)' PROVE RequestHolds(request[s])'
  <2>1. To(s, "ok").pc = "ok" /\ To(s, "ok").o = o /\ To(s, "ok").old = old
    BY <1>0 DEF To, RequestRow
  <2>2. n.pc = "ok" /\ n.o = o /\ n.old = old
    BY <1>1, <2>1, SelfKeeps
  <2> HIDE DEF n
  <2>3. QED
    BY <1>0, <1>1, <2>2 DEF RequestHolds, n
<1>7. ASSUME Become(s, To(s, "unrevoked")) PROVE RequestHolds(request[s])'
  <2>1. To(s, "unrevoked").pc = "unrevoked" /\ To(s, "unrevoked").old = old
    BY <1>0 DEF To, RequestRow
  <2>2. QED
    BY <1>0, <1>7, <2>1, FreeOfDuty DEF Duties
<1>2. ASSUME NEW pc \in {"each", "drop"}, NEW l, Become(s, [To(s, pc) EXCEPT !.list = l]), backend = "redis",
             Sound(o) => \A t \in old : Gone(t)' \/ (pc = "each" /\ t \in l)
      PROVE  RequestHolds(request[s])'
  <2> DEFINE q == [To(s, pc) EXCEPT !.list = l]
  <2>1. q.pc = pc /\ q.o = o /\ q.old = old /\ q.list = l /\ q.op = r.op /\ q.t = r.t
    BY <1>0 DEF To, RequestRow
  <2>2. n = q
    BY <1>2, <2>1, SelfKeeps DEF Answers
  <2>3. n.pc = pc /\ n.o = o /\ n.old = old /\ n.list = l
    BY <2>1, <2>2
  <2>4. backend' = "redis" /\ (Sound(o)' => \A t \in old : Gone(t)' \/ (pc = "each" /\ t \in l))
    BY <1>0, <1>2
  <2> HIDE DEF n, q
  <2>5. QED
    BY <1>0, <2>3, <2>4 DEF RequestHolds, n
<1>3. CASE ReadIndex(s)
  <2>1. r.pc = "revoke"
    BY <1>3 DEF ReadIndex, At
  <2>2. CASE backend = "memory"
    <3>1. MemoryRemoveAll(r.o) /\ Become(s, To(s, "ok"))
      BY <1>3, <2>2 DEF ReadIndex
    <3>2. \A t \in old : session[t] \in {NoOne, o} /\ t \in Tokens
      BY <1>0, <2>1, <2>2 DEF RequestHolds
    <3>3. \A t \in old : Gone(t)'
      BY <3>1, <3>2 DEF MemoryRemoveAll, Gone
    <3>4. QED
      BY <1>1, <3>1, <3>3
  <2>3. CASE backend = "redis"
    <3>1. \/ Become(s, To(s, "unrevoked"))
          \/ /\ UNCHANGED sessionVars
             /\ Become(s, [To(s, IF index[o] = {} THEN "drop" ELSE "each") EXCEPT !.list = index[o]])
      BY <1>3, <2>3 DEF ReadIndex, Command
    <3>2. CASE Become(s, To(s, "unrevoked"))
      BY <1>7, <3>2
    <3>3. CASE /\ UNCHANGED sessionVars
               /\ Become(s, [To(s, IF index[o] = {} THEN "drop" ELSE "each") EXCEPT !.list = index[o]])
      <4> DEFINE pc == IF index[o] = {} THEN "drop" ELSE "each"
      <4>1. Sound(o) => \A t \in old : Gone(t) \/ t \in index[o]
        BY <1>0, <2>1, <2>3 DEF RequestHolds, Listed
      <4>2. Sound(o) => \A t \in old : Gone(t)' \/ (pc = "each" /\ t \in index[o])
        BY <1>0, <4>1
      <4>3. pc \in {"each", "drop"} /\ Become(s, [To(s, pc) EXCEPT !.list = index[o]])
        BY <3>3
      <4> HIDE DEF pc
      <4> PICK p, l : p = pc /\ l = index[o]
        OBVIOUS
      <4>4. QED
        BY <1>2, <2>3, <4>2, <4>3
    <3>4. QED
      BY <3>1, <3>2, <3>3
  <2>4. QED
    BY <1>0, <2>2, <2>3
<1>4. CASE RemoveListed(s)
  <2>1. r.pc = "each" /\ backend = "redis"
    BY <1>0, <1>4 DEF RemoveListed, At, RequestHolds
  <2>2. PICK f \in r.list :
          LET rest == r.list \ {f}
          IN \/ Become(s, To(s, "unrevoked"))
             \/ DelSession(f) /\ Become(s, [To(s, IF rest = {} THEN "drop" ELSE "each") EXCEPT !.list = rest])
    BY <1>4 DEF RemoveListed, Command
  <2>3. CASE Become(s, To(s, "unrevoked"))
    BY <1>7, <2>3
  <2>4. CASE LET rest == r.list \ {f}
             IN DelSession(f) /\ Become(s, [To(s, IF rest = {} THEN "drop" ELSE "each") EXCEPT !.list = rest])
    <3> DEFINE rest == r.list \ {f}
               pc == IF rest = {} THEN "drop" ELSE "each"
    <3>1. Sound(o) => \A t \in old : Gone(t) \/ t \in r.list
      BY <1>0, <2>1 DEF RequestHolds
    <3>2. f \in Tokens /\ DelSession(f)
      BY <1>0, <2>4 DEF RequestRow
    <3>3. Gone(f)'
      BY <1>0, <3>2 DEF DelSession, Gone
    <3>4. Sound(o) => \A t \in old : Gone(t)' \/ (pc = "each" /\ t \in rest)
      <4> SUFFICES ASSUME Sound(o), NEW t \in old, t # f, ~Gone(t)' PROVE pc = "each" /\ t \in rest
        BY <3>3
      <4>1. t \in rest
        BY <1>0, <3>1
      <4>2. QED
        BY <4>1
    <3>5. pc \in {"each", "drop"} /\ Become(s, [To(s, pc) EXCEPT !.list = rest])
      BY <2>4
    <3> HIDE DEF pc, rest
    <3> PICK p, l : p = pc /\ l = rest
      OBVIOUS
    <3>6. QED
      BY <1>2, <2>1, <3>4, <3>5
  <2>5. QED
    BY <2>2, <2>3, <2>4
<1>5. CASE RemoveIndex(s)
  <2>1. r.pc = "drop" /\ backend = "redis" /\ Become(s, To(s, "ok"))
    BY <1>0, <1>5 DEF RemoveIndex, Command, At, RequestHolds
  <2>2. Sound(o) => \A t \in old : Gone(t)'
    BY <1>0, <2>1 DEF RequestHolds
  <2>3. QED
    BY <1>1, <2>1, <2>2
<1>6. QED
  BY <1>3, <1>4, <1>5

\* The step of a request keeps what it relies on.
LEMMA OwnDuties ==
    ASSUME TypeInv, SessionsInv, NEW s \in Requests, RequestStep(s) \/ MutateReminder(s)
    PROVE  RequestHolds(request[s])'
<1>1. request[s].old \subseteq told
  BY DEF SessionsInv, RequestHolds
<1>2. CASE SetSession(s) \/ IndexSession(s) \/ TimeIndex(s)
  BY <1>2, CreationDuties
<1>3. CASE RemoveSession(s)
  BY <1>3, LogoutDuties
<1>4. CASE ConfirmPasswordReset(s) \/ UpdateAdmin(s) \/ ReadBack(s)
  BY <1>4, ChangeDuties
<1>5. CASE ReadIndex(s) \/ RemoveListed(s) \/ RemoveIndex(s)
  BY <1>5, RevocationDuties
<1>6. CASE /\ ~(SetSession(s) \/ IndexSession(s) \/ TimeIndex(s) \/ RemoveSession(s))
           /\ ~(ConfirmPasswordReset(s) \/ UpdateAdmin(s) \/ ReadBack(s))
           /\ ~(ReadIndex(s) \/ RemoveListed(s) \/ RemoveIndex(s))
  <2>1. \/ PlainStep(s) \/ ReadSession(s) \/ InsertCode(s) \/ Resolve(s) \/ Renew(s) \/ Login(s) \/ ReadRow(s)
        \/ Reauthenticate(s) \/ RequestCode(s) \/ VerifyCode(s) \/ Register(s)
    BY <1>6 DEF RequestStep, PlainStep
  <2>2. QED
    BY <1>1, <1>6, <2>1, IdleDuties
<1>7. QED
  BY <1>2, <1>3, <1>4, <1>5, <1>6

\* What a request relies on survives the steps of everyone else.
LEMMA OthersDuties ==
    ASSUME TypeInv, SessionsInv, StoreChanges, NEW p \in Requests,
           told \subseteq told', \A o : Sound(o)' => Sound(o),
           request'[p] = [request[p] EXCEPT !.stale = request'[p].stale]
    PROVE  RequestHolds(request[p])'
<1> PICK pc, op, o, t, old, list :
      /\ pc = request[p].pc /\ op = request[p].op /\ o = request[p].o /\ t = request[p].t
      /\ old = request[p].old /\ list = request[p].list
  OBVIOUS
<1> DEFINE n == request'[p]
<1>1. /\ request[p] \in RequestRow /\ Fits(request[p]) /\ RequestHolds(request[p])
      /\ told \subseteq Tokens /\ backend \in {"memory", "redis"}
  BY DEF TypeInv, RequestsFit, AccountsTypeOK, SessionsTypeOK, SessionsInv
<1>2. n.pc = pc /\ n.op = op /\ n.o = o /\ n.t = t /\ n.old = old /\ n.list = list
  BY <1>1 DEF RequestRow
<1>3. /\ Runs(pc) => o \in Owners
      /\ pc \in {"sadd", "ttl", "clear", "srem"} => t \in Tokens
  BY <1>1 DEF Fits
<1>4. \A x \in Tokens : Held(x) =>
        /\ backend' = backend /\ session'[x] \in {session[x], NoOne} /\ (Gone(x) => Gone(x)')
        /\ \A v \in Owners : backend = "redis" /\ Sound(v) /\ Listed(x, v) => Listed(x, v)'
  BY TokensStep
<1>5. old \subseteq Tokens /\ (\A x \in old : Held(x)) /\ (t \in Tokens => Held(t)) /\ old \subseteq told'
  BY <1>1 DEF RequestHolds, Held
<1>6. backend' = backend
  BY StoreBackend
<1>7. pc \in {"each", "drop"} => backend' = "redis"
  BY <1>1, <1>6 DEF RequestHolds
<1>8. pc \in {"sadd", "ttl", "clear"} /\ op # "contact" => session'[t] \in {NoOne, o}
  BY <1>1, <1>3, <1>4, <1>5 DEF RequestHolds
<1>9. backend' = "redis" /\ pc = "srem" => session'[t] = NoOne
  BY <1>1, <1>3, <1>4, <1>5, <1>6 DEF RequestHolds
<1>10. backend' = "redis" /\ Sound(o)' =>
          /\ pc \in {"ttl", "clear"} /\ op # "contact" => Listed(t, o)'
          /\ pc \in {"readback", "revoke"} => \A x \in old : Listed(x, o)'
          /\ pc = "each" => \A x \in old : Gone(x)' \/ x \in list
          /\ pc = "drop" => \A x \in old : Gone(x)'
  <2> SUFFICES ASSUME backend' = "redis", Sound(o)'
               PROVE  /\ pc \in {"ttl", "clear"} /\ op # "contact" => Listed(t, o)'
                      /\ pc \in {"readback", "revoke"} => \A x \in old : Listed(x, o)'
                      /\ pc = "each" => \A x \in old : Gone(x)' \/ x \in list
                      /\ pc = "drop" => \A x \in old : Gone(x)'
    OBVIOUS
  <2>1. backend = "redis" /\ Sound(o)
    BY <1>6
  <2>2. /\ pc \in {"ttl", "clear"} /\ op # "contact" => Listed(t, o)
        /\ pc \in {"readback", "revoke"} => \A x \in old : Listed(x, o)
        /\ pc = "each" => \A x \in old : Gone(x) \/ x \in list
        /\ pc = "drop" => \A x \in old : Gone(x)
    BY <1>1, <2>1 DEF RequestHolds
  <2>3. pc \in {"ttl", "clear", "readback", "revoke"} => o \in Owners
    BY <1>3 DEF Runs, Answers
  <2>4. QED
    BY <1>3, <1>4, <1>5, <2>1, <2>2, <2>3
<1>11. backend' = "memory" /\ pc \in {"readback", "revoke"} => \A x \in old : session'[x] \in {NoOne, o}
  BY <1>1, <1>4, <1>5, <1>6 DEF RequestHolds
<1>12. op \in {"reset", "change"} /\ pc = "ok" /\ Sound(o)' => \A x \in old : Gone(x)'
  BY <1>1, <1>4, <1>5 DEF RequestHolds
<1> HIDE DEF n
<1>13. QED
  BY <1>2, <1>5, <1>7, <1>8, <1>9, <1>10, <1>11, <1>12 DEF RequestHolds, n

\* A token is told by the request that created its session.
LEMMA ToldStep ==
    ASSUME TypeInv, TypeInv', SessionsInv, StoreChanges, \A o : Sound(o)' => Sound(o),
           \/ told' = told
           \/ \E s \in Requests : Finish(s) /\ request[s].op # "contact" /\ told' = told \cup {request[s].t}
    PROVE  ToldListed'
<1>1. backend' = backend
  BY StoreBackend
<1>2. /\ told \subseteq Tokens /\ told' \subseteq Tokens /\ session \in [Tokens -> Owners \cup {NoOne}]
      /\ session' \in [Tokens -> Owners \cup {NoOne}]
  BY DEF TypeInv, AccountsTypeOK, SessionsTypeOK
<1>3. ASSUME NEW t \in told', NEW v \in Owners, session'[t] = v, backend = "redis", Sound(v)' PROVE Listed(t, v)'
  <2>1. Sound(v) /\ t \in Tokens /\ v # NoOne
    BY <1>2, <1>3, OwnersAssumption
  <2>2. CASE t \in told
    <3>1. Held(t)
      BY <2>2 DEF Held
    <3>2. session[t] = v
      BY <1>3, <2>1, <3>1, TokensStep
    <3>3. Listed(t, v)
      BY <1>3, <2>1, <2>2, <3>2 DEF SessionsInv, ToldListed
    <3>4. QED
      BY <1>3, <2>1, <3>1, <3>3, TokensStep
  <2>3. CASE t \notin told
    <3>1. PICK s \in Requests : Finish(s) /\ request[s].op # "contact" /\ t = request[s].t
      BY <1>3, <2>3
    <3>2. Held(t) /\ request[s].pc = "clear" /\ RequestHolds(request[s])
      BY <3>1 DEF Held, Finish, At, SessionsInv
    <3>3. session[t] = v
      BY <1>3, <2>1, <3>2, TokensStep
    <3>4. request[s].o = v /\ Listed(t, v)
      BY <1>3, <2>1, <3>1, <3>2, <3>3 DEF RequestHolds
    <3>5. QED
      BY <1>3, <2>1, <3>2, <3>4, TokensStep
  <2>4. QED
    BY <2>2, <2>3
<1>4. ASSUME NEW t \in told', backend' = "redis", session'[t] # NoOne, Sound(session[t])' PROVE Listed(t, session[t])'
  <2> PICK v : v = session'[t]
    OBVIOUS
  <2>1. v \in Owners /\ backend = "redis" /\ Sound(v)'
    BY <1>1, <1>2, <1>4 DEF Sound
  <2>2. Listed(t, v)'
    BY <1>3, <2>1
  <2>3. QED
    BY <2>2 DEF Listed, Gone
<1>5. QED
  BY <1>4 DEF ToldListed

LEMMA SessionsStep == TypeInv /\ SessionsInv /\ [Next]_vars => SessionsInv'
<1> SUFFICES ASSUME TypeInv, SessionsInv, [Next]_vars PROVE SessionsInv'
  OBVIOUS
<1>0. StoreChanges /\ TypeInv'
  BY StepParts, TypesKept
<1>1. CASE \E s \in Requests : RequestStep(s) \/ MutateReminder(s)
  <2>1. PICK s \in Requests : RequestStep(s) \/ MutateReminder(s)
    BY <1>1
  <2>2. /\ told \subseteq told'
        /\ told' # told => Finish(s) /\ request[s].op # "contact" /\ told' = told \cup {request[s].t}
    BY <2>1, ToldGrows
  <2>3. \A o : Sound(o)' => Sound(o)
    BY <2>1, FaultsGrow
  <2>4. ToldListed'
    BY <1>0, <2>2, <2>3, ToldStep
  <2>5. ASSUME NEW p \in Requests PROVE RequestHolds(request[p])'
    <3>1. CASE p = s
      BY <2>1, <3>1, OwnDuties
    <3>2. CASE p # s
      BY <1>0, <2>1, <2>2, <2>3, <3>2, OthersWait, OthersDuties
    <3>3. QED
      BY <3>1, <3>2
  <2>6. QED
    BY <2>4, <2>5 DEF SessionsInv
<1>2. CASE UNCHANGED <<told, request, faults>>
  <2>1. \A o : Sound(o)' => Sound(o)
    BY <1>2 DEF Sound
  <2>2. ToldListed'
    BY <1>0, <1>2, <2>1, ToldStep
  <2>3. ASSUME NEW p \in Requests PROVE RequestHolds(request[p])'
    <3>1. request'[p] = [request[p] EXCEPT !.stale = request'[p].stale]
      BY <1>2 DEF TypeInv, RequestsFit, RequestRow
    <3>2. QED
      BY <1>0, <1>2, <2>1, <3>1, OthersDuties
  <2>4. QED
    BY <2>2, <2>3 DEF SessionsInv
<1>3. CASE UNCHANGED vars
  BY <1>2, <1>3 DEF vars, accountVars
<1>4. CASE TimePasses
  <2>1. Others
    BY <1>4 DEF TimePasses
  <2>2. QED
    BY <1>2, <2>1 DEF Others, accountVars
<1>5. CASE UNCHANGED <<sessionVars, challengeVars, accountVars, request, faults>>
  BY <1>2, <1>5 DEF accountVars
<1>6. QED
  BY <1>1, <1>3, <1>4, <1>5 DEF Next

LEMMA SessionsInitially == Init => SessionsInv
<1> SUFFICES ASSUME NEW seed \in Seeds, InitWith(seed) PROVE SessionsInv
  BY DEF Init
<1>1. ToldListed
  <2>1. session \in [Tokens -> Owners \cup {NoOne}]
    BY SeedsAssumption DEF InitWith
  <2>2. /\ told = {t \in Tokens : session[t] # NoOne}
        /\ backend = "redis" => index = [o \in Owners |-> SessionsOf(o)]
    BY DEF InitWith
  <2>3. ASSUME backend = "redis", NEW t \in told PROVE t \in index[session[t]]
    BY <2>1, <2>2, <2>3 DEF SessionsOf
  <2>4. QED
    BY <2>3 DEF ToldListed, Listed
<1>2. ASSUME NEW s \in Requests PROVE RequestHolds(request[s])
  <2>1. request[s].pc \in {"idle", "ok"} /\ request[s].op = "none" /\ request[s].old = {}
    BY DEF InitWith, Idle
  <2>2. QED
    BY <2>1 DEF RequestHolds
<1>3. QED
  BY <1>1, <1>2 DEF SessionsInv

LEMMA SessionsAlways == Spec => [](TypeInv /\ SessionsInv)
  BY TypesInitially, TypesKept, SessionsInitially, SessionsStep, PTL DEF Spec

\* Every session a user's client has been told is in the index of its user,
\* whatever Redis commands fail, and an administrator's too without failures.
THEOREM SessionsAreIndexed == Spec => []SessionsIndexed
<1>1. TypeInv /\ SessionsInv => SessionsIndexed
  BY OwnersAssumption DEF TypeInv, AccountsTypeOK, SessionsTypeOK, SessionsInv, ToldListed, SessionsIndexed, Sound,
     Listed, Gone, Owners
<1>2. QED
  BY <1>1, SessionsAlways, PTL

\* A reset or a change whose revocation was carried through leaves none of the
\* sessions that were open when the password was written and were still
\* listed: a user's whatever fails elsewhere, an administrator's as long as no
\* command has failed.
THEOREM RevocationsAreComplete == Spec => []RevocationComplete
<1>1. SessionsInv => RevocationComplete
  BY DEF SessionsInv, RequestHolds, RevocationComplete, Gone, Sound
<1>2. QED
  BY <1>1, SessionsAlways, PTL
=============================================================================
