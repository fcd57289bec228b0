----------------------------- MODULE MCAccounts -----------------------------
(* Instances of Accounts: every seed offers the operations that meet on the  *)
(* same rows and keys, to two users, one of them registered, and one         *)
(* administrator, with three requests.                                       *)
EXTENDS Accounts, TLC

CONSTANTS u1, u2, a1, t1, t2, t3, c1, c2, r1, r2, r3, old, new, password

MCUsers == {u1, u2}
MCAdmins == {a1}
MCOwners == {u1, u2, a1}

Row(pw, legacy) == [pw |-> pw, legacy |-> legacy, status |-> "active", verified |-> TRUE]
Rows(legacy) == (u1 :> Row(old, legacy)) @@ (u2 :> NoRow) @@ (a1 :> Row(password, FALSE))
Granting(purpose, o) == [state |-> "verified", purpose |-> purpose, subject |-> o, attempts |-> 0, recent |-> FALSE]
Sent(purpose, o) == [Granting(purpose, o) EXCEPT !.state = "sent", !.recent = TRUE]
NoChallenges == [c \in Challenge |-> NoChallenge]
OpenSession(o) == [t \in Tokens |-> IF t = t1 THEN o ELSE NoOne]

Seed(rs, store, ops, legacy, rows, open) ==
    [requests |-> rs, backend |-> store, offered |-> ops, account |-> Rows(legacy), challenge |-> rows, session |-> open]
With(seed, o, row) == [seed EXCEPT !.account[o] = row]
Two == {r1, r2}
Grants(purpose, o) == [c \in Challenge |-> Granting(purpose, o)]

MCSeeds ==
    {Seed(Requests, "redis", {"login", "reset"}, l, Grants("PASSWORD_RESET", u1), OpenSession(u1)) : l \in BOOLEAN}
    \cup {Seed(Two, b, {"login", "use", "logout", "reset", "failures", "sessionsExpire"}, FALSE,
               Grants("PASSWORD_RESET", u1), OpenSession(u1)) : b \in {"memory", "redis"}}
    \cup {With(Seed(Two, "redis", {"login", "change", "blacklist", "logout", "failures"}, FALSE, NoChallenges, OpenSession(a1)),
               a1, Row(pw, FALSE)) : pw \in {password, old}}
    \cup {Seed(Requests, "memory", {"login", "locksEnd", "failures"}, TRUE, NoChallenges, OpenSession(NoOne))}
    \cup {Seed(Requests, "memory", {"send", "verify", "register", "failures"}, FALSE, rows, OpenSession(NoOne))
        : rows \in {NoChallenges, [NoChallenges EXCEPT ![c1] = Sent("REGISTER", u2)], Grants("REGISTER", u2)}}
    \cup {Seed(Two, "memory", {"send", "verify", "reset", "codesExpire", "failures"}, FALSE,
               [NoChallenges EXCEPT ![c1] = Sent("PASSWORD_RESET", u1)], OpenSession(NoOne))}
    \cup {Seed(Two, "memory", {"contact", "bind", "reset", "codesExpire", "locksEnd", "failures"}, TRUE,
               [NoChallenges EXCEPT ![c1] = Sent("CONTACT", u1), ![c2] = Granting("PASSWORD_RESET", u1)], OpenSession(u1))}
    \cup {With(Seed(Requests, "memory", {"remind", "unremind"}, FALSE, NoChallenges, OpenSession(u1)),
               u1, [Row(old, FALSE) EXCEPT !.verified = v]) : v \in BOOLEAN}

Symmetry == Permutations(Requests) \cup Permutations(Servers)
=============================================================================
