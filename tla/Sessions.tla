------------------------------ MODULE Sessions ------------------------------
(* Login sessions of users and administrators behind ISessionManager: the   *)
(* in-memory SessionManager (one mutex, every operation atomic) and the      *)
(* RedisSessionManager, whose operations are several commands.  This module  *)
(* holds the store and its single commands; Accounts gives their order.      *)
EXTENDS Naturals, FiniteSets

CONSTANTS Users, Admins, Tokens,  \* accounts and the tokens generateToken may draw
          NoOne                   \* the owner of a token that has no session key

Owners == Users \cup Admins

ASSUME OwnersAssumption == Users \cap Admins = {} /\ NoOne \notin Owners

VARIABLES backend,     \* "memory" or "redis", from the configuration
          session,     \* owner of the key session:<token>, NoOne when there is no key
          restricted,  \* tokens stored with mustChangePassword
          index,       \* tokens in the set sessions:user:<id> / admin_sessions:<name>
          late,        \* sessions renewed after the last EXPIRE of their index key
          timed,       \* owners whose index key carries a time to live
          unlisted     \* history: sessions that lost their index entry while alive

sessionVars == <<backend, session, restricted, index, late, timed, unlisted>>

SessionsTypeOK ==
    /\ backend \in {"memory", "redis"}
    /\ session \in [Tokens -> Owners \cup {NoOne}]
    /\ index \in [Owners -> SUBSET Tokens] /\ late \in [Owners -> SUBSET Tokens]
    /\ restricted \subseteq Tokens /\ unlisted \subseteq Tokens /\ timed \subseteq Owners

SessionsOf(o) == {t \in Tokens : session[t] = o}

(* SETEX session:<token>: the key starts a full time to live.                *)
SetEx(t, o, must) ==
    /\ session' = [session EXCEPT ![t] = o]
    /\ restricted' = IF must THEN restricted \cup {t} ELSE restricted
    /\ late' = [late EXCEPT ![o] = @ \cup {t}]
    /\ UNCHANGED <<backend, index, timed, unlisted>>

(* GETEX session:<token> EX ttl: read and renew in one command.              *)
GetEx(t) ==
    /\ late' = IF session[t] = NoOne THEN late ELSE [late EXCEPT ![session[t]] = @ \cup {t}]
    /\ UNCHANGED <<backend, session, restricted, index, timed, unlisted>>

SAdd(o, t) ==
    /\ index' = [index EXCEPT ![o] = @ \cup {t}]
    /\ UNCHANGED <<backend, session, restricted, late, timed, unlisted>>

(* EXPIRE of the index key; nothing happens when there is no such key.       *)
ExpireIndex(o) ==
    /\ timed' = IF index[o] = {} THEN timed ELSE timed \cup {o}
    /\ late' = IF index[o] = {} THEN late ELSE [late EXCEPT ![o] = {}]
    /\ UNCHANGED <<backend, session, restricted, index, unlisted>>

DelSession(t) ==
    /\ session' = [session EXCEPT ![t] = NoOne]
    /\ UNCHANGED <<backend, restricted, index, late, timed, unlisted>>

(* SREM; Redis drops a set that becomes empty, and its time to live with it. *)
SRem(o, t) ==
    /\ index' = [index EXCEPT ![o] = @ \ {t}]
    /\ timed' = IF index[o] \subseteq {t} THEN timed \ {o} ELSE timed
    /\ UNCHANGED <<backend, session, restricted, late, unlisted>>

(* The index key goes: sessions in it that are alive are listed nowhere now. *)
(* Those a revocation has undertaken to end are not counted as an accident.  *)
DropIndex(o, undertaken) ==
    /\ index' = [index EXCEPT ![o] = {}]
    /\ timed' = timed \ {o}
    /\ unlisted' = unlisted \cup ((index[o] \cap SessionsOf(o)) \ undertaken)
    /\ UNCHANGED <<backend, session, restricted, late>>

(* SessionManager: the operations under its mutex.                           *)
MemoryCreate(t, o, must) ==
    /\ session' = [session EXCEPT ![t] = o]
    /\ restricted' = IF must THEN restricted \cup {t} ELSE restricted
    /\ UNCHANGED <<backend, index, late, timed, unlisted>>

MemoryRemoveAll(o) ==
    /\ session' = [t \in Tokens |-> IF session[t] = o THEN NoOne ELSE session[t]]
    /\ UNCHANGED <<backend, restricted, index, late, timed, unlisted>>

(* A session that is not used for its time to live is gone: the key expires, *)
(* resolve or purgeExpired erase the entry.                                  *)
SessionExpires(t) == session[t] # NoOne /\ DelSession(t)

(* The index key expires a full time to live after its last EXPIRE; by then  *)
(* every session that is still alive was renewed later than that.            *)
IndexExpires(o) ==
    /\ o \in timed /\ index[o] # {}
    /\ SessionsOf(o) \subseteq late[o]
    /\ DropIndex(o, {})
=============================================================================
