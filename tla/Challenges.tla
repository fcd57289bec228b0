----------------------------- MODULE Challenges -----------------------------
(* The tables auth_challenges and auth_throttles, one operator per           *)
(* statement of AuthChallengeRepository and AuthSecurityRepository.  An id   *)
(* is drawn at random for every challenge and never used again.              *)
EXTENDS Naturals, FiniteSets

CONSTANTS Challenge,    \* ids of challenges
          Subjects,     \* the telephone numbers and names a throttle or challenge is about
          MaxAttempts,  \* verification.max_attempts
          MaxFailures,  \* auth.max_failures
          Nobody        \* subject of an id that is not in use yet

Purposes == {"REGISTER", "PASSWORD_RESET", "CONTACT"}
Scopes == {"account", "contact_reauth"}

ASSUME ChallengesAssumption ==
    MaxAttempts \in Nat \ {0} /\ MaxFailures \in Nat \ {0} /\ Nobody \notin Subjects /\ IsFiniteSet(Challenge)

VARIABLES challenge,  \* rows: state, purpose, subject, attempts and whether within the cooldown
          throttle,   \* rows: failure_count (0: no row), window still open, locked
          due,        \* history: failures recorded since the last clear, window or lock ended
          wrong,      \* history: wrong codes compared with the row's hash
          spent       \* history: committed consumptions of the row

challengeVars == <<challenge, throttle, due, wrong, spent>>

NoChallenge == [state |-> "none", purpose |-> "CONTACT", subject |-> Nobody, attempts |-> 0, recent |-> FALSE]
NoThrottle == [count |-> 0, window |-> FALSE, locked |-> FALSE]

(* "lapsed": the code or the grant is past its deadline.                     *)
ChallengeStates == {"none", "sent", "verified", "lapsed", "consumed", "deleted"}

ChallengeRow ==
    [state : ChallengeStates, purpose : Purposes, subject : Subjects \cup {Nobody},
     attempts : 0 .. MaxAttempts, recent : BOOLEAN]

ChallengesTypeOK ==
    /\ challenge \in [Challenge -> ChallengeRow]
    /\ throttle \in [Scopes \X Subjects -> [count : Nat, window : BOOLEAN, locked : BOOLEAN]]
    /\ due \in [Scopes \X Subjects -> Nat]
    /\ wrong \in [Challenge -> Nat] /\ spent \in [Challenge -> Nat]

(* canSend: no challenge for this destination within the cooldown.  The      *)
(* daily limit is the same count with a longer period.                       *)
CanSend(purpose, o) ==
    \A c \in Challenge : challenge[c].purpose = purpose /\ challenge[c].subject = o => ~challenge[c].recent

InsertChallenge(c, purpose, o) ==
    challenge' = [challenge EXCEPT ![c] =
        [state |-> "sent", purpose |-> purpose, subject |-> o, attempts |-> 0, recent |-> TRUE]]

RemoveChallenge(c) == challenge' = [challenge EXCEPT ![c].state = "deleted", ![c].recent = FALSE]

ActiveForever(c, purpose) == challenge[c].state = "sent" /\ challenge[c].purpose = purpose

(* lockActive: the row whose code may still be tried.                        *)
Active(c, purpose) ==
    /\ challenge[c].state = "sent" /\ challenge[c].purpose = purpose
    /\ challenge[c].attempts < MaxAttempts

(* A wrong code: recordFailedAttempt under the row lock, then the commit.    *)
FailAttempt(c) ==
    /\ challenge' = [challenge EXCEPT ![c].attempts = @ + 1]
    /\ wrong' = [wrong EXCEPT ![c] = @ + 1]
    /\ UNCHANGED spent

(* A wrong code whose count is lost: the UPDATE failed, or the COMMIT.       *)
LoseAttempt(c) == wrong' = [wrong EXCEPT ![c] = @ + 1] /\ UNCHANGED <<challenge, spent>>

MarkVerified(c) ==
    /\ challenge' = [challenge EXCEPT ![c].state = "verified"]
    /\ UNCHANGED <<wrong, spent>>

GrantedAgain(c, purpose) == challenge[c].state \in {"verified", "consumed"} /\ challenge[c].purpose = purpose

(* lockGrant: the row whose grant may still be redeemed.                     *)
Granted(c, purpose) == challenge[c].state = "verified" /\ challenge[c].purpose = purpose

ConsumeUnmarked(c) == spent' = [spent EXCEPT ![c] = @ + 1] /\ UNCHANGED <<challenge, wrong>>

Consume(c) ==
    /\ challenge' = [challenge EXCEPT ![c].state = "consumed"]
    /\ spent' = [spent EXCEPT ![c] = @ + 1]
    /\ UNCHANGED wrong

Blocked(k) == throttle[k].locked

RecordFailureLate(k) ==
    /\ throttle' = [throttle EXCEPT ![k] = [count |-> @.count + 1, window |-> TRUE, locked |-> @.count >= MaxFailures]]
    /\ due' = [due EXCEPT ![k] = @ + 1]
    /\ UNCHANGED <<challenge, wrong, spent>>

(* INSERT .. ON DUPLICATE KEY UPDATE: the lock, the count and the window are *)
(* all computed from the row as it was.                                      *)
RecordFailure(k) ==
    LET row == throttle[k]
        first == row.count = 0
        reopened == ~first /\ ~row.window
    IN /\ throttle' = [throttle EXCEPT ![k] =
              [count |-> IF first \/ reopened THEN 1 ELSE row.count + 1,
               window |-> TRUE,
               locked |-> ~first /\ (row.locked \/ (~reopened /\ row.count + 1 >= MaxFailures))]]
       /\ due' = [due EXCEPT ![k] = @ + 1]
       /\ UNCHANGED <<challenge, wrong, spent>>

(* A DELETE; the history starts anew.                                        *)
ClearThrottle(k) ==
    /\ throttle' = [throttle EXCEPT ![k] = NoThrottle]
    /\ due' = [due EXCEPT ![k] = 0]
    /\ UNCHANGED <<challenge, wrong, spent>>

(* Deadlines pass: of a code or a grant, of the cooldown, of a window, of a  *)
(* lock.  purgeExpired then deletes rows nothing can use, a day later.       *)
ChallengeLapses(c) ==
    /\ challenge[c].state \in {"sent", "verified"}
    /\ challenge' = [challenge EXCEPT ![c].state = "lapsed"]
    /\ UNCHANGED <<throttle, due, wrong, spent>>

CooldownEnds(c) ==
    /\ challenge[c].recent
    /\ challenge' = [challenge EXCEPT ![c].recent = FALSE]
    /\ UNCHANGED <<throttle, due, wrong, spent>>

PurgeChallenge(c) ==
    /\ challenge[c].state \in {"lapsed", "consumed"} /\ ~challenge[c].recent
    /\ challenge' = [challenge EXCEPT ![c].state = "deleted"]
    /\ UNCHANGED <<throttle, due, wrong, spent>>

WindowEnds(k) ==
    /\ throttle[k].window
    /\ throttle' = [throttle EXCEPT ![k].window = FALSE]
    /\ due' = [due EXCEPT ![k] = 0]
    /\ UNCHANGED <<challenge, wrong, spent>>

LockEnds(k) ==
    /\ throttle[k].locked
    /\ throttle' = [throttle EXCEPT ![k].locked = FALSE]
    /\ due' = [due EXCEPT ![k] = 0]
    /\ UNCHANGED <<challenge, wrong, spent>>
=============================================================================
