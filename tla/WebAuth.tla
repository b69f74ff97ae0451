------------------------------- MODULE WebAuth -------------------------------
(***************************************************************************)
(* The web login (s2l-web/src/auth.rs, and login in api.rs): a challenge   *)
(* gives out a nonce, a login answers it with a proof of the password and  *)
(* gets a token, a request shows its token.  Everything is in memory,      *)
(* behind one mutex, so each operation is one step.                        *)
(*                                                                         *)
(* Nonces and tokens are numbered in the order they are asked for; None is *)
(* the empty string that random_hex returns when the system has no random  *)
(* bytes.  The maps of the code are lists here, by age: eldest first.      *)
(*                                                                         *)
(* A definition marked "Slip" is no part of the model: it is the next one  *)
(* with a mistake that a property has to notice.                           *)
(***************************************************************************)
EXTENDS Naturals, FiniteSets, SequencesExt, Lists

CONSTANTS
    Addresses,    \* the addresses that log in
    Patience,     \* FAIL_BEFORE_DELAY, 3
    LongestWait,  \* 30 s
    Forget,       \* 600 s
    NonceTtl,     \* NONCE_TTL, 60 s
    MaxNonces,    \* 256
    MaxSessions,  \* 64
    MaxTime,      \* bound on the clock
    MaxGiven,     \* bound on the nonces, and on the tokens, given out
    MaxNoRandom   \* bound on the times there are no random bytes

ASSUME WebAuthAssumption ==
    /\ {Patience, LongestWait, Forget, NonceTtl, MaxTime, MaxGiven, MaxNoRandom} \subseteq Nat
    /\ {MaxNonces, MaxSessions} \subseteq Nat \ {0}
    /\ LongestWait < Forget

VARIABLES
    now,
    nonces,    \* [id, at], the eldest first
    sessions,  \* tokens, the one used longest ago first
    failures,  \* per address: how many, and when the last was
    history    \* see below

authVars == <<now, nonces, sessions, failures, history>>

None    == 0
Untried == [n |-> 0, at |-> 0]

AuthInit ==
    /\ now = 0
    /\ nonces = <<>>
    /\ sessions = <<>>
    /\ failures = [a \in Addresses |-> Untried]
    /\ history = [
          given  |-> 0,      \* nonces given out
          fair   |-> {},     \* those in time and unspent, and how many came after each
          unjust |-> {},     \* how many had come after one of those that was refused
          row    |-> [a \in Addresses |-> Untried], \* failures in a row, and the last
          hasty  |-> {},     \* addresses that failed again too soon
          opened |-> <<>>,   \* each token given out, [id, nonce]
          since  |-> <<>>,   \* per token: the tokens used or given out since its last use
          over   |-> {},     \* tokens logged out
          blanks |-> 0]      \* times there were no random bytes

Ids(list) == {list[k].id : k \in DOMAIN list}

(* sweep: old nonces go, and failures after a while.                       *)
SweptNonces == Retain(nonces, {x \in ToSet(nonces) : now - x.at <= NonceTtl})
SweptFailures ==
    [a \in Addresses |-> IF now - failures[a].at <= Forget THEN failures[a] ELSE Untried]

(* (Slip: one too many stays.)                                             *)
RoomLate(list, max) == IF Len(list) > max THEN Tail(list) ELSE list

(* (Slip: the youngest goes.)                                              *)
RoomAtTheEnd(list, max) == IF Len(list) >= max THEN Front(list) ELSE list

(* Room for one more: of a full list the eldest goes.                      *)
Room(list, max) == IF Len(list) >= max THEN Tail(list) ELSE list

(* random_hex, asked for the k-th time.                                    *)
Fresh(k) == {k} \cup IF history.blanks < MaxNoRandom THEN {None} ELSE {}
Blanks(id) == history.blanks + IF id = None THEN 1 ELSE 0

NotNamed(list, id) == Retain(list, {x \in ToSet(list) : x.id # id})
AllBut(list, token) == Retain(list, ToSet(list) \ {token})

OneAfter == {[x EXCEPT !.after = @ + 1] : x \in history.fair}

(* An id that is there already, the empty one, moves to the end.           *)
Challenge ==
    /\ history.given < MaxGiven
    /\ \E id \in Fresh(history.given + 1) :
        /\ nonces' = Append(NotNamed(Room(SweptNonces, MaxNonces), id), [id |-> id, at |-> now])
        /\ history' = [history EXCEPT
              !.given = @ + 1,
              !.blanks = Blanks(id),
              !.fair = OneAfter \cup
                       IF id = None THEN {} ELSE {[id |-> id, at |-> now, after |-> 0]}]
    /\ failures' = SweptFailures
    /\ UNCHANGED <<now, sessions>>

Wait(n) == IF n - Patience < LongestWait THEN n - Patience ELSE LongestWait

(* failed_too_often.                                                       *)
Barred(a) ==
    LET f == SweptFailures[a] IN f.n > Patience /\ now - f.at < Wait(f.n)

(* (Slip: the time of the first failure is kept.)                          *)
CountSinceFirst(f) == [n |-> f.n + 1, at |-> IF f.n = 0 THEN now ELSE f.at]

(* record_failure.                                                         *)
Count(f) == [n |-> f.n + 1, at |-> now]

Without(nonce) == {x \in history.fair : x.id # nonce}

(* One more failure in a row, if the last was not long ago.                *)
Missed(a) ==
    LET r == history.row[a]
        n == IF now - r.at > Forget THEN 0 ELSE r.n
    IN  [history EXCEPT !.row[a] = [n |-> n + 1, at |-> now],
                        !.hasty = @ \cup IF n > Patience /\ now - r.at < Wait(n)
                                         THEN {a} ELSE {}]

(* Too many attempts: nothing else is looked at.                           *)
LoginBarred(a) ==
    /\ Barred(a)
    /\ nonces' = SweptNonces
    /\ failures' = SweptFailures
    /\ UNCHANGED <<now, sessions, history>>

LoginBadNonce(a, nonce) ==
    /\ ~ Barred(a)
    /\ nonce \notin Ids(SweptNonces)
    /\ nonces' = SweptNonces
    /\ failures' = [SweptFailures EXCEPT ![a] = Count(@)]
    /\ history' = [Missed(a) EXCEPT
          !.unjust = @ \cup {x.after : x \in {y \in history.fair : y.id = nonce}}]
    /\ UNCHANGED <<now, sessions>>

(* (Slip: the nonce stays.)                                                *)
KeepNonce(nonce) == SweptNonces

(* Whatever the proof, the nonce is gone.                                  *)
SpendNonce(nonce) == NotNamed(SweptNonces, nonce)

LoginBadProof(a, nonce) ==
    /\ ~ Barred(a)
    /\ nonce \in Ids(SweptNonces)
    /\ nonces' = SpendNonce(nonce)
    /\ failures' = [SweptFailures EXCEPT ![a] = Count(@)]
    /\ history' = [Missed(a) EXCEPT !.fair = Without(nonce)]
    /\ UNCHANGED <<now, sessions>>

(* Token k was used, or the k-th is given out; of tokens logged out it     *)
(* does not matter.                                                        *)
Used(k) ==
    [j \in 1 .. Len(history.opened) |->
        IF j \in {k} \cup history.over THEN {} ELSE history.since[j] \cup {k}]

LoginWorks(a, nonce) ==
    /\ ~ Barred(a)
    /\ nonce \in Ids(SweptNonces)
    /\ Len(history.opened) < MaxGiven
    /\ nonces' = SpendNonce(nonce)
    /\ failures' = [SweptFailures EXCEPT ![a] = Untried]
    /\ \E token \in Fresh(Len(history.opened) + 1) :
          /\ sessions' = Append(AllBut(Room(sessions, MaxSessions), token), token)
          /\ history' = [history EXCEPT
                !.row[a] = Untried,
                !.fair = Without(nonce),
                !.blanks = Blanks(token),
                !.opened = Append(@, [id |-> token, nonce |-> nonce]),
                !.since = Append(Used(Len(@) + 1), {})]
    /\ UNCHANGED now

(* Any nonce may be tried, and one that never was.                         *)
Login(a) ==
    \/ LoginBarred(a)
    \/ \E nonce \in 0 .. history.given :
          LoginBadNonce(a, nonce) \/ LoginBadProof(a, nonce) \/ LoginWorks(a, nonce)

(* verify; the empty token is refused though it has a place in the list.   *)
Valid(token) == token # None /\ token \in ToSet(sessions)

(* (Slip: a use is not noted.)                                             *)
Forgotten(token) == sessions

Touched(token) == Append(AllBut(sessions, token), token)

Use(token) ==
    /\ Valid(token)
    /\ sessions' = Touched(token)
    /\ history' = [history EXCEPT !.since = Used(token)]
    /\ UNCHANGED <<now, nonces, failures>>

(* The route asks verify before, which notes the use.                      *)
Logout(token) ==
    /\ Valid(token)
    /\ sessions' = AllBut(Touched(token), token)
    /\ history' = [history EXCEPT !.since = [Used(token) EXCEPT ![token] = {}],
                                   !.over = @ \cup {token}]
    /\ UNCHANGED <<now, nonces, failures>>

Tick ==
    /\ now < MaxTime
    /\ now' = now + 1
    /\ history' = [history EXCEPT !.fair = {x \in @ : now + 1 - x.at <= NonceTtl}]
    /\ UNCHANGED <<nonces, sessions, failures>>

AuthNext ==
    \/ Challenge
    \/ \E a \in Addresses : Login(a)
    \/ \E token \in 1 .. Len(history.opened) : Use(token) \/ Logout(token)
    \/ Tick

-----------------------------------------------------------------------------
(* What the maps hold stays within its limits; every nonce in them is in   *)
(* its order of age, and every session was opened.                         *)
AuthTypeOK ==
    /\ now \in 0 .. MaxTime
    /\ Len(nonces) <= MaxNonces
    /\ Len(sessions) <= MaxSessions
    /\ \A i, j \in DOMAIN nonces : i < j => nonces[i].at <= nonces[j].at
    /\ \A t \in ToSet(sessions) : t \in 0 .. Len(history.opened)
    /\ \A a \in Addresses : failures[a].n \in Nat /\ failures[a].at \in 0 .. now

(* A nonce opens one session at most, however often and from wherever it   *)
(* is sent again.  (The empty one may be given out again.)                 *)
OneSessionPerNonce ==
    \A i, j \in DOMAIN history.opened :
        history.opened[i].nonce = history.opened[j].nonce /\ i # j => history.opened[i].nonce = None

(* Failures in a row from one address come at growing distances, up to the *)
(* longest wait, once there were more than the patience allows, whatever   *)
(* challenges and logins of others come between.                           *)
GuessesSlowDown == history.hasty = {}

(* Who answers a challenge in time, and first, is refused for the nonce    *)
(* only if as many others were given out since as the list holds.          *)
ChallengeHolds == \A after \in history.unjust : after >= MaxNonces

(* A token is good until it is logged out, or as many others as there is   *)
(* room for were used or given out since its last use: sessions do not end *)
(* by age, and one that is used does not end for idle ones.                *)
SessionsLast ==
    \A k \in DOMAIN history.opened :
        \/ history.opened[k].id = None
        \/ k \in ToSet(sessions) \cup history.over
        \/ Cardinality(history.since[k]) >= MaxSessions
=============================================================================
