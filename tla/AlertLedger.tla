---------------------------- MODULE AlertLedger ----------------------------
(***************************************************************************)
(* What the retry machinery promises about one notification, whatever the  *)
(* queue, the threads and the limits do in between: every alert that could *)
(* not go out at once waits until it has been sent again, has been given   *)
(* up, or has been evicted by the queue limit; it is never forgotten, it   *)
(* never leaves one of those three ends, and the far side sees it more     *)
(* than once only when an answer was lost on the way back.                 *)
(*                                                                         *)
(* RetryQueue implements this module (property LedgerKept there).          *)
(***************************************************************************)
EXTENDS Naturals

CONSTANTS Alerts      \* the alerts notify() is asked to deliver

VARIABLES limited,    \* a limit is set, or a thread is about to apply one
          fate,       \* where each alert stands
          received,   \* how often the far side has accepted it
          lostAnswers \* how often it accepted it and the answer was lost

ledgerVars == <<limited, fate, received, lostAnswers>>

LInit ==
    /\ limited \in BOOLEAN
    /\ fate = [a \in Alerts |-> "new"]
    /\ received = [a \in Alerts |-> 0]
    /\ lostAnswers = [a \in Alerts |-> 0]

(* notify() ends without the queue: sent, skipped or refused for good.     *)
LSettle(a, end) ==
    /\ fate[a] = "new"
    /\ fate' = [fate EXCEPT ![a] = end]
    /\ received' = [received EXCEPT ![a] = @ + (IF end = "delivered" THEN 1 ELSE 0)]
    /\ UNCHANGED lostAnswers

(* An attempt, the first or a later one, fails and is worth repeating: the *)
(* first delivery goes on, or the alert waits from now on.                 *)
LFail(a, lost) ==
    /\ fate[a] \in {"new", "waiting"}
    /\ fate' \in {fate, [fate EXCEPT ![a] = "waiting"]}
    /\ received' = [received EXCEPT ![a] = @ + lost]
    /\ lostAnswers' = [lostAnswers EXCEPT ![a] = @ + lost]

LResend(a) ==
    /\ fate[a] = "waiting"
    /\ fate' = [fate EXCEPT ![a] = "resent"]
    /\ received' = [received EXCEPT ![a] = @ + 1]
    /\ UNCHANGED lostAnswers

LGiveUp(a) ==
    /\ fate[a] = "waiting"
    /\ fate' = [fate EXCEPT ![a] = "gaveUp"]
    /\ UNCHANGED <<received, lostAnswers>>

(* A limit takes any number of waiting alerts at once; without one, none.  *)
LEvict(S) ==
    /\ limited
    /\ \A a \in S : fate[a] = "waiting"
    /\ fate' = [a \in Alerts |-> IF a \in S THEN "evicted" ELSE fate[a]]
    /\ UNCHANGED <<received, lostAnswers>>

(* The limit comes and goes, in steps of its own or with any of the above. *)
LNext ==
    /\ limited' \in BOOLEAN
    /\ \/ \E a \in Alerts :
             \/ \E end \in {"delivered", "skipped", "refused"} : LSettle(a, end)
             \/ \E lost \in {0, 1} : LFail(a, lost)
             \/ LResend(a)
             \/ LGiveUp(a)
       \/ \E S \in SUBSET Alerts : LEvict(S)
       \/ UNCHANGED <<fate, received, lostAnswers>>

LSpec == LInit /\ [][LNext]_ledgerVars
=============================================================================
