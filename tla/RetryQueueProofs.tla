-------------------------- MODULE RetryQueueProofs --------------------------
(***************************************************************************)
(* Proofs about RetryQueue, for any number of alerts, requests, channels   *)
(* and any set of limits.                                                  *)
(*                                                                         *)
(* First what the queue's operations do to a sequence (insert_by_time and  *)
(* evict), then an inductive invariant, then the theorems on the types,    *)
(* the wake-up, the bound and the order.  The second part is about who     *)
(* holds an alert, the counter of dropped ones, and AlertLedger, which the *)
(* queue with all its threads implements.                                  *)
(***************************************************************************)
EXTENDS RetryQueue, ListProofs, SequenceTheorems, FiniteSetTheorems

-----------------------------------------------------------------------------
(* evict keeps the newest end of the queue, as it was, within the limit.   *)
LEMMA EvictLemma ==
    ASSUME NEW S, NEW q \in Seq(S), NEW max \in Nat
    PROVE  /\ OverLimit(q, max) \in 0 .. Len(q)
           /\ Kept(q, max) \in Seq(S)
           /\ Len(Kept(q, max)) = Len(q) - OverLimit(q, max)
           /\ \A k \in 1 .. Len(Kept(q, max)) :
                 Kept(q, max)[k] = q[k + OverLimit(q, max)]
           /\ max # 0 => Len(Kept(q, max)) <= max
           /\ q # <<>> => Kept(q, max) # <<>>
           /\ Evicted(q, max) \in Seq(S)
           /\ Len(Evicted(q, max)) = OverLimit(q, max)
           /\ \A k \in 1 .. OverLimit(q, max) : Evicted(q, max)[k] = q[k]
<1> DEFINE n == OverLimit(q, max)
<1>1. n \in 0 .. Len(q)
  BY DEF OverLimit
<1>2. max # 0 => Len(q) - n <= max
  BY DEF OverLimit
<1>3. Len(q) > 0 => n < Len(q)
  BY DEF OverLimit
<1> HIDE DEF n
<1>4. /\ SubSeq(q, n + 1, Len(q)) \in Seq(S)
      /\ Len(SubSeq(q, n + 1, Len(q))) = Len(q) - n
      /\ \A k \in 1 .. Len(q) - n : SubSeq(q, n + 1, Len(q))[k] = q[k + n]
  BY <1>1
<1>5. /\ SubSeq(q, 1, n) \in Seq(S)
      /\ Len(SubSeq(q, 1, n)) = n
      /\ \A k \in 1 .. n : SubSeq(q, 1, n)[k] = q[k]
  BY <1>1
<1>6. q # <<>> => Len(q) - n > 0
  BY <1>1, <1>3
<1> DEFINE kept == SubSeq(q, n + 1, Len(q))
           gone == SubSeq(q, 1, n)
<1>7. /\ OverLimit(q, max) = n
      /\ Kept(q, max) = kept
      /\ Evicted(q, max) = gone
  BY DEF Kept, Evicted, n
<1>8. /\ kept \in Seq(S)
      /\ Len(kept) = Len(q) - n
      /\ \A k \in 1 .. Len(kept) : kept[k] = q[k + n]
      /\ gone \in Seq(S)
      /\ Len(gone) = n
      /\ \A k \in 1 .. n : gone[k] = q[k]
  BY <1>1, <1>4, <1>5
<1> HIDE DEF kept, gone
<1>9. q # <<>> => kept # <<>>
  BY <1>6, <1>8
<1> QED
  BY <1>1, <1>2, <1>7, <1>8, <1>9

(* insert_by_time finds the place after the last entry that is not younger.*)
LEMMA InsertPosLemma ==
    ASSUME NEW q \in Seq(Alerts), NEW a \in Alerts
    PROVE  LET p == InsertPos(q, a)
           IN  /\ p \in 0 .. Len(q)
               /\ p = 0 \/ At[q[p]] <= At[a]
               /\ \A k \in (p + 1) .. Len(q) : At[q[k]] > At[a]
<1> DEFINE Suitable(p) == /\ p = 0 \/ At[q[p]] <= At[a]
                          /\ \A k \in (p + 1) .. Len(q) : At[q[k]] > At[a]
           Free == {n \in 0 .. Len(q) : n = Len(q) \/ At[q[Len(q) - n]] <= At[a]}
<1>1. \E p \in 0 .. Len(q) : Suitable(p)
  <2>1. PICK n \in Free : \A m \in Free : n <= m
    <3>1. Free # {} /\ Free \in SUBSET Nat
      OBVIOUS
    <3> HIDE DEF Free
    <3> QED
      BY <3>1, LeastNumber
  <2>2. Len(q) - n \in 0 .. Len(q)
    OBVIOUS
  <2>3. ASSUME NEW k \in (Len(q) - n + 1) .. Len(q)
        PROVE  At[q[k]] > At[a]
    <3>1. Len(q) - k \in 0 .. Len(q) /\ Len(q) - k < n
      BY <2>2
    <3>2. Len(q) - k \notin Free
      BY <2>1, <3>1
    <3>3. ~ (At[q[k]] <= At[a])
      BY <3>1, <3>2
    <3>4. At[q[k]] \in Nat /\ At[a] \in Nat
      BY <2>2, ConstantsAssumption
    <3> QED
      BY <3>3, <3>4
  <2> QED
    BY <2>2, <2>3
<1> HIDE DEF Suitable
<1>2. InsertPos(q, a) = CHOOSE p \in 0 .. Len(q) : Suitable(p)
  BY DEF InsertPos, Suitable
<1>3. InsertPos(q, a) \in 0 .. Len(q) /\ Suitable(InsertPos(q, a))
  BY <1>1, <1>2
<1> QED
  BY <1>3 DEF Suitable

(* insert_by_time puts the new entry at that place and moves the younger   *)
(* ones back.                                                              *)
LEMMA InsertLemma ==
    ASSUME NEW q \in Seq(Alerts), NEW a \in Alerts
    PROVE  LET p == InsertPos(q, a)
               t == InsertByTime(q, a)
           IN  /\ t \in Seq(Alerts)
               /\ Len(t) = Len(q) + 1
               /\ \A k \in 1 .. p : t[k] = q[k]
               /\ t[p + 1] = a
               /\ \A k \in (p + 2) .. (Len(q) + 1) : t[k] = q[k - 1]
<1> DEFINE p == InsertPos(q, a)
<1>1. p \in 0 .. Len(q)
  BY InsertPosLemma
<1> HIDE DEF p
<1> DEFINE front == SubSeq(q, 1, p)
           back  == SubSeq(q, p + 1, Len(q))
<1>2. /\ front \in Seq(Alerts)
      /\ Len(front) = p
      /\ \A k \in 1 .. p : front[k] = q[k]
  BY <1>1
<1>3. /\ back \in Seq(Alerts)
      /\ Len(back) = Len(q) - p
      /\ \A k \in 1 .. Len(q) - p : back[k] = q[p + k]
  BY <1>1
<1>4. InsertByTime(q, a) = front \o <<a>> \o back
  <2>1. (p + 1) - 1 = p
    BY <1>1
  <2> QED
    BY <2>1 DEF InsertByTime, InsertAt, p
<1> HIDE DEF front, back
<1>5. /\ front \o <<a>> \in Seq(Alerts)
      /\ Len(front \o <<a>>) = p + 1
      /\ \A k \in 1 .. p : (front \o <<a>>)[k] = q[k]
      /\ (front \o <<a>>)[p + 1] = a
  BY <1>1, <1>2
<1> DEFINE head == front \o <<a>>
<1> HIDE DEF head
<1>6. /\ head \o back \in Seq(Alerts)
      /\ Len(head \o back) = Len(q) + 1
      /\ \A k \in 1 .. p + 1 : (head \o back)[k] = head[k]
      /\ \A k \in (p + 2) .. (Len(q) + 1) : (head \o back)[k] = back[k - (p + 1)]
  BY <1>1, <1>3, <1>5 DEF head
<1>7. \A k \in (p + 2) .. (Len(q) + 1) : back[k - (p + 1)] = q[k - 1]
  BY <1>1, <1>3
<1> QED
  BY <1>1, <1>4, <1>5, <1>6, <1>7 DEF head, p

-----------------------------------------------------------------------------
(* The inductive invariant.                                                *)

Enqueued == {"pushed", "signalled", "queued"}

(* The limit a thread is about to apply is one that was set.               *)
LimitsRead ==
    /\ \A a \in Alerts : pc[a] = "loaded" => limit[a] \in Limits
    /\ \A r \in Requests : pc[r] = "stored" => limit[r] \in Limits

(* The flusher holds an entry exactly while it looks up or sends.          *)
HandOfFlusher == held = None <=> flusher \notin {"lookup", "sending"}

(* What waits was pushed by its own task, and waits in one place.          *)
Places ==
    /\ \A k \in DOMAIN items : pc[items[k]] \in Enqueued /\ items[k] # held
    /\ \A j, k \in DOMAIN items : j # k => items[j] # items[k]
    /\ held # None => pc[held] \in Enqueued /\ held \in tried

TypeInv == TypeOK /\ LimitsRead /\ HandOfFlusher

LEMMA DelayRange == FirstDelay \in FirstDelay .. MaxDelay
  BY ConstantsAssumption

LEMMA TypeInit == Init => TypeInv
<1> SUFFICES ASSUME Init PROVE TypeInv
  OBVIOUS
<1>1. 0 \in 0 .. MaxLost
  BY ConstantsAssumption
<1>2. <<>> \in Seq(Alerts) /\ <<>> \in Seq(Marks)
  OBVIOUS
<1>3. TypeOK
  BY <1>1, <1>2, DelayRange
     DEF Init, TypeOK, Threads, TaskSteps, RequestSteps, FlusherSteps
<1> QED
  BY <1>3 DEF Init, TypeInv, LimitsRead, HandOfFlusher, Threads

(* An attempt leaves the far side's counters in their range.               *)
LEMMA FarSideLemma ==
    ASSUME TypeOK, NEW a \in Alerts, NEW answer \in Answers(a), FarSide(a, answer)
    PROVE  /\ received' \in [Alerts -> Nat]
           /\ lostAnswers' \in [Alerts -> 0 .. MaxLost]
<1> DEFINE one == IF answer \in {"ok", "lost"} THEN 1 ELSE 0
           lost == IF answer = "lost" THEN 1 ELSE 0
<1>1. answer = "lost" => lostAnswers[a] < MaxLost
  BY DEF Answers
<1>2. received[a] + one \in Nat
  BY DEF TypeOK
<1>3. lostAnswers[a] + lost \in 0 .. MaxLost
  BY <1>1, ConstantsAssumption DEF TypeOK
<1>4. /\ received' = [received EXCEPT ![a] = @ + one]
      /\ lostAnswers' = [lostAnswers EXCEPT ![a] = @ + lost]
  BY DEF FarSide
<1> HIDE DEF one, lost
<1> QED
  BY <1>2, <1>3, <1>4 DEF TypeOK

(* Logging evictions leaves a log of marks.                                *)
LEMMA MarkLemma ==
    ASSUME TypeOK, NEW S
    PROVE  MarkEvicted(S) \in [Alerts -> Seq(Marks)]
<1>1. \A b \in Alerts : Append(log[b], "evicted") \in Seq(Marks)
  BY DEF TypeOK, Marks
<1> QED
  BY <1>1 DEF MarkEvicted, TypeOK

LEMMA TypeStep == TypeInv /\ [Next]_vars => TypeInv'
<1> SUFFICES ASSUME TypeInv, [Next]_vars
             PROVE  TypeInv'
  OBVIOUS
<1> USE ConstantsAssumption
        DEF TypeInv, TypeOK, LimitsRead, HandOfFlusher, Threads, TaskSteps,
            RequestSteps, FlusherSteps, vars, queueVars, worldVars, threadVars,
            flusherVars, Goto
<1>1. ASSUME NEW a \in Alerts, Begin(a) PROVE TypeInv'
  BY <1>1 DEF Begin
<1>2. ASSUME NEW a \in Alerts, Deliver(a) PROVE TypeInv'
  <2>1. PICK answer \in Answers(a) :
           /\ FarSide(a, answer)
           /\ up' = (up \/ (answer = "ok" /\ items # <<>>))
           /\ \E step \in {"delivered", "refused", "sending", "failed"} : Goto(a, step)
    BY <1>2 DEF Deliver, AfterFailure
  <2>2. received' \in [Alerts -> Nat] /\ lostAnswers' \in [Alerts -> 0 .. MaxLost]
    BY <2>1, FarSideLemma
  <2>3. UNCHANGED <<items, work, dropped, enabled, limit, evicted, flusherVars,
                    retryQueue, log>>
    BY <1>2 DEF Deliver
  <2> QED
    BY <2>1, <2>2, <2>3
<1>3. ASSUME NEW a \in Alerts, LoadLimit(a) PROVE TypeInv'
  BY <1>3 DEF LoadLimit
<1>4. ASSUME NEW a \in Alerts, Push(a) PROVE TypeInv'
  <2>1. limit[a] \in Nat
    BY <1>4 DEF Push
  <2>2. InsertByTime(items, a) \in Seq(Alerts)
    BY InsertLemma
  <2>3. items' \in Seq(Alerts) /\ evicted' \in [Threads -> Seq(Alerts)]
    BY <1>4, <2>1, <2>2, EvictLemma DEF Push
  <2> QED
    BY <1>4, <2>3 DEF Push
<1>5. ASSUME NEW a \in Alerts, Signal(a) PROVE TypeInv'
  <2>1. Len(evicted[a]) \in Nat
    OBVIOUS
  <2>2. dropped' \in Nat /\ work' \in BOOLEAN
    BY <1>5, <2>1 DEF Signal
  <2> QED
    BY <1>5, <2>2 DEF Signal
<1>6. ASSUME NEW a \in Alerts, LogQueued(a) PROVE TypeInv'
  <2>1. log' \in [Alerts -> Seq(Marks)]
    BY <1>6, MarkLemma DEF LogQueued
  <2> QED
    BY <1>6, <2>1 DEF LogQueued
<1>7. ASSUME NEW r \in Requests, StoreLimit(r) PROVE TypeInv'
  BY <1>7 DEF StoreLimit
<1>8. ASSUME NEW r \in Requests, Trim(r) PROVE TypeInv'
  <2>1. limit[r] \in Nat
    BY <1>8 DEF Trim
  <2>2. items' \in Seq(Alerts) /\ evicted' \in [Threads -> Seq(Alerts)]
    BY <1>8, <2>1, EvictLemma DEF Trim
  <2> QED
    BY <1>8, <2>2 DEF Trim
<1>9. ASSUME NEW r \in Requests, LogTrim(r) PROVE TypeInv'
  <2>1. log' \in [Alerts -> Seq(Marks)]
    BY <1>9, MarkLemma DEF LogTrim
  <2> QED
    BY <1>9, <2>1 DEF LogTrim
<1>10. CASE Kick
  BY <1>10 DEF Kick
<1>11. ASSUME NEW c \in Channels, EditChannel(c) PROVE TypeInv'
  BY <1>11 DEF EditChannel
<1>12. CASE CheckEmpty
  BY <1>12 DEF CheckEmpty
<1>13. CASE WorkArrives
  BY <1>13, DelayRange DEF WorkArrives
<1>14. CASE BackoffEnds
  BY <1>14 DEF BackoffEnds
<1>15. CASE Pop
  <2>1. Head(items) \in Alerts /\ Tail(items) \in Seq(Alerts)
    BY <1>15 DEF Pop
  <2> QED
    BY <1>15, <2>1 DEF Pop
<1>16. CASE Drained
  BY <1>16, DelayRange DEF Drained
<1>17. ASSUME NEW mark \in Marks, flusher \in {"lookup", "sending"}, Settle(mark)
       PROVE  /\ held \in Alerts
              /\ log' \in [Alerts -> Seq(Marks)]
              /\ tried' \subseteq Alerts
              /\ held' = None
              /\ flusher' = "pop"
  <2>1. held \in Alerts
    BY <1>17
  <2>2. Append(log[held], mark) \in Seq(Marks)
    BY <1>17, <2>1
  <2> QED
    BY <1>17, <2>1, <2>2 DEF Settle
<1>18. CASE LookUp
  <2>1. "gaveUp" \in Marks
    BY DEF Marks
  <2> QED
    BY <1>18, <1>17, <2>1 DEF LookUp
<1>19. CASE Resent
  <2>1. "resent" \in Marks
    BY DEF Marks
  <2>2. /\ held \in Alerts
        /\ log' \in [Alerts -> Seq(Marks)]
        /\ tried' \subseteq Alerts
        /\ held' = None
        /\ flusher' = "pop"
    BY <1>19, <1>17, <2>1 DEF Resent
  <2>3. received' \in [Alerts -> Nat] /\ lostAnswers' \in [Alerts -> 0 .. MaxLost]
    BY <1>19, <2>2, FarSideLemma DEF Resent
  <2> QED
    BY <1>19, <2>2, <2>3 DEF Resent
<1>20. CASE GiveUp
  <2>1. "gaveUp" \in Marks
    BY DEF Marks
  <2> QED
    BY <1>20, <1>17, <2>1 DEF GiveUp
<1>21. CASE Requeue
  <2>1. held \in Alerts
    BY <1>21 DEF Requeue
  <2>2. received' \in [Alerts -> Nat] /\ lostAnswers' \in [Alerts -> 0 .. MaxLost]
    BY <1>21, <2>1, FarSideLemma DEF Requeue
  <2>3. <<held>> \o items \in Seq(Alerts)
    BY <2>1
  <2>4. delay' \in FirstDelay .. MaxDelay
    BY <1>21 DEF Requeue, NextDelay
  <2> QED
    BY <1>21, <2>2, <2>3, <2>4 DEF Requeue
<1>22. CASE UNCHANGED vars
  BY <1>22
<1> QED
  BY <1>1, <1>2, <1>3, <1>4, <1>5, <1>6, <1>7, <1>8, <1>9, <1>10, <1>11, <1>12,
     <1>13, <1>14, <1>15, <1>16, <1>18, <1>19, <1>20, <1>21, <1>22
     DEF Next, NotifyTask, SettingsRequest, Flusher

-----------------------------------------------------------------------------
(* Where an entry stands.  Only Push and Requeue put one into the backlog, *)
(* from a task that has not pushed yet and from the flusher's hand.        *)

(* A queue whose entries wait here and nowhere else.                       *)
Apart(q, a) ==
    /\ \A k \in DOMAIN q : /\ q[k] = a \/ pc[q[k]] \in Enqueued
                           /\ q[k] # held
    /\ \A j, k \in DOMAIN q : j # k => q[j] # q[k]

(* Removing entries from the front leaves it so.                           *)
LEMMA TrimApart ==
    ASSUME NEW q \in Seq(Alerts), NEW max \in Nat, NEW a, Apart(q, a)
    PROVE  Apart(Kept(q, max), a)
<1> DEFINE n == OverLimit(q, max)
           t == Kept(q, max)
<1>1. /\ n \in 0 .. Len(q)
      /\ t \in Seq(Alerts)
      /\ Len(t) = Len(q) - n
      /\ \A k \in 1 .. Len(t) : t[k] = q[k + n]
  BY EvictLemma
<1> HIDE DEF n, t
<1>2. DOMAIN t = 1 .. Len(t) /\ DOMAIN q = 1 .. Len(q) /\ Len(q) \in Nat /\ Len(t) \in Nat
  BY <1>1
<1>3. \A k \in DOMAIN t : k + n \in DOMAIN q /\ t[k] = q[k + n]
  BY <1>1, <1>2
<1>4. \A j, k \in DOMAIN t : j # k => j + n # k + n
  BY <1>1, <1>2
<1>5. Apart(t, a)
  BY <1>3, <1>4 DEF Apart
<1> QED
  BY <1>5 DEF t

(* Inserting an alert that waits nowhere leaves it so.                     *)
LEMMA InsertApart ==
    ASSUME TypeInv, Places, NEW a \in Alerts, pc[a] \notin Enqueued
    PROVE  Apart(InsertByTime(items, a), a)
<1> DEFINE t == InsertByTime(items, a)
           p == InsertPos(items, a)
           Old(k) == IF k <= p THEN k ELSE k - 1
<1>1. items \in Seq(Alerts)
  BY DEF TypeInv, TypeOK
<1>2. p \in 0 .. Len(items)
  BY <1>1, InsertPosLemma
<1>3. /\ t \in Seq(Alerts)
      /\ Len(t) = Len(items) + 1
      /\ \A k \in 1 .. p : t[k] = items[k]
      /\ t[p + 1] = a
      /\ \A k \in (p + 2) .. (Len(items) + 1) : t[k] = items[k - 1]
  BY <1>1, InsertLemma
<1> HIDE DEF t, p
<1>4. \A k \in DOMAIN t : k # p + 1 => Old(k) \in DOMAIN items /\ t[k] = items[Old(k)]
  BY <1>1, <1>2, <1>3
<1>5. \A j, k \in DOMAIN t : j # p + 1 /\ k # p + 1 /\ j # k => Old(j) # Old(k)
  BY <1>2, <1>3
<1> HIDE DEF Old
<1>6. \A k \in DOMAIN items : pc[items[k]] \in Enqueued /\ items[k] # a
  BY DEF Places
<1>8. a # held
  BY ConstantsAssumption DEF Places, TypeInv, TypeOK
<1>9. \A k \in DOMAIN t : /\ t[k] = a \/ pc[t[k]] \in Enqueued
                         /\ t[k] # held
  BY <1>3, <1>4, <1>6, <1>8 DEF Places
<1>10. \A j, k \in DOMAIN t : j # k => t[j] # t[k]
  BY <1>3, <1>4, <1>5, <1>6 DEF Places
<1> QED
  BY <1>9, <1>10 DEF t, Apart

LEMMA PlacesInit == Init => Places
  BY DEF Init, Places

LEMMA PlacesStep == TypeInv /\ Places /\ [Next]_vars => Places'
<1> SUFFICES ASSUME TypeInv, Places, [Next]_vars
             PROVE  Places'
  OBVIOUS
<1> USE DEF queueVars, worldVars, threadVars, flusherVars, Goto
<1>0. items \in Seq(Alerts) /\ held \in Alerts \cup {None} /\ None \notin Alerts
      /\ \A k \in DOMAIN items : items[k] \in Alerts
  BY ConstantsAssumption DEF TypeInv, TypeOK
(* A step of a thread that leaves the backlog and the hand alone.          *)
<1>1. ASSUME UNCHANGED <<items, held, tried>>,
             \A a \in Alerts : pc[a] \in Enqueued => pc'[a] \in Enqueued
      PROVE  Places'
  BY <1>0, <1>1 DEF Places
<1>2. ASSUME NEW a \in Alerts, NotifyTask(a), ~ Push(a) PROVE Places'
  <2>1. UNCHANGED <<items, held, tried>>
    BY <1>2 DEF NotifyTask, Begin, Deliver, LoadLimit, Signal, LogQueued
  <2>2. PICK step : pc' = [pc EXCEPT ![a] = step] /\ (pc[a] \in Enqueued => step \in Enqueued)
    BY <1>2 DEF NotifyTask, Begin, Deliver, LoadLimit, Signal, LogQueued, Enqueued
  <2>3. \A b \in Alerts : pc[b] \in Enqueued => pc'[b] \in Enqueued
    BY <2>2 DEF TypeInv, TypeOK, Threads
  <2> QED
    BY <2>1, <2>3, <1>1
<1>3. ASSUME NEW a \in Alerts, Push(a) PROVE Places'
  <2>1. pc[a] \notin Enqueued /\ limit[a] \in Nat
    BY <1>3, ConstantsAssumption DEF Push, Enqueued, TypeInv, LimitsRead
  <2>2. InsertByTime(items, a) \in Seq(Alerts)
    BY <1>0, InsertLemma
  <2>3. Apart(Kept(InsertByTime(items, a), limit[a]), a)
    BY <2>1, <2>2, InsertApart, TrimApart
  <2>4. Apart(items', a) /\ items' \in Seq(Alerts)
    BY <1>3, <2>1, <2>2, <2>3, EvictLemma DEF Push
  <2>5. UNCHANGED <<held, tried>>
    BY <1>3 DEF Push
  <2>6. pc'[a] \in Enqueued /\ \A b \in Alerts : pc[b] \in Enqueued => pc'[b] \in Enqueued
    BY <1>3 DEF Push, Enqueued, TypeInv, TypeOK, Threads
  <2>7. \A k \in DOMAIN items' : items'[k] \in Alerts
    BY <2>4
  <2> QED
    BY <1>0, <2>4, <2>5, <2>6, <2>7 DEF Apart, Places
<1>4. ASSUME NEW r \in Requests, SettingsRequest(r) PROVE Places'
  <2>1. \A a \in Alerts : pc'[a] = pc[a]
    BY <1>4, ConstantsAssumption
       DEF SettingsRequest, StoreLimit, Trim, LogTrim, TypeInv, TypeOK, Threads
  <2>2. UNCHANGED <<held, tried>>
    BY <1>4 DEF SettingsRequest, StoreLimit, Trim, LogTrim
  <2>3. CASE Trim(r)
    <3>1. limit[r] \in Nat
      BY <2>3, ConstantsAssumption DEF Trim, TypeInv, LimitsRead
    <3>2. Apart(items, None)
      BY DEF Places, Apart
    <3>3. Apart(items', None) /\ items' \in Seq(Alerts)
      BY <1>0, <2>3, <3>1, <3>2, TrimApart, EvictLemma DEF Trim
    <3>4. \A k \in DOMAIN items' : items'[k] \in Alerts
      BY <3>3
    <3> QED
      BY <1>0, <2>1, <2>2, <3>3, <3>4 DEF Apart, Places
  <2>4. CASE ~ Trim(r)
    <3>1. items' = items
      BY <1>4, <2>4 DEF SettingsRequest, StoreLimit, LogTrim
    <3> QED
      BY <2>1, <2>2, <3>1, <1>1
  <2> QED
    BY <2>3, <2>4
<1>5. CASE Pop
  <2> DEFINE t == Tail(items)
  <2>1. /\ items # <<>>
        /\ items' = t
        /\ held' = Head(items)
        /\ tried' = tried \cup {Head(items)}
        /\ pc' = pc
    BY <1>5 DEF Pop
  <2>2. /\ Head(items) = items[1]
        /\ t \in Seq(Alerts)
        /\ DOMAIN items = 1 .. Len(items)
        /\ DOMAIN t = 1 .. Len(t)
        /\ Len(t) = Len(items) - 1
        /\ Len(items) \in Nat \ {0}
        /\ \A k \in 1 .. Len(t) : t[k] = items[k + 1]
    BY <1>0, <2>1
  <2> HIDE DEF t
  <2>3. \A k \in DOMAIN t : /\ k + 1 \in DOMAIN items
                            /\ k + 1 # 1
                            /\ t[k] = items[k + 1]
    BY <2>2
  <2>4. \A j, k \in DOMAIN t : j # k => j + 1 # k + 1
    BY <2>2
  <2>5. 1 \in DOMAIN items
    BY <2>2
  <2> QED
    BY <2>1, <2>2, <2>3, <2>4, <2>5 DEF Places
<1>6. CASE Requeue
  <2> DEFINE t == <<held>> \o items
  <2>1. held \in Alerts /\ held # None
    BY <1>0, <1>6 DEF Requeue, TypeInv, HandOfFlusher
  <2>2. items' = t /\ held' = None /\ UNCHANGED <<pc, tried>>
    BY <1>6 DEF Requeue
  <2>3. /\ DOMAIN t = 1 .. Len(items) + 1
        /\ DOMAIN items = 1 .. Len(items)
        /\ Len(items) \in Nat
        /\ t[1] = held
        /\ \A k \in 2 .. Len(items) + 1 : t[k] = items[k - 1]
        /\ \A k \in DOMAIN t : t[k] \in Alerts
    BY <1>0, <2>1
  <2> HIDE DEF t
  <2>4. \A k \in DOMAIN t : k # 1 => k - 1 \in DOMAIN items /\ t[k] = items[k - 1]
    BY <2>3
  <2>5. \A j, k \in DOMAIN t : j # k => j - 1 # k - 1
    BY <2>3
  <2> QED
    BY <1>0, <2>1, <2>2, <2>3, <2>4, <2>5 DEF Places
<1>7. ASSUME NEW mark, Settle(mark), UNCHANGED <<items, pc>> PROVE Places'
  <2>1. held' = None
    BY <1>7 DEF Settle
  <2> QED
    BY <1>0, <1>7, <2>1 DEF Places
<1>8. CASE LookUp \/ Resent \/ GiveUp
  <2>1. UNCHANGED <<items, pc>>
    BY <1>8 DEF LookUp, Resent, GiveUp
  <2>2. UNCHANGED <<held, tried>> \/ \E mark : Settle(mark)
    BY <1>8 DEF LookUp, Resent, GiveUp
  <2> QED
    BY <1>1, <1>7, <2>1, <2>2
<1>9. CASE CheckEmpty \/ WorkArrives \/ BackoffEnds \/ Drained \/ Kick
           \/ (\E c \in Channels : EditChannel(c)) \/ UNCHANGED vars
  BY <1>1, <1>9 DEF CheckEmpty, WorkArrives, BackoffEnds, Drained, Kick, EditChannel, vars
<1> QED
  BY <1>2, <1>3, <1>4, <1>5, <1>6, <1>8, <1>9 DEF Next, Flusher

-----------------------------------------------------------------------------
(* The wake-up, the bound and the order, each kept by every step.          *)

LEMMA WakeupStep == TypeInv /\ NoLostWakeup /\ [Next]_vars => NoLostWakeup'
<1> SUFFICES ASSUME TypeInv, NoLostWakeup, [Next]_vars
             PROVE  NoLostWakeup'
  OBVIOUS
<1> USE DEF queueVars, worldVars, threadVars, flusherVars, Goto, NoLostWakeup
(* The one step that takes the permit from a pushed task leaves it in      *)
(* work, the one that takes it from work leaves waitWork.                  *)
<1>1. ASSUME NEW a \in Alerts, NotifyTask(a) PROVE NoLostWakeup'
  <2>1. pc \in [Threads -> TaskSteps \cup RequestSteps] /\ a \in Threads
    BY DEF TypeInv, TypeOK, Threads
  <2>2. CASE Push(a)
    <3>1. pc'[a] = "pushed"
      BY <2>1, <2>2 DEF Push
    <3> QED
      BY <3>1
  <2>3. CASE Signal(a)
    BY <2>3 DEF Signal
  <2>4. CASE Begin(a) \/ Deliver(a) \/ LoadLimit(a) \/ LogQueued(a)
    <3>1. pc[a] # "pushed" /\ UNCHANGED <<items, work, flusher>>
      BY <2>4 DEF Begin, Deliver, LoadLimit, LogQueued
    <3>2. \E step : pc' = [pc EXCEPT ![a] = step]
      BY <2>4 DEF Begin, Deliver, LoadLimit, LogQueued
    <3>3. \A b \in Alerts : pc[b] = "pushed" => pc'[b] = "pushed"
      BY <2>1, <3>1, <3>2 DEF Threads
    <3> QED
      BY <3>1, <3>3
  <2> QED
    BY <1>1, <2>2, <2>3, <2>4 DEF NotifyTask
<1>2. ASSUME NEW r \in Requests, SettingsRequest(r) PROVE NoLostWakeup'
  <2>1. \A a \in Alerts : pc'[a] = pc[a]
    BY <1>2, ConstantsAssumption
       DEF SettingsRequest, StoreLimit, Trim, LogTrim, TypeInv, TypeOK, Threads
  <2>2. UNCHANGED <<work, flusher>>
    BY <1>2 DEF SettingsRequest, StoreLimit, Trim, LogTrim
  <2>3. items = <<>> => items' = <<>>
    <3>1. ASSUME Trim(r), items = <<>> PROVE items' = <<>>
      <4>1. limit[r] \in Nat
        BY <3>1, ConstantsAssumption DEF Trim, TypeInv, LimitsRead
      <4>2. items' = SubSeq(<<>>, 1, 0)
        BY <3>1, <4>1 DEF Trim, Kept, OverLimit
      <4> QED
        BY <4>2
    <3> QED
      BY <1>2, <3>1 DEF SettingsRequest, StoreLimit, LogTrim
  <2> QED
    BY <2>1, <2>2, <2>3
<1>3. CASE Kick
  BY <1>3 DEF Kick
<1>4. CASE Flusher
  BY <1>4 DEF Flusher, CheckEmpty, WorkArrives, BackoffEnds, Pop, Drained, LookUp,
              Resent, GiveUp, Requeue, Settle, TypeInv, HandOfFlusher
<1>5. CASE UNCHANGED vars \/ (\E c \in Channels : EditChannel(c))
  BY <1>5 DEF vars, EditChannel
<1> QED
  BY <1>1, <1>2, <1>3, <1>4, <1>5 DEF Next

LEMMA BoundStep == TypeInv /\ QueueBound /\ [Next]_vars => QueueBound'
<1> SUFFICES ASSUME TypeInv, QueueBound, [Next]_vars,
                    NEW max \in Limits, 0 \notin Limits, \A m \in Limits : m <= max
             PROVE  Len(items') + (IF held' = None THEN 0 ELSE 1) <= max + 1
  BY DEF QueueBound
<1> USE DEF queueVars, worldVars, threadVars, flusherVars
<1> DEFINE hand == IF held = None THEN 0 ELSE 1
<1>0. /\ items \in Seq(Alerts)
      /\ Len(items) \in Nat
      /\ max \in Nat
      /\ held \in Alerts \cup {None}
      /\ Len(items) + hand <= max + 1
  BY ConstantsAssumption DEF TypeInv, TypeOK, QueueBound
<1>1. ASSUME NEW q \in Seq(Alerts), NEW l \in Limits
      PROVE  /\ Len(Kept(q, l)) \in Nat
             /\ Len(Kept(q, l)) <= max
             /\ Len(Kept(q, l)) <= Len(q)
  <2>1. l \in Nat /\ l # 0 /\ l <= max /\ Len(q) \in Nat
    BY ConstantsAssumption
  <2>2. /\ Len(Kept(q, l)) = Len(q) - OverLimit(q, l)
        /\ OverLimit(q, l) \in 0 .. Len(q)
        /\ Len(Kept(q, l)) <= l
    BY <2>1, EvictLemma
  <2> QED
    BY <1>0, <2>1, <2>2
<1>2. ASSUME NEW a \in Alerts, Push(a)
      PROVE  Len(items') + (IF held' = None THEN 0 ELSE 1) <= max + 1
  <2>1. InsertByTime(items, a) \in Seq(Alerts)
    BY <1>0, InsertLemma
  <2>2. limit[a] \in Limits
    BY <1>2 DEF Push, TypeInv, LimitsRead
  <2>3. Len(items') \in Nat /\ Len(items') <= max /\ held' = held
    BY <1>1, <1>2, <2>1, <2>2 DEF Push
  <2> QED
    BY <1>0, <2>3
<1>3. ASSUME NEW r \in Requests, Trim(r)
      PROVE  Len(items') + (IF held' = None THEN 0 ELSE 1) <= max + 1
  <2>1. limit[r] \in Limits
    BY <1>3 DEF Trim, TypeInv, LimitsRead
  <2>2. Len(items') \in Nat /\ Len(items') <= Len(items) /\ held' = held
    BY <1>0, <1>1, <1>3, <2>1 DEF Trim
  <2> QED
    BY <1>0, <2>2
<1>4. CASE Pop
  <2>1. Len(items') = Len(items) - 1 /\ held = None
    BY <1>0, <1>4 DEF Pop, TypeInv, HandOfFlusher
  <2> QED
    BY <1>0, <2>1
<1>5. CASE Requeue
  <2>1. held # None /\ held \in Alerts
    BY <1>0, <1>5 DEF Requeue, TypeInv, HandOfFlusher
  <2>2. held' = None /\ items' = <<held>> \o items
    BY <1>5 DEF Requeue
  <2>3. Len(items') = Len(items) + 1
    BY <1>0, <2>1, <2>2
  <2> QED
    BY <1>0, <2>1, <2>2, <2>3
<1>6. ASSUME items' = items, held' \in {held, None}
      PROVE  Len(items') + (IF held' = None THEN 0 ELSE 1) <= max + 1
  BY <1>0, <1>6
<1>7. CASE LookUp \/ Resent \/ GiveUp
  BY <1>6, <1>7 DEF LookUp, Resent, GiveUp, Settle
<1>8. ASSUME NEW a \in Alerts, Begin(a) \/ Deliver(a) \/ LoadLimit(a) \/ Signal(a) \/ LogQueued(a)
      PROVE  Len(items') + (IF held' = None THEN 0 ELSE 1) <= max + 1
  BY <1>6, <1>8 DEF Begin, Deliver, LoadLimit, Signal, LogQueued
<1>9. ASSUME NEW r \in Requests, StoreLimit(r) \/ LogTrim(r)
      PROVE  Len(items') + (IF held' = None THEN 0 ELSE 1) <= max + 1
  BY <1>6, <1>9 DEF StoreLimit, LogTrim
<1>10. CASE CheckEmpty \/ WorkArrives \/ BackoffEnds \/ Drained \/ Kick
            \/ (\E c \in Channels : EditChannel(c)) \/ UNCHANGED vars
  BY <1>6, <1>10 DEF CheckEmpty, WorkArrives, BackoffEnds, Drained, Kick, EditChannel, vars
<1> QED
  BY <1>2, <1>3, <1>4, <1>5, <1>7, <1>8, <1>9, <1>10
     DEF Next, NotifyTask, SettingsRequest, Flusher

(* OrderedUnlessTried of any queue.                                        *)
Sorted(q) ==
    \A j, k \in DOMAIN q : j < k /\ q[j] \notin tried => At[q[j]] <= At[q[k]]

LEMMA TrimSorted ==
    ASSUME NEW q \in Seq(Alerts), NEW max \in Nat, Sorted(q)
    PROVE  Sorted(Kept(q, max))
<1> DEFINE n == OverLimit(q, max)
           t == Kept(q, max)
<1>1. /\ n \in 0 .. Len(q)
      /\ t \in Seq(Alerts)
      /\ Len(t) = Len(q) - n
      /\ \A k \in 1 .. Len(t) : t[k] = q[k + n]
  BY EvictLemma
<1> HIDE DEF n, t
<1>2. DOMAIN t = 1 .. Len(t) /\ DOMAIN q = 1 .. Len(q) /\ Len(q) \in Nat /\ Len(t) \in Nat
  BY <1>1
<1>3. \A k \in DOMAIN t : k + n \in DOMAIN q /\ t[k] = q[k + n]
  BY <1>1, <1>2
<1>4. \A j, k \in DOMAIN t : j < k => j + n < k + n
  BY <1>1, <1>2
<1>5. Sorted(t)
  BY <1>3, <1>4 DEF Sorted
<1> QED
  BY <1>5 DEF t

LEMMA InsertSorted ==
    ASSUME NEW q \in Seq(Alerts), NEW a \in Alerts, Sorted(q)
    PROVE  Sorted(InsertByTime(q, a))
<1> DEFINE t == InsertByTime(q, a)
           p == InsertPos(q, a)
<1>1. /\ p \in 0 .. Len(q)
      /\ p = 0 \/ At[q[p]] <= At[a]
      /\ \A k \in (p + 1) .. Len(q) : At[q[k]] > At[a]
  BY InsertPosLemma
<1>2. /\ t \in Seq(Alerts)
      /\ Len(t) = Len(q) + 1
      /\ \A k \in 1 .. p : t[k] = q[k]
      /\ t[p + 1] = a
      /\ \A k \in (p + 2) .. (Len(q) + 1) : t[k] = q[k - 1]
  BY InsertLemma
<1> HIDE DEF t, p
<1>3. /\ DOMAIN t = 1 .. Len(q) + 1 /\ DOMAIN q = 1 .. Len(q) /\ Len(q) \in Nat
      /\ \A k \in DOMAIN q : At[q[k]] \in Nat
      /\ At[a] \in Nat
  BY <1>2, ConstantsAssumption
<1> SUFFICES ASSUME NEW j \in DOMAIN t, NEW k \in DOMAIN t, j < k, t[j] \notin tried
             PROVE  At[t[j]] <= At[t[k]]
  BY DEF Sorted, t
<1>4. CASE k <= p
  <2>1. j \in DOMAIN q /\ k \in DOMAIN q /\ t[j] = q[j] /\ t[k] = q[k]
    BY <1>1, <1>2, <1>3, <1>4
  <2> QED
    BY <2>1 DEF Sorted
<1>5. CASE k = p + 1
  <2>1. j \in DOMAIN q /\ p \in DOMAIN q /\ j <= p /\ p # 0 /\ t[j] = q[j] /\ t[k] = a
    BY <1>1, <1>2, <1>3, <1>5
  <2>2. At[q[j]] <= At[q[p]]
    <3>1. CASE j = p
      BY <1>3, <2>1, <3>1
    <3>2. CASE j < p
      BY <2>1, <3>2 DEF Sorted
    <3> QED
      BY <1>1, <1>3, <2>1, <3>1, <3>2
  <2> QED
    BY <1>1, <1>3, <2>1, <2>2
<1>6. CASE j = p + 1
  <2>1. k - 1 \in (p + 1) .. Len(q) /\ k - 1 \in DOMAIN q /\ t[k] = q[k - 1] /\ t[j] = a
    BY <1>1, <1>2, <1>3, <1>6
  <2> QED
    BY <1>1, <1>3, <2>1
<1>7. CASE j <= p /\ k > p + 1
  <2>1. /\ j \in DOMAIN q /\ k - 1 \in DOMAIN q /\ j < k - 1
        /\ t[j] = q[j] /\ t[k] = q[k - 1]
    BY <1>1, <1>2, <1>3, <1>7
  <2> QED
    BY <2>1 DEF Sorted
<1>8. CASE j > p + 1
  <2>1. /\ j - 1 \in DOMAIN q /\ k - 1 \in DOMAIN q /\ j - 1 < k - 1
        /\ t[j] = q[j - 1] /\ t[k] = q[k - 1]
    BY <1>1, <1>2, <1>3, <1>8
  <2> QED
    BY <2>1 DEF Sorted
<1> QED
  BY <1>1, <1>3, <1>4, <1>5, <1>6, <1>7, <1>8

LEMMA OrderStep ==
    TypeInv /\ Places /\ OrderedUnlessTried /\ [Next]_vars => OrderedUnlessTried'
<1> SUFFICES ASSUME TypeInv, Places, Sorted(items), [Next]_vars
             PROVE  \A j, k \in DOMAIN items' :
                        j < k /\ items'[j] \notin tried' => At[items'[j]] <= At[items'[k]]
  BY DEF OrderedUnlessTried, Sorted
<1> DEFINE Goal == \A j, k \in DOMAIN items' :
                        j < k /\ items'[j] \notin tried' => At[items'[j]] <= At[items'[k]]
<1> USE DEF queueVars, worldVars, threadVars, flusherVars
<1>0. items \in Seq(Alerts) /\ held \in Alerts \cup {None} /\ tried \subseteq Alerts
  BY DEF TypeInv, TypeOK
<1>1. ASSUME UNCHANGED <<items, tried>> PROVE Goal
  BY <1>1 DEF Sorted
<1>2. ASSUME Sorted(items'), tried' = tried PROVE Goal
  BY <1>2 DEF Sorted
<1>3. ASSUME NEW a \in Alerts, Push(a) PROVE Goal
  <2>1. limit[a] \in Nat
    BY <1>3, ConstantsAssumption DEF Push, TypeInv, LimitsRead
  <2>2. InsertByTime(items, a) \in Seq(Alerts) /\ Sorted(InsertByTime(items, a))
    BY <1>0, InsertLemma, InsertSorted
  <2>3. Sorted(Kept(InsertByTime(items, a), limit[a]))
    BY <2>1, <2>2, TrimSorted
  <2>4. Sorted(items') /\ tried' = tried
    BY <1>3, <2>3 DEF Push
  <2> QED
    BY <1>2, <2>4
<1>4. ASSUME NEW r \in Requests, Trim(r) PROVE Goal
  <2>1. limit[r] \in Nat
    BY <1>4, ConstantsAssumption DEF Trim, TypeInv, LimitsRead
  <2>2. Sorted(items') /\ tried' = tried
    BY <1>0, <1>4, <2>1, TrimSorted DEF Trim
  <2> QED
    BY <1>2, <2>2
<1>5. CASE Pop
  <2> DEFINE t == Tail(items)
  <2>1. items # <<>> /\ items' = t /\ tried \subseteq tried'
    BY <1>5 DEF Pop
  <2>2. /\ DOMAIN items = 1 .. Len(items)
        /\ DOMAIN t = 1 .. Len(t)
        /\ Len(t) = Len(items) - 1
        /\ Len(items) \in Nat \ {0}
        /\ \A k \in 1 .. Len(t) : t[k] = items[k + 1]
    BY <1>0, <2>1
  <2> HIDE DEF t
  <2>3. \A k \in DOMAIN t : k + 1 \in DOMAIN items /\ t[k] = items[k + 1]
    BY <2>2
  <2>4. \A j, k \in DOMAIN t : j < k => j + 1 < k + 1
    BY <2>2
  <2> QED
    BY <2>1, <2>3, <2>4 DEF Sorted
<1>6. CASE Requeue
  <2> DEFINE t == <<held>> \o items
  <2>1. held \in Alerts /\ held # None
    BY <1>0, <1>6 DEF Requeue, TypeInv, HandOfFlusher
  <2>2. items' = t /\ tried' = tried /\ held \in tried
    BY <1>6, <2>1 DEF Requeue, Places
  <2>3. /\ DOMAIN t = 1 .. Len(items) + 1
        /\ DOMAIN items = 1 .. Len(items)
        /\ Len(items) \in Nat
        /\ t[1] = held
        /\ \A k \in 2 .. Len(items) + 1 : t[k] = items[k - 1]
    BY <1>0, <2>1
  <2> HIDE DEF t
  <2>4. \A k \in DOMAIN t : k # 1 => k - 1 \in DOMAIN items /\ t[k] = items[k - 1]
    BY <2>3
  <2>5. \A j, k \in DOMAIN t : j < k => j - 1 < k - 1 /\ k # 1
    BY <2>3
  <2> QED
    BY <2>2, <2>3, <2>4, <2>5 DEF Sorted
<1>7. ASSUME NEW mark, Settle(mark), items' = items PROVE Goal
  <2>1. tried' = tried \ {held}
    BY <1>7 DEF Settle
  <2>2. \A k \in DOMAIN items : items[k] # held
    BY DEF Places
  <2> QED
    BY <1>7, <2>1, <2>2 DEF Sorted
<1>8. CASE LookUp \/ Resent \/ GiveUp
  <2>1. items' = items
    BY <1>8 DEF LookUp, Resent, GiveUp
  <2>2. tried' = tried \/ \E mark : Settle(mark)
    BY <1>8 DEF LookUp, Resent, GiveUp
  <2> QED
    BY <1>1, <1>7, <2>1, <2>2
<1>9. ASSUME NEW a \in Alerts, Begin(a) \/ Deliver(a) \/ LoadLimit(a) \/ Signal(a) \/ LogQueued(a)
      PROVE  Goal
  BY <1>1, <1>9 DEF Begin, Deliver, LoadLimit, Signal, LogQueued
<1>10. ASSUME NEW r \in Requests, StoreLimit(r) \/ LogTrim(r)
      PROVE  Goal
  BY <1>1, <1>10 DEF StoreLimit, LogTrim
<1>11. CASE CheckEmpty \/ WorkArrives \/ BackoffEnds \/ Drained \/ Kick
            \/ (\E c \in Channels : EditChannel(c)) \/ UNCHANGED vars
  BY <1>1, <1>11 DEF CheckEmpty, WorkArrives, BackoffEnds, Drained, Kick, EditChannel, vars
<1> QED
  BY <1>3, <1>4, <1>5, <1>6, <1>8, <1>9, <1>10, <1>11
     DEF Next, NotifyTask, SettingsRequest, Flusher

-----------------------------------------------------------------------------
(* The theorems.                                                           *)

(* The queue, the limits that threads carry and the flusher's hand always  *)
(* have their types (retry.rs, pipeline.rs:469-638).                       *)
THEOREM TypeCorrect == Spec => []TypeOK
<1>1. Spec => []TypeInv
  BY TypeInit, TypeStep, PTL DEF Spec
<1>2. TypeInv => TypeOK
  BY DEF TypeInv
<1> QED
  BY <1>1, <1>2, PTL

(* run_retry never sleeps over a backlog without a permit to wake it, for  *)
(* any number of alerts and requests: pushing before notifying, and a      *)
(* Notify that keeps one permit, are enough.                               *)
THEOREM WakeupTheorem == Spec => []NoLostWakeup
<1>1. Init => NoLostWakeup
  BY DEF Init, NoLostWakeup
<1> QED
  BY <1>1, TypeInit, TypeStep, WakeupStep, PTL DEF Spec

(* With a limit set at all times, the backlog and the entry in the         *)
(* flusher's hand never exceed the largest limit by more than one.         *)
THEOREM BoundTheorem == Spec => []QueueBound
<1>1. Init => QueueBound
  BY ConstantsAssumption DEF Init, QueueBound
<1> QED
  BY <1>1, TypeInit, TypeStep, BoundStep, PTL DEF Spec

(* insert_by_time and requeue together keep the backlog in the order the   *)
(* alerts happened, but for entries the flusher has tried and put back.    *)
THEOREM OrderTheorem == Spec => []OrderedUnlessTried
<1>1. Init => OrderedUnlessTried
  BY DEF Init, OrderedUnlessTried
<1> QED
  BY <1>1, TypeInit, TypeStep, PlacesInit, PlacesStep, OrderStep, PTL DEF Spec

-----------------------------------------------------------------------------
(***************************************************************************)
(* One holder, the counter, and the ledger.  All three rest on Owned:      *)
(* which of the five places an alert is in, said place by place.  The      *)
(* steps are sorted by what they move (Rests, SplitsOff, Records, and the  *)
(* three of the flusher), so that the proof looks at a move once and not   *)
(* at every action that makes it.                                          *)
(***************************************************************************)
Distinct(q) == \A j, k \in DOMAIN q : j # k => q[j] # q[k]

(* What a thread has evicted and not logged is there between its push or   *)
(* trim and its log entry only.                                            *)
StepsInv ==
    /\ \A a \in Alerts : pc[a] \in TaskSteps
    /\ \A r \in Requests : pc[r] \in RequestSteps
    /\ \A t \in Threads : evicted[t] # <<>> => pc[t] \in {"pushed", "signalled", "trimmed"}

Taken(a, t) == a \in ToSet(evicted[t])

Owned ==
    /\ \A t \in Threads : Distinct(evicted[t])
    /\ \A t \in Threads : \A a \in ToSet(evicted[t]) :
          /\ pc[a] \in Enqueued /\ log[a] = <<>> /\ a # held /\ ~ InQueue(a)
          /\ \A u \in Threads : Taken(a, u) => u = t
    /\ \A a \in Alerts : log[a] # <<>> =>
          pc[a] \in Enqueued /\ Len(log[a]) = 1 /\ a # held /\ ~ InQueue(a)
    /\ \A a \in Alerts : pc[a] \in Enqueued =>
          InQueue(a) \/ held = a \/ log[a] # <<>> \/ \E t \in Threads : Taken(a, t)

-----------------------------------------------------------------------------
(* Sequences and their elements.                                           *)

LEMMA EvictSplits ==
    ASSUME NEW q \in Seq(Alerts), NEW max \in Nat, Distinct(q)
    PROVE  /\ ToSet(Kept(q, max)) \cup ToSet(Evicted(q, max)) = ToSet(q)
           /\ ToSet(Kept(q, max)) \cap ToSet(Evicted(q, max)) = {}
           /\ Distinct(Evicted(q, max))
<1> DEFINE n == OverLimit(q, max)
           kept == Kept(q, max)
           gone == Evicted(q, max)
<1>1. /\ n \in 0 .. Len(q)
      /\ kept \in Seq(Alerts) /\ Len(kept) = Len(q) - n
      /\ \A k \in 1 .. Len(kept) : kept[k] = q[k + n]
      /\ gone \in Seq(Alerts) /\ Len(gone) = n
      /\ \A k \in 1 .. n : gone[k] = q[k]
  BY EvictLemma
<1> HIDE DEF n, kept, gone
<1>2. /\ DOMAIN kept = 1 .. Len(q) - n /\ DOMAIN gone = 1 .. n /\ DOMAIN q = 1 .. Len(q)
      /\ Len(q) \in Nat /\ n \in Nat
  BY <1>1
<1>3. ToSet(kept) \subseteq ToSet(q) /\ ToSet(gone) \subseteq ToSet(q)
  <2>1. ASSUME NEW k \in 1 .. Len(q) - n PROVE kept[k] \in ToSet(q)
    <3>1. kept[k] = q[k + n] /\ k + n \in 1 .. Len(q)
      BY <1>1, <1>2
    <3> QED
      BY <1>2, <3>1 DEF ToSet
  <2>2. ASSUME NEW k \in 1 .. n PROVE gone[k] \in ToSet(q)
    <3>1. gone[k] = q[k] /\ k \in 1 .. Len(q)
      BY <1>1, <1>2
    <3> QED
      BY <1>2, <3>1 DEF ToSet
  <2> QED
    BY <1>2, <2>1, <2>2 DEF ToSet
<1>4. ToSet(q) \subseteq ToSet(kept) \cup ToSet(gone)
  <2> SUFFICES ASSUME NEW k \in 1 .. Len(q) PROVE q[k] \in ToSet(kept) \cup ToSet(gone)
    BY <1>2 DEF ToSet
  <2>1. CASE k <= n
    BY <1>1, <1>2, <2>1 DEF ToSet
  <2>2. CASE ~ (k <= n)
    <3>1. k - n \in 1 .. Len(q) - n /\ (k - n) + n = k
      BY <1>2, <2>2
    <3>2. kept[k - n] = q[k]
      BY <1>1, <1>2, <3>1
    <3> QED
      BY <1>2, <3>1, <3>2 DEF ToSet
  <2> QED
    BY <2>1, <2>2
<1>5. ASSUME NEW x \in ToSet(kept), x \in ToSet(gone) PROVE FALSE
  <2>1. PICK j \in 1 .. Len(q) - n : x = kept[j]
    BY <1>2 DEF ToSet
  <2>2. PICK k \in 1 .. n : x = gone[k]
    BY <1>2, <1>5 DEF ToSet
  <2>3. x = q[j + n] /\ x = q[k]
    BY <1>1, <1>2, <2>1, <2>2
  <2>4. j + n \in DOMAIN q /\ k \in DOMAIN q /\ j + n # k
    BY <1>1, <1>2
  <2> QED
    BY <2>3, <2>4 DEF Distinct
<1>6. Distinct(gone)
  <2> SUFFICES ASSUME NEW j \in 1 .. n, NEW k \in 1 .. n, j # k PROVE gone[j] # gone[k]
    BY <1>2 DEF Distinct
  <2>1. gone[j] = q[j] /\ gone[k] = q[k] /\ j \in DOMAIN q /\ k \in DOMAIN q
    BY <1>1, <1>2
  <2> QED
    BY <2>1 DEF Distinct
<1> QED
  BY <1>3, <1>4, <1>5, <1>6 DEF kept, gone

LEMMA InsertAdds ==
    ASSUME NEW q \in Seq(Alerts), NEW a \in Alerts
    PROVE  ToSet(InsertByTime(q, a)) = ToSet(q) \cup {a}
<1> DEFINE p == InsertPos(q, a)
           t == InsertByTime(q, a)
<1>1. /\ t \in Seq(Alerts) /\ Len(t) = Len(q) + 1
      /\ \A k \in 1 .. p : t[k] = q[k]
      /\ t[p + 1] = a
      /\ \A k \in (p + 2) .. (Len(q) + 1) : t[k] = q[k - 1]
  BY InsertLemma
<1>2. p \in 0 .. Len(q)
  BY InsertPosLemma
<1> HIDE DEF p, t
<1>3. /\ DOMAIN t = 1 .. Len(q) + 1 /\ DOMAIN q = 1 .. Len(q) /\ Len(q) \in Nat /\ p \in Nat
  BY <1>1, <1>2
<1>4. ASSUME NEW k \in 1 .. Len(q) + 1 PROVE t[k] \in ToSet(q) \cup {a}
  <2>1. CASE k \in 1 .. p
    BY <1>1, <1>2, <1>3, <2>1 DEF ToSet
  <2>2. CASE k = p + 1
    BY <1>1, <2>2
  <2>3. CASE k \in (p + 2) .. (Len(q) + 1)
    <3>1. t[k] = q[k - 1] /\ k - 1 \in 1 .. Len(q)
      BY <1>1, <1>2, <1>3, <2>3
    <3> QED
      BY <1>3, <3>1 DEF ToSet
  <2> QED
    BY <1>2, <1>3, <2>1, <2>2, <2>3
<1>5. ASSUME NEW k \in 1 .. Len(q) PROVE q[k] \in ToSet(t)
  <2>1. CASE k <= p
    BY <1>1, <1>2, <1>3, <2>1 DEF ToSet
  <2>2. CASE ~ (k <= p)
    <3>1. k + 1 \in (p + 2) .. (Len(q) + 1) /\ (k + 1) - 1 = k
      BY <1>2, <1>3, <2>2
    <3>2. t[k + 1] = q[k]
      BY <1>1, <3>1
    <3> QED
      BY <1>2, <1>3, <3>1, <3>2 DEF ToSet
  <2> QED
    BY <2>1, <2>2
<1>6. a \in ToSet(t)
  BY <1>1, <1>2, <1>3 DEF ToSet
<1> QED
  BY <1>3, <1>4, <1>5, <1>6 DEF ToSet, t

LEMMA HeadAndTail ==
    ASSUME NEW q \in Seq(Alerts), q # <<>>
    PROVE  /\ Head(q) \in Alerts /\ Tail(q) \in Seq(Alerts)
           /\ ToSet(q) = ToSet(Tail(q)) \cup {Head(q)}
<1>1. /\ Head(q) = q[1] /\ Len(q) \in Nat /\ Len(q) >= 1 /\ DOMAIN q = 1 .. Len(q)
      /\ Tail(q) \in Seq(Alerts) /\ DOMAIN Tail(q) = 1 .. Len(q) - 1
      /\ \A k \in 1 .. Len(q) - 1 : Tail(q)[k] = q[k + 1]
  OBVIOUS
<1>2. ASSUME NEW k \in 1 .. Len(q) PROVE q[k] = q[1] \/ q[k] \in ToSet(Tail(q))
  <2>1. CASE k # 1
    <3>1. k - 1 \in 1 .. Len(q) - 1 /\ (k - 1) + 1 = k
      BY <1>1, <2>1
    <3>2. Tail(q)[k - 1] = q[k]
      BY <1>1, <3>1
    <3> QED
      BY <1>1, <3>1, <3>2 DEF ToSet
  <2> QED
    BY <2>1
<1>3. ToSet(Tail(q)) \subseteq ToSet(q)
  BY <1>1 DEF ToSet
<1> QED
  BY <1>1, <1>2, <1>3 DEF ToSet

LEMMA FrontAdds ==
    ASSUME NEW q \in Seq(Alerts), NEW a \in Alerts
    PROVE  ToSet(<<a>> \o q) = ToSet(q) \cup {a}
<1>1. /\ Len(q) \in Nat /\ DOMAIN q = 1 .. Len(q) /\ DOMAIN (<<a>> \o q) = 1 .. Len(q) + 1
      /\ (<<a>> \o q)[1] = a
      /\ \A k \in 2 .. Len(q) + 1 : (<<a>> \o q)[k] = q[k - 1]
  OBVIOUS
<1> DEFINE t == <<a>> \o q
<1> HIDE DEF t
<1>2. ASSUME NEW k \in 1 .. Len(q) PROVE q[k] \in ToSet(t)
  <2>1. k + 1 \in 2 .. Len(q) + 1 /\ (k + 1) - 1 = k /\ k + 1 \in 1 .. Len(q) + 1
    BY <1>1
  <2>2. t[k + 1] = q[k] /\ k + 1 \in DOMAIN t
    BY <1>1, <2>1 DEF t
  <2> QED
    BY <2>2 DEF ToSet
<1>3. ASSUME NEW k \in 1 .. Len(q) + 1 PROVE t[k] = a \/ t[k] \in ToSet(q)
  <2>1. k = 1 \/ (k \in 2 .. Len(q) + 1 /\ k - 1 \in 1 .. Len(q))
    BY <1>1
  <2> QED
    BY <1>1, <2>1 DEF ToSet, t
<1>4. a \in ToSet(t)
  BY <1>1 DEF ToSet, t
<1> QED
  BY <1>1, <1>2, <1>3, <1>4 DEF ToSet, t

-----------------------------------------------------------------------------
(* The moves.                                                              *)

SameTasks == \A b \in Alerts : pc'[b] \in Enqueued <=> pc[b] \in Enqueued

Rests == UNCHANGED <<items, held, evicted, log>> /\ SameTasks

(* A push (N is the new alert) or a trim splits what the limit leaves.     *)
SplitsOff(t, N, kept, gone) ==
    /\ evicted[t] = <<>>
    /\ items' = kept
    /\ evicted' = [evicted EXCEPT ![t] = gone]
    /\ UNCHANGED <<held, log>>
    /\ \A b \in N : b \in Alerts /\ pc[b] \notin Enqueued
    /\ \A b \in Alerts : pc'[b] \in Enqueued <=> pc[b] \in Enqueued \/ b \in N
    /\ ToSet(kept) \cup ToSet(gone) = ToSet(items) \cup N
    /\ ToSet(kept) \cap ToSet(gone) = {}
    /\ Distinct(gone)

Records(t) ==
    /\ log' = MarkEvicted(ToSet(evicted[t]))
    /\ evicted' = [evicted EXCEPT ![t] = <<>>]
    /\ UNCHANGED <<items, held>>
    /\ SameTasks

Pops ==
    /\ items # <<>>
    /\ held' = Head(items)
    /\ items' = Tail(items)
    /\ UNCHANGED <<evicted, log, pc>>

PutsBack ==
    /\ held \in Alerts
    /\ items' = <<held>> \o items
    /\ held' = None
    /\ UNCHANGED <<evicted, log, pc>>

Settles(mark) ==
    /\ held \in Alerts
    /\ log' = [log EXCEPT ![held] = Append(@, mark)]
    /\ held' = None
    /\ UNCHANGED <<items, evicted, pc>>

LEMMA Types ==
    ASSUME TypeInv
    PROVE  /\ items \in Seq(Alerts) /\ ToSet(items) \subseteq Alerts
           /\ evicted \in [Threads -> Seq(Alerts)]
           /\ \A t \in Threads : ToSet(evicted[t]) \subseteq Alerts
           /\ log \in [Alerts -> Seq(Marks)]
           /\ held \in Alerts \cup {None} /\ None \notin Alerts
           /\ Alerts \subseteq Threads /\ Requests \subseteq Threads
<1>1. /\ items \in Seq(Alerts) /\ evicted \in [Threads -> Seq(Alerts)]
      /\ log \in [Alerts -> Seq(Marks)] /\ held \in Alerts \cup {None}
  BY DEF TypeInv, TypeOK
<1>2. ToSet(items) \subseteq Alerts
  BY <1>1 DEF ToSet
<1>3. ASSUME NEW t \in Threads PROVE ToSet(evicted[t]) \subseteq Alerts
  <2>1. evicted[t] \in Seq(Alerts)
    BY <1>1
  <2> QED
    BY <2>1 DEF ToSet
<1> QED
  BY <1>1, <1>2, <1>3, ConstantsAssumption DEF Threads

LEMMA RestsOwned == TypeInv /\ Owned /\ Rests => Owned'
<1> SUFFICES ASSUME TypeInv, Owned, Rests PROVE Owned'
  OBVIOUS
<1>1. \A t \in Threads : ToSet(evicted[t]) \subseteq Alerts
  BY Types
<1> QED
  BY <1>1 DEF Owned, Rests, SameTasks, Taken, InQueue

LEMMA SplitsOwned ==
    ASSUME TypeInv, Places, Owned, NEW t \in Threads, NEW N, NEW kept, NEW gone,
           SplitsOff(t, N, kept, gone)
    PROVE  Owned'
<1>1. /\ evicted \in [Threads -> Seq(Alerts)]
      /\ \A u \in Threads : ToSet(evicted[u]) \subseteq Alerts
      /\ ToSet(items) \subseteq Alerts
  BY Types
<1>2. \A u \in Threads : evicted'[u] = IF u = t THEN gone ELSE evicted[u]
  BY <1>1 DEF SplitsOff
<1>3. ToSet(evicted[t]) = {}
  BY DEF SplitsOff, ToSet
<1>4. \A b \in ToSet(items) : pc[b] \in Enqueued /\ b # held
  BY DEF Places, ToSet
(* An alert that is evicted now was in the queue or is the new one.        *)
<1>5. ASSUME NEW a \in ToSet(gone)
      PROVE  /\ a \in Alerts /\ pc'[a] \in Enqueued /\ log[a] = <<>> /\ a # held
             /\ a \notin ToSet(kept) /\ \A u \in Threads : ~ Taken(a, u)
  <2>1. a \in ToSet(items) \/ a \in N
    BY <1>5 DEF SplitsOff
  <2>2. a \in Alerts /\ a \notin ToSet(kept)
    BY <1>1, <1>5, <2>1 DEF SplitsOff
  <2>3. CASE a \in ToSet(items)
    BY <1>1, <1>4, <2>2, <2>3 DEF SplitsOff, Owned, InQueue, Taken
  <2>4. CASE a \in N
    <3>1. pc[a] \notin Enqueued
      BY <2>4 DEF SplitsOff
    <3>2. a # held
      BY <2>2, <3>1, ConstantsAssumption DEF Places
    <3> QED
      BY <1>1, <2>2, <2>4, <3>1, <3>2 DEF SplitsOff, Owned, Taken
  <2> QED
    BY <2>1, <2>3, <2>4
<1>6. \A u \in Threads : Distinct(evicted'[u])
  BY <1>2 DEF SplitsOff, Owned
<1>7. ASSUME NEW u \in Threads, NEW a \in ToSet(evicted'[u])
      PROVE  /\ pc'[a] \in Enqueued /\ log'[a] = <<>> /\ a # held' /\ a \notin ToSet(items')
             /\ \A v \in Threads : a \in ToSet(evicted'[v]) => v = u
  <2>1. CASE u = t
    BY <1>2, <1>5, <1>7, <2>1 DEF SplitsOff, Taken
  <2>2. CASE u # t
    <3>1. a \in ToSet(evicted[u]) /\ a \in Alerts
      BY <1>1, <1>2, <1>7, <2>2
    <3>2. /\ pc[a] \in Enqueued /\ log[a] = <<>> /\ a # held /\ a \notin ToSet(items)
          /\ \A v \in Threads : a \in ToSet(evicted[v]) => v = u
      BY <3>1 DEF Owned, Taken, InQueue
    <3>3. a \notin N
      BY <3>2 DEF SplitsOff
    <3>4. a \notin ToSet(kept) /\ a \notin ToSet(gone)
      BY <3>2, <3>3 DEF SplitsOff
    <3> QED
      BY <1>2, <3>1, <3>2, <3>4 DEF SplitsOff
  <2> QED
    BY <2>1, <2>2
<1>8. ASSUME NEW a \in Alerts, log'[a] # <<>>
      PROVE  pc'[a] \in Enqueued /\ Len(log'[a]) = 1 /\ a # held' /\ a \notin ToSet(items')
  <2>1. pc[a] \in Enqueued /\ Len(log[a]) = 1 /\ a # held /\ a \notin ToSet(items)
    BY <1>8 DEF SplitsOff, Owned, InQueue
  <2>2. a \notin N
    BY <2>1 DEF SplitsOff
  <2> QED
    BY <2>1, <2>2 DEF SplitsOff
<1>9. ASSUME NEW a \in Alerts, pc'[a] \in Enqueued
      PROVE  \/ a \in ToSet(items') \/ held' = a \/ log'[a] # <<>>
             \/ \E u \in Threads : a \in ToSet(evicted'[u])
  <2>1. pc[a] \in Enqueued \/ a \in N
    BY <1>9 DEF SplitsOff
  <2>2. CASE a \in ToSet(items) \cup N
    <3>1. a \in ToSet(items') \/ a \in ToSet(evicted'[t])
      BY <1>2, <2>2 DEF SplitsOff
    <3> QED
      BY <3>1
  <2>3. CASE a \notin ToSet(items) \cup N
    <3>1. \/ held = a \/ log[a] # <<>> \/ \E u \in Threads : a \in ToSet(evicted[u])
      BY <2>1, <2>3 DEF Owned, InQueue, Taken
    <3>2. \A u \in Threads : a \in ToSet(evicted[u]) => a \in ToSet(evicted'[u])
      BY <1>2, <1>3
    <3> QED
      BY <3>1, <3>2 DEF SplitsOff
  <2> QED
    BY <2>2, <2>3
<1> QED
  BY <1>6, <1>7, <1>8, <1>9 DEF Owned, Taken, InQueue

LEMMA RecordsOwned ==
    ASSUME TypeInv, Owned, NEW t \in Threads, Records(t)
    PROVE  Owned'
<1>1. /\ evicted \in [Threads -> Seq(Alerts)] /\ log \in [Alerts -> Seq(Marks)]
      /\ \A u \in Threads : ToSet(evicted[u]) \subseteq Alerts
  BY Types
<1>2. \A u \in Threads : evicted'[u] = IF u = t THEN <<>> ELSE evicted[u]
  BY <1>1 DEF Records
<1>3. \A b \in Alerts : log'[b] = IF Taken(b, t) THEN Append(log[b], "evicted") ELSE log[b]
  BY DEF Records, MarkEvicted, Taken
<1>4. \A b \in Alerts : Taken(b, t) => log[b] = <<>> /\ log'[b] = <<"evicted">>
  <2>1. \A b \in Alerts : Taken(b, t) => log[b] = <<>>
    BY DEF Owned, Taken
  <2>2. Append(<<>>, "evicted") = <<"evicted">>
    OBVIOUS
  <2> QED
    BY <1>3, <2>1, <2>2
<1>5. ToSet(<<>>) = {}
  BY DEF ToSet
<1>6. \A u \in Threads : Distinct(evicted'[u])
  BY <1>2 DEF Owned, Distinct
<1>7. ASSUME NEW u \in Threads, NEW a \in ToSet(evicted'[u])
      PROVE  /\ pc'[a] \in Enqueued /\ log'[a] = <<>> /\ a # held' /\ a \notin ToSet(items')
             /\ \A v \in Threads : a \in ToSet(evicted'[v]) => v = u
  <2>1. u # t /\ a \in ToSet(evicted[u]) /\ a \in Alerts
    BY <1>1, <1>2, <1>5, <1>7
  <2>2. /\ pc[a] \in Enqueued /\ log[a] = <<>> /\ a # held /\ a \notin ToSet(items)
        /\ \A v \in Threads : a \in ToSet(evicted[v]) => v = u
    BY <2>1 DEF Owned, Taken, InQueue
  <2>3. ~ Taken(a, t)
    BY <2>1, <2>2 DEF Taken
  <2> QED
    BY <1>2, <1>3, <1>5, <2>1, <2>2, <2>3 DEF Records, SameTasks
<1>8. ASSUME NEW a \in Alerts, log'[a] # <<>>
      PROVE  pc'[a] \in Enqueued /\ Len(log'[a]) = 1 /\ a # held' /\ a \notin ToSet(items')
  <2>1. CASE Taken(a, t)
    <3>1. pc[a] \in Enqueued /\ a # held /\ a \notin ToSet(items)
      BY <2>1 DEF Owned, Taken, InQueue
    <3>2. Len(log'[a]) = 1
      <4>1. log'[a] = <<"evicted">> /\ Len(<<"evicted">>) = 1
        BY <1>4, <2>1
      <4> QED
        BY <4>1
    <3> QED
      BY <3>1, <3>2 DEF Records, SameTasks
  <2>2. CASE ~ Taken(a, t)
    BY <1>3, <1>8, <2>2 DEF Owned, InQueue, Records, SameTasks
  <2> QED
    BY <2>1, <2>2
<1>9. ASSUME NEW a \in Alerts, pc'[a] \in Enqueued
      PROVE  \/ a \in ToSet(items') \/ held' = a \/ log'[a] # <<>>
             \/ \E u \in Threads : a \in ToSet(evicted'[u])
  <2>1. \/ a \in ToSet(items) \/ held = a \/ log[a] # <<>>
        \/ \E u \in Threads : a \in ToSet(evicted[u])
    BY <1>9 DEF Owned, InQueue, Taken, Records, SameTasks
  <2>2. CASE Taken(a, t)
    BY <1>4, <2>2
  <2>3. CASE ~ Taken(a, t)
    BY <1>2, <1>3, <2>1, <2>3 DEF Records, Taken
  <2> QED
    BY <2>2, <2>3
<1> QED
  BY <1>6, <1>7, <1>8, <1>9 DEF Owned, Taken, InQueue

LEMMA PopsOwned == TypeInv /\ Places /\ Owned /\ held = None /\ Pops => Owned'
<1> SUFFICES ASSUME TypeInv, Places, Owned, held = None, Pops PROVE Owned'
  OBVIOUS
<1>1. /\ items \in Seq(Alerts) /\ items # <<>>
      /\ \A u \in Threads : ToSet(evicted[u]) \subseteq Alerts
  BY Types DEF Pops
<1>2. /\ held' \in Alerts /\ items' \in Seq(Alerts)
      /\ ToSet(items) = ToSet(items') \cup {held'}
  BY <1>1, HeadAndTail DEF Pops
<1>3. /\ UNCHANGED <<evicted, log, pc>>
      /\ None \notin Alerts
  BY ConstantsAssumption DEF Pops
<1>4. \A t \in Threads : \A a \in ToSet(evicted[t]) :
         /\ pc[a] \in Enqueued /\ log[a] = <<>> /\ a # held' /\ a \notin ToSet(items')
         /\ \A u \in Threads : Taken(a, u) => u = t
  BY <1>2 DEF Owned, InQueue
<1>5. \A a \in Alerts : log[a] # <<>> =>
         pc[a] \in Enqueued /\ Len(log[a]) = 1 /\ a # held' /\ a \notin ToSet(items')
  BY <1>2 DEF Owned, InQueue
<1>6. \A a \in Alerts : pc[a] \in Enqueued =>
         a \in ToSet(items') \/ held' = a \/ log[a] # <<>> \/ \E t \in Threads : Taken(a, t)
  BY <1>2, <1>3 DEF Owned, InQueue
<1> QED
  BY <1>3, <1>4, <1>5, <1>6 DEF Owned, Taken, InQueue

LEMMA PutsBackOwned == TypeInv /\ Places /\ Owned /\ PutsBack => Owned'
<1> SUFFICES ASSUME TypeInv, Places, Owned, PutsBack PROVE Owned'
  OBVIOUS
<1>1. /\ items \in Seq(Alerts) /\ held \in Alerts /\ None \notin Alerts
      /\ \A u \in Threads : ToSet(evicted[u]) \subseteq Alerts
  BY Types DEF PutsBack
<1>2. ToSet(items') = ToSet(items) \cup {held} /\ held' = None /\ UNCHANGED <<evicted, log, pc>>
  BY <1>1, FrontAdds DEF PutsBack
<1>3. \A t \in Threads : \A a \in ToSet(evicted[t]) :
         /\ pc[a] \in Enqueued /\ log[a] = <<>> /\ a # held' /\ a \notin ToSet(items')
         /\ \A u \in Threads : Taken(a, u) => u = t
  BY <1>1, <1>2 DEF Owned, InQueue
<1>4. \A a \in Alerts : log[a] # <<>> =>
         pc[a] \in Enqueued /\ Len(log[a]) = 1 /\ a # held' /\ a \notin ToSet(items')
  BY <1>1, <1>2 DEF Owned, InQueue
<1>5. \A a \in Alerts : pc[a] \in Enqueued =>
         a \in ToSet(items') \/ held' = a \/ log[a] # <<>> \/ \E t \in Threads : Taken(a, t)
  BY <1>2 DEF Owned, InQueue
<1> QED
  BY <1>2, <1>3, <1>4, <1>5 DEF Owned, Taken, InQueue

LEMMA SettlesOwned ==
    ASSUME TypeInv, Places, Owned, NEW mark, Settles(mark)
    PROVE  Owned'
<1>1. /\ held \in Alerts /\ held' = None /\ None \notin Alerts
      /\ log \in [Alerts -> Seq(Marks)] /\ UNCHANGED <<items, evicted, pc>>
      /\ \A u \in Threads : ToSet(evicted[u]) \subseteq Alerts
  BY Types DEF Settles
<1>2. log[held] = <<>>
  BY <1>1 DEF Owned
<1>3. \A b \in Alerts : log'[b] = IF b = held THEN <<mark>> ELSE log[b]
  <2>1. Append(<<>>, mark) = <<mark>>
    OBVIOUS
  <2> QED
    BY <1>1, <1>2, <2>1 DEF Settles
<1>4. held \notin ToSet(items) /\ pc[held] \in Enqueued
  BY <1>1 DEF Places, ToSet
<1>5. \A t \in Threads : \A a \in ToSet(evicted[t]) :
         /\ pc[a] \in Enqueued /\ log'[a] = <<>> /\ a # held' /\ ~ InQueue(a)
         /\ \A u \in Threads : Taken(a, u) => u = t
  BY <1>1, <1>3 DEF Owned
<1>6. ASSUME NEW a \in Alerts, log'[a] # <<>>
      PROVE  pc[a] \in Enqueued /\ Len(log'[a]) = 1 /\ a # held' /\ ~ InQueue(a)
  <2>1. CASE a = held
    <3>1. Len(<<mark>>) = 1
      OBVIOUS
    <3> QED
      BY <1>1, <1>3, <1>4, <2>1, <3>1 DEF InQueue
  <2>2. CASE a # held
    BY <1>1, <1>3, <1>6, <2>2 DEF Owned
  <2> QED
    BY <2>1, <2>2
<1>7. ASSUME NEW a \in Alerts, pc[a] \in Enqueued
      PROVE  InQueue(a) \/ log'[a] # <<>> \/ \E t \in Threads : Taken(a, t)
  <2>1. <<mark>> # <<>>
    OBVIOUS
  <2> QED
    BY <1>3, <1>7, <2>1 DEF Owned
<1>8. \A t \in Threads : Distinct(evicted[t])
  BY DEF Owned
<1> QED
  BY <1>1, <1>5, <1>6, <1>7, <1>8 DEF Owned, Taken, InQueue

-----------------------------------------------------------------------------
(* Which action makes which move.                                          *)

LEMMA PushSplits ==
    ASSUME TypeInv, Places, StepsInv, NEW a \in Alerts, Push(a)
    PROVE  /\ SplitsOff(a, {a}, Kept(InsertByTime(items, a), limit[a]),
                                Evicted(InsertByTime(items, a), limit[a]))
           /\ limit[a] \in Nat /\ limit[a] # None
<1> DEFINE q == InsertByTime(items, a)
<1>1. /\ items \in Seq(Alerts) /\ evicted \in [Threads -> Seq(Alerts)] /\ a \in Threads
      /\ pc \in [Threads -> TaskSteps \cup RequestSteps] /\ Alerts \subseteq Threads
  BY Types DEF TypeInv, TypeOK
<1>2. pc[a] = "loaded" /\ pc' = [pc EXCEPT ![a] = "pushed"]
  BY DEF Push, Goto
<1>3. limit[a] \in Nat /\ limit[a] # None /\ evicted[a] = <<>>
  BY <1>1, <1>2, ConstantsAssumption DEF TypeInv, LimitsRead, StepsInv
<1>4. pc[a] \notin Enqueued
  BY <1>2 DEF Enqueued
<1>5. q \in Seq(Alerts) /\ ToSet(q) = ToSet(items) \cup {a}
  BY <1>1, InsertLemma, InsertAdds
<1>6. Distinct(q)
  BY <1>4, InsertApart DEF Apart, Distinct
<1> HIDE DEF q
<1> DEFINE kept == Kept(q, limit[a])
           gone == Evicted(q, limit[a])
<1>7. /\ ToSet(kept) \cup ToSet(gone) = ToSet(items) \cup {a}
      /\ ToSet(kept) \cap ToSet(gone) = {} /\ Distinct(gone)
  BY <1>3, <1>5, <1>6, EvictSplits
<1>8. items' = kept /\ evicted' = [evicted EXCEPT ![a] = gone] /\ UNCHANGED <<held, log>>
  BY DEF Push, q, flusherVars
<1> HIDE DEF kept, gone
<1>9. \A b \in Alerts : pc'[b] \in Enqueued <=> pc[b] \in Enqueued \/ b \in {a}
  BY <1>1, <1>2 DEF Enqueued
<1>10. SplitsOff(a, {a}, kept, gone)
  BY <1>3, <1>4, <1>7, <1>8, <1>9 DEF SplitsOff
<1> QED
  BY <1>3, <1>10 DEF kept, gone, q

LEMMA TrimSplits ==
    ASSUME TypeInv, Places, StepsInv, NEW r \in Requests, Trim(r)
    PROVE  /\ SplitsOff(r, {}, Kept(items, limit[r]), Evicted(items, limit[r]))
           /\ limit[r] \in Nat /\ limit[r] # None
<1>1. /\ items \in Seq(Alerts) /\ evicted \in [Threads -> Seq(Alerts)] /\ r \in Threads
      /\ pc \in [Threads -> TaskSteps \cup RequestSteps] /\ Alerts \subseteq Threads
      /\ r \notin Alerts
  BY Types, ConstantsAssumption DEF TypeInv, TypeOK
<1>2. pc[r] = "stored" /\ pc' = [pc EXCEPT ![r] = "trimmed"]
  BY DEF Trim, Goto
<1>3. limit[r] \in Nat /\ limit[r] # None /\ evicted[r] = <<>>
  BY <1>1, <1>2, ConstantsAssumption DEF TypeInv, LimitsRead, StepsInv
<1>4. Distinct(items)
  BY DEF Places, Distinct
<1> DEFINE kept == Kept(items, limit[r])
           gone == Evicted(items, limit[r])
<1>5. /\ ToSet(kept) \cup ToSet(gone) = ToSet(items)
      /\ ToSet(kept) \cap ToSet(gone) = {} /\ Distinct(gone)
  BY <1>1, <1>3, <1>4, EvictSplits
<1>6. items' = kept /\ evicted' = [evicted EXCEPT ![r] = gone] /\ UNCHANGED <<held, log>>
  BY DEF Trim, flusherVars
<1> HIDE DEF kept, gone
<1>7. \A b \in Alerts : pc'[b] = pc[b]
  BY <1>1, <1>2
<1>8. SplitsOff(r, {}, kept, gone)
  BY <1>3, <1>5, <1>6, <1>7 DEF SplitsOff
<1> QED
  BY <1>3, <1>8 DEF kept, gone

LEMMA LogRecords ==
    ASSUME TypeInv
    PROVE  /\ \A a \in Alerts : LogQueued(a) => Records(a)
           /\ \A r \in Requests : LogTrim(r) => Records(r)
<1>1. /\ pc \in [Threads -> TaskSteps \cup RequestSteps] /\ Alerts \subseteq Threads
      /\ \A r \in Requests : r \notin Alerts
  BY Types, ConstantsAssumption DEF TypeInv, TypeOK
<1>2. ASSUME NEW a \in Alerts, LogQueued(a) PROVE Records(a)
  <2>1. \A b \in Alerts : pc'[b] \in Enqueued <=> pc[b] \in Enqueued
    BY <1>1, <1>2 DEF LogQueued, Goto, Enqueued
  <2> QED
    BY <1>2, <2>1 DEF LogQueued, Records, SameTasks, queueVars, flusherVars
<1>3. ASSUME NEW r \in Requests, LogTrim(r) PROVE Records(r)
  <2>1. \A b \in Alerts : pc'[b] = pc[b]
    BY <1>1, <1>3 DEF LogTrim, Goto
  <2> QED
    BY <1>3, <2>1 DEF LogTrim, Records, SameTasks, flusherVars
<1> QED
  BY <1>2, <1>3

Quiet ==
    \/ \E a \in Alerts : Begin(a) \/ Deliver(a) \/ LoadLimit(a) \/ Signal(a)
    \/ \E r \in Requests : StoreLimit(r)
    \/ \E c \in Channels : EditChannel(c)
    \/ Kick \/ CheckEmpty \/ WorkArrives \/ BackoffEnds \/ Drained
    \/ LookUp /\ Usable(held)
    \/ UNCHANGED vars

LEMMA QuietRests == TypeInv /\ Quiet => Rests
<1> SUFFICES ASSUME TypeInv, Quiet PROVE Rests
  OBVIOUS
<1>1. /\ pc \in [Threads -> TaskSteps \cup RequestSteps] /\ Alerts \subseteq Threads
      /\ \A r \in Requests : r \notin Alerts
  BY Types, ConstantsAssumption DEF TypeInv, TypeOK
<1>2. UNCHANGED <<items, held, evicted, log>>
  BY DEF Quiet, Begin, Deliver, LoadLimit, Signal, StoreLimit, EditChannel, Kick, CheckEmpty,
     WorkArrives, BackoffEnds, Drained, LookUp, vars, queueVars, worldVars, threadVars, flusherVars
<1>3. ASSUME NEW a \in Alerts, Begin(a) \/ Deliver(a) \/ LoadLimit(a) \/ Signal(a)
      PROVE  SameTasks
  <2>1. PICK step : pc' = [pc EXCEPT ![a] = step] /\ (step \in Enqueued <=> pc[a] \in Enqueued)
    <3>1. CASE Begin(a)
      <4> DEFINE step == IF Usable(a) THEN "sending" ELSE "skipped"
      <4>1. pc' = [pc EXCEPT ![a] = step] /\ pc[a] = "new"
        BY <3>1 DEF Begin, Goto
      <4>2. step \notin Enqueued /\ "new" \notin Enqueued
        BY DEF Enqueued
      <4> HIDE DEF step
      <4> QED
        BY <4>1, <4>2
    <3>2. CASE Deliver(a)
      BY <3>2 DEF Deliver, Goto, Enqueued, AfterFailure
    <3>3. CASE LoadLimit(a) \/ Signal(a)
      BY <3>3 DEF LoadLimit, Signal, Goto, Enqueued
    <3> QED
      BY <1>3, <3>1, <3>2, <3>3
  <2> QED
    BY <1>1, <2>1 DEF SameTasks
<1>4. ASSUME NEW r \in Requests, StoreLimit(r) PROVE SameTasks
  BY <1>1, <1>4 DEF StoreLimit, Goto, SameTasks
<1>5. ASSUME UNCHANGED pc PROVE SameTasks
  <2>1. \A b \in Alerts : pc'[b] = pc[b]
    BY <1>5
  <2> QED
    BY <2>1 DEF SameTasks
<1>6. \/ \E a \in Alerts : Begin(a) \/ Deliver(a) \/ LoadLimit(a) \/ Signal(a)
      \/ \E r \in Requests : StoreLimit(r)
      \/ UNCHANGED pc
  BY DEF Quiet, EditChannel, Kick, CheckEmpty, WorkArrives, BackoffEnds, Drained, LookUp, vars,
     threadVars
<1> QED
  BY <1>2, <1>3, <1>4, <1>5, <1>6 DEF Rests

LEMMA FlusherMoves ==
    ASSUME TypeInv
    PROVE  /\ Pop => held = None /\ Pops
           /\ Requeue => PutsBack
           /\ LookUp /\ ~ Usable(held) => Settles("gaveUp")
           /\ GiveUp => Settles("gaveUp")
           /\ Resent => Settles("resent")
<1>1. flusher \in {"lookup", "sending"} => held \in Alerts
  BY DEF TypeInv, TypeOK, HandOfFlusher
<1>2. flusher = "pop" => held = None
  BY DEF TypeInv, HandOfFlusher
<1> QED
  BY <1>1, <1>2 DEF Pop, Requeue, LookUp, GiveUp, Resent, Settle, Pops, PutsBack, Settles,
     threadVars, queueVars

LEMMA Steps ==
    ASSUME [Next]_vars
    PROVE  \/ Quiet
           \/ \E a \in Alerts : Push(a) \/ LogQueued(a)
           \/ \E r \in Requests : Trim(r) \/ LogTrim(r)
           \/ Pop \/ Requeue \/ GiveUp \/ Resent \/ (LookUp /\ ~ Usable(held))
BY DEF Next, NotifyTask, SettingsRequest, Flusher, Quiet

LEMMA OwnedStep == TypeInv /\ Places /\ StepsInv /\ Owned /\ [Next]_vars => Owned'
<1> SUFFICES ASSUME TypeInv, Places, StepsInv, Owned, [Next]_vars PROVE Owned'
  OBVIOUS
<1>1. Alerts \subseteq Threads /\ Requests \subseteq Threads
  BY DEF Threads
<1>2. CASE Quiet
  BY <1>2, QuietRests, RestsOwned
<1>3. ASSUME NEW a \in Alerts, Push(a) PROVE Owned'
  BY <1>1, <1>3, PushSplits, SplitsOwned
<1>4. ASSUME NEW r \in Requests, Trim(r) PROVE Owned'
  BY <1>1, <1>4, TrimSplits, SplitsOwned
<1>5. ASSUME NEW a \in Alerts, LogQueued(a) PROVE Owned'
  BY <1>1, <1>5, LogRecords, RecordsOwned
<1>6. ASSUME NEW r \in Requests, LogTrim(r) PROVE Owned'
  BY <1>1, <1>6, LogRecords, RecordsOwned
<1>7. CASE Pop
  BY <1>7, FlusherMoves, PopsOwned
<1>8. CASE Requeue
  BY <1>8, FlusherMoves, PutsBackOwned
<1>9. CASE GiveUp \/ Resent \/ (LookUp /\ ~ Usable(held))
  BY <1>9, FlusherMoves, SettlesOwned
<1> QED
  BY <1>2, <1>3, <1>4, <1>5, <1>6, <1>7, <1>8, <1>9, Steps

-----------------------------------------------------------------------------
(* Where the threads stand.                                                *)

LEMMA StepsInit == Init => StepsInv
BY ConstantsAssumption DEF Init, StepsInv, Threads, TaskSteps, RequestSteps

LEMMA Advance ==
    ASSUME TypeInv, StepsInv, NEW t \in Threads, NEW step,
           pc' = [pc EXCEPT ![t] = step],
           \A u \in Threads \ {t} : evicted'[u] = evicted[u],
           t \in Alerts => step \in TaskSteps,
           t \in Requests => step \in RequestSteps,
           evicted'[t] # <<>> => step \in {"pushed", "signalled", "trimmed"}
    PROVE  StepsInv'
<1>1. /\ pc \in [Threads -> TaskSteps \cup RequestSteps]
      /\ Alerts \subseteq Threads /\ Requests \subseteq Threads
  BY Types DEF TypeInv, TypeOK
<1>2. \A u \in Threads : pc'[u] = IF u = t THEN step ELSE pc[u]
  BY <1>1
<1>3. \A a \in Alerts : pc'[a] \in TaskSteps
  BY <1>1, <1>2 DEF StepsInv
<1>4. \A r \in Requests : pc'[r] \in RequestSteps
  BY <1>1, <1>2 DEF StepsInv
<1>5. \A u \in Threads : evicted'[u] # <<>> => pc'[u] \in {"pushed", "signalled", "trimmed"}
  BY <1>1, <1>2 DEF StepsInv
<1> QED
  BY <1>3, <1>4, <1>5 DEF StepsInv

LEMMA StepsStep == TypeInv /\ StepsInv /\ [Next]_vars => StepsInv'
<1> SUFFICES ASSUME TypeInv, StepsInv, [Next]_vars PROVE StepsInv'
  OBVIOUS
<1>1. /\ evicted \in [Threads -> Seq(Alerts)]
      /\ Alerts \subseteq Threads /\ Requests \subseteq Threads
      /\ \A r \in Requests : r \notin Alerts
  BY Types, ConstantsAssumption
<1>2. ASSUME NEW a \in Alerts, Begin(a) \/ Deliver(a) \/ LoadLimit(a) PROVE StepsInv'
  <2>1. pc[a] \in {"new", "sending", "failed"} /\ UNCHANGED evicted
    BY <1>2 DEF Begin, Deliver, LoadLimit
  <2>2. evicted[a] = <<>>
    BY <1>1, <2>1 DEF StepsInv
  <2>3. \E step \in TaskSteps : pc' = [pc EXCEPT ![a] = step]
    <3>1. CASE Begin(a)
      <4> DEFINE step == IF Usable(a) THEN "sending" ELSE "skipped"
      <4>1. pc' = [pc EXCEPT ![a] = step] /\ step \in TaskSteps
        BY <3>1 DEF Begin, Goto, TaskSteps
      <4> HIDE DEF step
      <4> QED
        BY <4>1
    <3>2. CASE Deliver(a)
      BY <3>2 DEF Deliver, Goto, AfterFailure, TaskSteps
    <3>3. CASE LoadLimit(a)
      BY <3>3 DEF LoadLimit, Goto, TaskSteps
    <3> QED
      BY <1>2, <3>1, <3>2, <3>3
  <2>4. PICK step \in TaskSteps : pc' = [pc EXCEPT ![a] = step]
    BY <2>3
  <2> QED
    BY <1>1, <2>1, <2>2, <2>4, Advance
<1>3. ASSUME NEW a \in Alerts, Push(a) PROVE StepsInv'
  <2>1. pc' = [pc EXCEPT ![a] = "pushed"]
    BY <1>3 DEF Push, Goto
  <2>2. \A u \in Threads \ {a} : evicted'[u] = evicted[u]
    BY <1>1, <1>3 DEF Push
  <2>3. "pushed" \in TaskSteps
    BY DEF TaskSteps
  <2> QED
    BY <1>1, <2>1, <2>2, <2>3, Advance
<1>4. ASSUME NEW a \in Alerts, Signal(a) PROVE StepsInv'
  <2>1. pc' = [pc EXCEPT ![a] = "signalled"] /\ UNCHANGED evicted /\ "signalled" \in TaskSteps
    BY <1>4 DEF Signal, Goto, TaskSteps
  <2> QED
    BY <1>1, <2>1, Advance
<1>5. ASSUME NEW a \in Alerts, LogQueued(a) PROVE StepsInv'
  <2>1. pc' = [pc EXCEPT ![a] = "queued"] /\ "queued" \in TaskSteps
    BY <1>5 DEF LogQueued, Goto, TaskSteps
  <2>2. evicted'[a] = <<>> /\ \A u \in Threads \ {a} : evicted'[u] = evicted[u]
    BY <1>1, <1>5 DEF LogQueued
  <2> QED
    BY <1>1, <2>1, <2>2, Advance
<1>6. ASSUME NEW r \in Requests, StoreLimit(r) PROVE StepsInv'
  <2>1. /\ pc[r] = "new" /\ UNCHANGED evicted
        /\ pc' = [pc EXCEPT ![r] = "stored"] /\ "stored" \in RequestSteps
    BY <1>6 DEF StoreLimit, Goto, RequestSteps
  <2>2. evicted'[r] = <<>>
    BY <1>1, <2>1 DEF StepsInv
  <2> QED
    BY <1>1, <2>1, <2>2, Advance
<1>7. ASSUME NEW r \in Requests, Trim(r) PROVE StepsInv'
  <2>1. pc' = [pc EXCEPT ![r] = "trimmed"] /\ "trimmed" \in RequestSteps
    BY <1>7 DEF Trim, Goto, RequestSteps
  <2>2. \A u \in Threads \ {r} : evicted'[u] = evicted[u]
    BY <1>1, <1>7 DEF Trim
  <2> QED
    BY <1>1, <2>1, <2>2, Advance
<1>8. ASSUME NEW r \in Requests, LogTrim(r) PROVE StepsInv'
  <2>1. pc' = [pc EXCEPT ![r] = "done"] /\ "done" \in RequestSteps
    BY <1>8 DEF LogTrim, Goto, RequestSteps
  <2>2. evicted'[r] = <<>> /\ \A u \in Threads \ {r} : evicted'[u] = evicted[u]
    BY <1>1, <1>8 DEF LogTrim
  <2> QED
    BY <1>1, <2>1, <2>2, Advance
<1>9. CASE UNCHANGED threadVars
  BY <1>9 DEF threadVars, StepsInv
<1>10. \/ \E a \in Alerts : NotifyTask(a)
       \/ \E r \in Requests : SettingsRequest(r)
       \/ UNCHANGED threadVars
  BY DEF Next, Flusher, EditChannel, Kick, CheckEmpty, WorkArrives, BackoffEnds, Pop, Drained,
     LookUp, Resent, GiveUp, Requeue, vars
<1> QED
  BY <1>2, <1>3, <1>4, <1>5, <1>6, <1>7, <1>8, <1>9, <1>10 DEF NotifyTask, SettingsRequest

LEMMA OwnedInit == Init => Owned
<1> SUFFICES ASSUME Init PROVE Owned
  OBVIOUS
<1>1. /\ \A t \in Threads : evicted[t] = <<>>
      /\ \A a \in Alerts : log[a] = <<>> /\ pc[a] = "new"
  BY ConstantsAssumption DEF Init, Threads
<1>2. ToSet(<<>>) = {} /\ Distinct(<<>>)
  BY DEF ToSet, Distinct
<1> QED
  BY <1>1, <1>2 DEF Owned, Enqueued, Taken

LedgerInv == TypeInv /\ Places /\ StepsInv /\ Owned

LEMMA LedgerInvStep == LedgerInv /\ [Next]_vars => LedgerInv'
BY TypeStep, PlacesStep, StepsStep, OwnedStep DEF LedgerInv

LEMMA LedgerInvariant == Spec => []LedgerInv
<1>1. Init => LedgerInv
  BY TypeInit, PlacesInit, StepsInit, OwnedInit DEF LedgerInv
<1> QED
  BY <1>1, LedgerInvStep, PTL DEF Spec

-----------------------------------------------------------------------------
(* One holder.  Each part of Holders is empty or a singleton, and Owned    *)
(* says which one is not empty.                                            *)

LEMMA HolderLemma == LedgerInv => OneHolder
<1> SUFFICES ASSUME LedgerInv, NEW a \in Alerts
             PROVE  \E h \in Holders(a) : Holders(a) = {h}
  BY DEF OneHolder
<1> DEFINE queue   == {<<"queue", k>> : k \in {k \in DOMAIN items : items[k] = a}}
           hand    == {<<"hand", h>> : h \in {held} \cap {a}}
           evictor == {<<"evictor", t>> : t \in {t \in Threads : a \in ToSet(evicted[t])}}
           task    == {<<"task", t>> : t \in {a} \cap {b \in Alerts :
                          pc[b] \in TaskSteps \ {"pushed", "signalled", "queued"}}}
           done    == {<<"done", m>> : m \in DOMAIN log[a]}
<1>1. Holders(a) = queue \cup hand \cup evictor \cup task \cup done
  BY DEF Holders
<1>2. /\ log[a] \in Seq(Marks) /\ held \in Alerts \cup {None} /\ a \in Threads
      /\ pc[a] \in TaskSteps
  BY Types DEF LedgerInv, StepsInv
<1>3. ~ InQueue(a) => queue = {}
  BY DEF InQueue, ToSet
<1>4. held # a => hand = {}
  OBVIOUS
<1>5. (\A t \in Threads : ~ Taken(a, t)) => evictor = {}
  BY DEF Taken
<1>6. pc[a] \in Enqueued => task = {}
  BY DEF Enqueued
<1>7. log[a] = <<>> => done = {}
  OBVIOUS
<1>8. CASE InQueue(a)
  <2>1. PICK k \in DOMAIN items : items[k] = a
    BY <1>8 DEF InQueue, ToSet
  <2>2. queue = {<<"queue", k>>}
    BY <2>1 DEF LedgerInv, Places
  <2>3. pc[a] \in Enqueued /\ held # a
    BY <2>1 DEF LedgerInv, Places
  <2>4. log[a] = <<>> /\ \A t \in Threads : ~ Taken(a, t)
    BY <1>8 DEF LedgerInv, Owned, Taken
  <2>5. Holders(a) = {<<"queue", k>>}
    BY <1>1, <1>4, <1>5, <1>6, <1>7, <2>2, <2>3, <2>4
  <2> QED
    BY <2>5
<1>9. CASE held = a
  <2>1. hand = {<<"hand", a>>}
    BY <1>9
  <2>2. pc[a] \in Enqueued /\ ~ InQueue(a)
    BY <1>9, ConstantsAssumption DEF LedgerInv, Places, InQueue, ToSet
  <2>3. log[a] = <<>> /\ \A t \in Threads : ~ Taken(a, t)
    BY <1>9 DEF LedgerInv, Owned, Taken
  <2>4. Holders(a) = {<<"hand", a>>}
    BY <1>1, <1>3, <1>5, <1>6, <1>7, <2>1, <2>2, <2>3
  <2> QED
    BY <2>4
<1>10. ASSUME NEW t \in Threads, Taken(a, t) PROVE \E h \in Holders(a) : Holders(a) = {h}
  <2>1. /\ pc[a] \in Enqueued /\ log[a] = <<>> /\ a # held /\ ~ InQueue(a)
        /\ \A u \in Threads : Taken(a, u) => u = t
    BY <1>10 DEF LedgerInv, Owned, Taken
  <2>2. evictor = {<<"evictor", t>>}
    BY <1>10, <2>1 DEF Taken
  <2>3. Holders(a) = {<<"evictor", t>>}
    BY <1>1, <1>3, <1>4, <1>6, <1>7, <2>1, <2>2
  <2> QED
    BY <2>3
<1>11. CASE log[a] # <<>>
  <2>1. /\ pc[a] \in Enqueued /\ Len(log[a]) = 1 /\ a # held /\ ~ InQueue(a)
        /\ \A t \in Threads : ~ Taken(a, t)
    BY <1>11 DEF LedgerInv, Owned, Taken
  <2>2. DOMAIN log[a] = {1}
    BY <1>2, <2>1
  <2>3. done = {<<"done", 1>>}
    BY <2>2
  <2>4. Holders(a) = {<<"done", 1>>}
    BY <1>1, <1>3, <1>4, <1>5, <1>6, <2>1, <2>3
  <2> QED
    BY <2>4
<1>12. CASE pc[a] \notin Enqueued
  <2>1. task = {<<"task", a>>}
    BY <1>2, <1>12 DEF Enqueued
  <2>2. ~ InQueue(a) /\ held # a
    BY <1>12, ConstantsAssumption DEF LedgerInv, Places, InQueue, ToSet
  <2>3. log[a] = <<>> /\ \A t \in Threads : ~ Taken(a, t)
    BY <1>12 DEF LedgerInv, Owned, Taken
  <2>4. Holders(a) = {<<"task", a>>}
    BY <1>1, <1>3, <1>4, <1>5, <1>7, <2>1, <2>2, <2>3
  <2> QED
    BY <2>4
<1>13. \/ InQueue(a) \/ held = a \/ log[a] # <<>> \/ pc[a] \notin Enqueued
       \/ \E t \in Threads : Taken(a, t)
  BY DEF LedgerInv, Owned
<1> QED
  BY <1>8, <1>9, <1>10, <1>11, <1>12, <1>13

(* Whatever the threads interleave, an alert is in the backlog, in the     *)
(* flusher's hand, in one eviction list, with its own task or in the log,  *)
(* and in one of them only (retry.rs:95-140, pipeline.rs:469-637).         *)
THEOREM OneHolderTheorem == Spec => []OneHolder
BY LedgerInvariant, HolderLemma, PTL

-----------------------------------------------------------------------------
(* The counter of dropped alerts.                                          *)

Counted(a) ==
    \/ "evicted" \in ToSet(log[a])
    \/ \E b \in Alerts : pc[b] = "signalled" /\ Taken(a, b)

AllCounted == {a \in Alerts : Counted(a)}

CountInv == IsFiniteSet(AllCounted) /\ dropped = Cardinality(AllCounted)

LEMMA DistinctCounts ==
    ASSUME NEW q \in Seq(Alerts), Distinct(q)
    PROVE  IsFiniteSet(ToSet(q)) /\ Cardinality(ToSet(q)) = Len(q)
<1>1. Len(q) \in Nat /\ DOMAIN q = 1 .. Len(q) /\ q \in [1 .. Len(q) -> ToSet(q)]
  <2>1. Len(q) \in Nat /\ DOMAIN q = 1 .. Len(q) /\ q \in [1 .. Len(q) -> Alerts]
    OBVIOUS
  <2>2. \A k \in 1 .. Len(q) : q[k] \in ToSet(q)
    BY <2>1 DEF ToSet
  <2> QED
    BY <2>1, <2>2
<1>2. IsInjective(q)
  BY <1>1 DEF IsInjective, Distinct
<1>3. \A x \in ToSet(q) : \E k \in 1 .. Len(q) : q[k] = x
  BY <1>1 DEF ToSet
<1>4. q \in Bijection(1 .. Len(q), ToSet(q))
  BY <1>1, <1>2, <1>3 DEF Bijection, Injection, Surjection
<1>5. ExistsBijection(1 .. Len(q), ToSet(q))
  BY <1>4 DEF ExistsBijection
<1> QED
  BY <1>1, <1>5, FS_CountingElements, FS_NatBijection

LEMMA CountRests ==
    ASSUME CountInv, UNCHANGED dropped, \A a \in Alerts : Counted(a)' <=> Counted(a)
    PROVE  CountInv'
<1>1. AllCounted' = AllCounted
  BY DEF AllCounted
<1> QED
  BY <1>1 DEF CountInv

LEMMA CountGrows ==
    ASSUME LedgerInv, CountInv, NEW t \in Threads,
           \A a \in Alerts : Counted(a)' <=> Counted(a) \/ Taken(a, t),
           \A a \in Alerts : Taken(a, t) => ~ Counted(a),
           dropped' = dropped + Len(evicted[t])
    PROVE  CountInv'
<1>1. evicted[t] \in Seq(Alerts) /\ Distinct(evicted[t]) /\ ToSet(evicted[t]) \subseteq Alerts
  BY Types DEF LedgerInv, Owned
<1>2. IsFiniteSet(ToSet(evicted[t])) /\ Cardinality(ToSet(evicted[t])) = Len(evicted[t])
  BY <1>1, DistinctCounts
<1>3. AllCounted' = AllCounted \cup ToSet(evicted[t])
  BY <1>1 DEF AllCounted, Taken
<1>4. AllCounted \cap ToSet(evicted[t]) = {}
  BY DEF AllCounted, Taken
<1>5. IsFiniteSet(AllCounted) /\ dropped = Cardinality(AllCounted) /\ dropped \in Nat
  BY DEF CountInv, LedgerInv, TypeInv, TypeOK
<1> DEFINE old == AllCounted
           new == ToSet(evicted[t])
<1>6. /\ IsFiniteSet(old) /\ IsFiniteSet(new) /\ old \cap new = {}
      /\ Cardinality(old) = dropped /\ Cardinality(new) = Len(evicted[t])
  BY <1>2, <1>4, <1>5
<1>7. AllCounted' = old \cup new
  BY <1>3
<1> HIDE DEF old, new
<1>8. /\ IsFiniteSet(old \cup new)
      /\ Cardinality(old \cup new) = Cardinality(old) + Cardinality(new) - Cardinality(old \cap new)
  BY <1>6, FS_Union
<1>9. Cardinality(old \cap new) = 0
  BY <1>6, FS_EmptySet
<1>10. Cardinality(old \cup new) = dropped + Len(evicted[t])
  <2>1. Len(evicted[t]) \in Nat
    BY <1>1
  <2> QED
    BY <1>5, <1>6, <1>8, <1>9, <2>1
<1> QED
  BY <1>7, <1>8, <1>10 DEF CountInv

LEMMA Marked ==
    /\ ToSet(<<>>) = {}
    /\ \A m : ToSet(<<m>>) = {m}
    /\ \A m : Append(<<>>, m) = <<m>>
BY DEF ToSet

(* A thread that is not between its count and its log entry does not       *)
(* matter to the counter.                                                  *)
LEMMA CountByPc ==
    ASSUME LedgerInv, CountInv, UNCHANGED <<dropped, log>>,
           \A b \in Alerts : /\ pc'[b] = "signalled" <=> pc[b] = "signalled"
                             /\ pc[b] = "signalled" => evicted'[b] = evicted[b]
    PROVE  CountInv'
<1>1. \A a \in Alerts : Counted(a)' <=> Counted(a)
  BY DEF Counted, Taken
<1> QED
  BY <1>1, CountRests

LEMMA CountRecords ==
    ASSUME LedgerInv, NEW t \in Threads, Records(t), NEW a \in Alerts
    PROVE  "evicted" \in ToSet(log'[a]) <=> "evicted" \in ToSet(log[a]) \/ Taken(a, t)
<1>1. log'[a] = IF Taken(a, t) THEN Append(log[a], "evicted") ELSE log[a]
  BY DEF Records, MarkEvicted, Taken
<1>2. Taken(a, t) => log[a] = <<>>
  BY DEF LedgerInv, Owned, Taken
<1>3. CASE Taken(a, t)
  <2>1. log[a] = <<>> /\ log'[a] = <<"evicted">>
    BY <1>1, <1>2, <1>3, Marked
  <2>2. ToSet(<<"evicted">>) = {"evicted"}
    BY Marked
  <2>3. "evicted" \in ToSet(log'[a])
    BY <2>1, <2>2
  <2> QED
    BY <1>3, <2>3
<1>4. CASE ~ Taken(a, t)
  BY <1>1, <1>4
<1> QED
  BY <1>3, <1>4

LEMMA CountSettles ==
    ASSUME LedgerInv, CountInv, NEW mark, mark # "evicted", Settles(mark), UNCHANGED dropped
    PROVE  CountInv'
<1>1. /\ held \in Alerts /\ log \in [Alerts -> Seq(Marks)] /\ UNCHANGED <<evicted, pc>>
      /\ log[held] = <<>>
  BY Types DEF Settles, LedgerInv, Owned
<1>2. \A a \in Alerts : log'[a] = IF a = held THEN <<mark>> ELSE log[a]
  BY <1>1, Marked DEF Settles
<1>3. \A a \in Alerts : "evicted" \in ToSet(log'[a]) <=> "evicted" \in ToSet(log[a])
  BY <1>1, <1>2, Marked
<1>4. \A a \in Alerts : Counted(a)' <=> Counted(a)
  BY <1>1, <1>3 DEF Counted, Taken
<1> QED
  BY <1>4, CountRests

LEMMA CountStep == LedgerInv /\ CountInv /\ [Next]_vars => CountInv'
<1> SUFFICES ASSUME LedgerInv, CountInv, [Next]_vars PROVE CountInv'
  OBVIOUS
<1>1. /\ evicted \in [Threads -> Seq(Alerts)] /\ pc \in [Threads -> TaskSteps \cup RequestSteps]
      /\ Alerts \subseteq Threads /\ Requests \subseteq Threads
      /\ \A r \in Requests : r \notin Alerts
      /\ TypeInv
  BY Types, ConstantsAssumption DEF LedgerInv, TypeInv, TypeOK
<1>2. ASSUME NEW a \in Alerts, Begin(a) \/ Deliver(a) \/ LoadLimit(a) \/ Push(a) PROVE CountInv'
  <2>1. pc[a] # "signalled" /\ UNCHANGED <<dropped, log>>
    BY <1>2 DEF Begin, Deliver, LoadLimit, Push, queueVars
  <2>2. \E step \in TaskSteps \ {"signalled"} : pc' = [pc EXCEPT ![a] = step]
    <3>1. CASE Begin(a)
      <4> DEFINE step == IF Usable(a) THEN "sending" ELSE "skipped"
      <4>1. pc' = [pc EXCEPT ![a] = step] /\ step \in TaskSteps \ {"signalled"}
        BY <3>1 DEF Begin, Goto, TaskSteps
      <4> HIDE DEF step
      <4> QED
        BY <4>1
    <3>2. CASE Deliver(a)
      BY <3>2 DEF Deliver, Goto, AfterFailure, TaskSteps
    <3>3. CASE LoadLimit(a) \/ Push(a)
      BY <3>3 DEF LoadLimit, Push, Goto, TaskSteps
    <3> QED
      BY <1>2, <3>1, <3>2, <3>3
  <2>3. \A b \in Alerts : b # a => pc'[b] = pc[b] /\ evicted'[b] = evicted[b]
    BY <1>1, <1>2, <2>2 DEF Begin, Deliver, LoadLimit, Push
  <2>4. pc'[a] # "signalled"
    BY <1>1, <2>2
  <2> QED
    BY <2>1, <2>3, <2>4, CountByPc
<1>3. ASSUME NEW a \in Alerts, Signal(a) PROVE CountInv'
  <2>1. /\ pc[a] = "pushed" /\ UNCHANGED <<log, evicted>>
        /\ dropped' = dropped + Len(evicted[a])
        /\ \A b \in Alerts : pc'[b] = IF b = a THEN "signalled" ELSE pc[b]
    BY <1>1, <1>3 DEF Signal, Goto
  <2>2. \A x \in Alerts : Taken(x, a) => log[x] = <<>> /\ \A u \in Threads : Taken(x, u) => u = a
    BY <1>1 DEF LedgerInv, Owned, Taken
  <2>3. \A x \in Alerts : Taken(x, a) => ~ Counted(x)
    BY <1>1, <2>1, <2>2, Marked DEF Counted
  <2>4. \A x \in Alerts : Counted(x)' <=> Counted(x) \/ Taken(x, a)
    BY <2>1 DEF Counted, Taken
  <2> QED
    BY <1>1, <2>1, <2>3, <2>4, CountGrows
<1>4. ASSUME NEW a \in Alerts, LogQueued(a) PROVE CountInv'
  <2>1. /\ pc[a] = "signalled" /\ UNCHANGED dropped
        /\ \A b \in Alerts : pc'[b] = IF b = a THEN "queued" ELSE pc[b]
        /\ \A b \in Alerts : evicted'[b] = IF b = a THEN <<>> ELSE evicted[b]
    BY <1>1, <1>4 DEF LogQueued, Goto, queueVars
  <2>2. Records(a) /\ a \in Threads
    BY <1>1, <1>4, LogRecords
  <2>3. \A x \in Alerts : "evicted" \in ToSet(log'[x]) <=> "evicted" \in ToSet(log[x]) \/ Taken(x, a)
    BY <2>2, CountRecords
  <2>4. \A x \in Alerts : Counted(x)' <=> Counted(x)
    BY <2>1, <2>3 DEF Counted, Taken
  <2> QED
    BY <2>1, <2>4, CountRests
<1>5. ASSUME NEW r \in Requests, LogTrim(r) PROVE CountInv'
  <2>1. /\ pc[r] = "trimmed" /\ dropped' = dropped + Len(evicted[r])
        /\ \A b \in Alerts : pc'[b] = pc[b] /\ evicted'[b] = evicted[b]
    BY <1>1, <1>5 DEF LogTrim, Goto
  <2>2. Records(r) /\ r \in Threads
    BY <1>1, <1>5, LogRecords
  <2>3. \A x \in Alerts : "evicted" \in ToSet(log'[x]) <=> "evicted" \in ToSet(log[x]) \/ Taken(x, r)
    BY <2>2, CountRecords
  <2>4. \A x \in Alerts : Counted(x)' <=> Counted(x) \/ Taken(x, r)
    BY <2>1, <2>3 DEF Counted, Taken
  <2>5. \A x \in Alerts : Taken(x, r) => log[x] = <<>> /\ \A u \in Threads : Taken(x, u) => u = r
    BY <1>1 DEF LedgerInv, Owned, Taken
  <2>6. \A x \in Alerts : Taken(x, r) => ~ Counted(x)
    BY <1>1, <2>5, Marked DEF Counted
  <2> QED
    BY <2>1, <2>2, <2>4, <2>6, CountGrows
<1>6. ASSUME NEW r \in Requests, StoreLimit(r) \/ Trim(r) PROVE CountInv'
  <2>1. /\ UNCHANGED <<dropped, log>>
        /\ \A b \in Alerts : pc'[b] = pc[b] /\ evicted'[b] = evicted[b]
    BY <1>1, <1>6 DEF StoreLimit, Trim, Goto, queueVars
  <2> QED
    BY <2>1, CountByPc
<1>7. CASE GiveUp \/ (LookUp /\ ~ Usable(held))
  <2>1. Settles("gaveUp") /\ UNCHANGED dropped
    BY <1>1, <1>7, FlusherMoves DEF GiveUp, LookUp, queueVars
  <2> QED
    BY <2>1, CountSettles
<1>8. CASE Resent
  <2>1. Settles("resent") /\ UNCHANGED dropped
    BY <1>1, <1>8, FlusherMoves DEF Resent, queueVars
  <2> QED
    BY <2>1, CountSettles
<1>9. CASE UNCHANGED <<dropped, log, pc, evicted>>
  BY <1>9, CountByPc
<1>10. \/ \E a \in Alerts : NotifyTask(a)
       \/ \E r \in Requests : SettingsRequest(r)
       \/ GiveUp \/ Resent \/ (LookUp /\ ~ Usable(held))
       \/ UNCHANGED <<dropped, log, pc, evicted>>
  BY DEF Next, Flusher, EditChannel, Kick, CheckEmpty, WorkArrives, BackoffEnds, Pop, Drained,
     LookUp, Requeue, vars, queueVars, threadVars
<1> QED
  BY <1>2, <1>3, <1>4, <1>5, <1>6, <1>7, <1>8, <1>9, <1>10 DEF NotifyTask, SettingsRequest

(* The counter the web page shows is the number of alerts the limit took,  *)
(* each counted once, by push or by trim_retry, and never one that was     *)
(* sent again or given up (retry.rs:96-130, pipeline.rs:469-532).          *)
THEOREM DroppedTheorem == Spec => []DroppedIsExact
<1>1. Init => CountInv
  <2> SUFFICES ASSUME Init PROVE CountInv
    OBVIOUS
  <2>1. \A a \in Alerts : log[a] = <<>> /\ pc[a] = "new"
    BY DEF Init, Threads
  <2>2. AllCounted = {}
    BY <2>1, Marked DEF AllCounted, Counted
  <2> QED
    BY <2>2, FS_EmptySet DEF CountInv, Init
<1>2. CountInv => DroppedIsExact
  BY DEF CountInv, DroppedIsExact, AllCounted, Counted, Taken
<1> QED
  BY <1>1, <1>2, LedgerInvariant, CountStep, PTL DEF Spec

-----------------------------------------------------------------------------
(* The queue implements the ledger.                                        *)

Gone(a)  == \E t \in Threads : Taken(a, t)
Waits(a) == InQueue(a) \/ held = a \/ pc[a] \in {"failed", "loaded"}

FateTable ==
    \A a \in Alerts :
        /\ log[a] = <<>> /\ Gone(a) => Fate(a) = "evicted"
        /\ \A mark \in Marks : log[a] = <<mark>> => Fate(a) = mark
        /\ log[a] = <<>> /\ ~ Gone(a) =>
              /\ pc[a] \in {"new", "sending"} => Fate(a) = "new"
              /\ pc[a] \in {"delivered", "skipped", "refused"} => Fate(a) = pc[a]
              /\ Waits(a) /\ pc[a] \in Enqueued \cup {"failed", "loaded"} => Fate(a) = "waiting"

(* The guards of Fate exclude each other, so that it does not matter which *)
(* of them CASE takes first.                                               *)
LEMMA FateNow == LedgerInv => FateTable
<1> SUFFICES ASSUME LedgerInv, NEW a \in Alerts
             PROVE /\ log[a] = <<>> /\ Gone(a) => Fate(a) = "evicted"
                   /\ \A mark \in Marks : log[a] = <<mark>> => Fate(a) = mark
                   /\ log[a] = <<>> /\ ~ Gone(a) =>
                        /\ pc[a] \in {"new", "sending"} => Fate(a) = "new"
                        /\ pc[a] \in {"delivered", "skipped", "refused"} => Fate(a) = pc[a]
                        /\ Waits(a) /\ pc[a] \in Enqueued \cup {"failed", "loaded"}
                              => Fate(a) = "waiting"
  BY DEF FateTable
<1> DEFINE L == ToSet(log[a])
           G == \E t \in Threads : a \in ToSet(evicted[t])
           W == InQueue(a) \/ held = a \/ pc[a] \in {"failed", "loaded"}
<1>0. Fate(a) = CASE "resent" \in L -> "resent"
                  [] "gaveUp" \in L -> "gaveUp"
                  [] "evicted" \in L \/ G -> "evicted"
                  [] pc[a] \in {"new", "sending"} -> "new"
                  [] pc[a] \in {"delivered", "skipped", "refused"} -> pc[a]
                  [] W -> "waiting"
                  [] OTHER -> "lost"
  BY DEF Fate
<1>1. G => pc[a] \in Enqueued /\ ~ InQueue(a) /\ held # a
  BY DEF LedgerInv, Owned, Taken
<1>2. log[a] # <<>> => pc[a] \in Enqueued /\ ~ InQueue(a) /\ held # a /\ ~ G
  BY DEF LedgerInv, Owned, Taken
<1>3. InQueue(a) \/ held = a => pc[a] \in Enqueued
  BY ConstantsAssumption DEF LedgerInv, Places, InQueue, ToSet
<1>4. pc[a] \in Enqueued => pc[a] \notin {"new", "sending", "delivered", "skipped", "refused",
                                          "failed", "loaded"}
  BY DEF Enqueued
<1>5. Gone(a) <=> G
  BY DEF Gone, Taken
<1>6. Waits(a) <=> W
  BY DEF Waits
<1>7. log[a] = <<>> => L = {}
  BY Marked
<1>8. W => pc[a] \notin {"new", "sending", "delivered", "skipped", "refused"}
  BY <1>3, <1>4
<1>9. G \/ log[a] # <<>> => ~ W /\ pc[a] \notin {"new", "sending", "delivered", "skipped", "refused"}
  BY <1>1, <1>2, <1>4
<1>10. \A mark \in Marks : log[a] = <<mark>> => L = {mark} /\ ~ G /\ log[a] # <<>>
  <2>1. \A mark : <<mark>> # <<>>
    OBVIOUS
  <2> QED
    BY <1>2, <2>1, Marked
<1> HIDE DEF L, G, W
<1>11. log[a] = <<>> /\ G => Fate(a) = "evicted"
  BY <1>0, <1>7, <1>9
<1>12. ASSUME NEW mark \in Marks, log[a] = <<mark>> PROVE Fate(a) = mark
  <2>1. L = {mark} /\ ~ G /\ ~ W
        /\ pc[a] \notin {"new", "sending", "delivered", "skipped", "refused"}
    BY <1>9, <1>10, <1>12
  <2>2. mark \in {"resent", "gaveUp", "evicted"}
    BY DEF Marks
  <2> QED
    BY <1>0, <2>1, <2>2
<1>13. log[a] = <<>> /\ ~ G =>
          /\ pc[a] \in {"new", "sending"} => Fate(a) = "new"
          /\ pc[a] \in {"delivered", "skipped", "refused"} => Fate(a) = pc[a]
          /\ W => Fate(a) = "waiting"
  BY <1>0, <1>7, <1>8
<1> QED
  BY <1>5, <1>6, <1>11, <1>12, <1>13

LEMMA FateNext == LedgerInv' => FateTable'
BY FateNow, PTL

(* The fates an alert has while it is with its own task, waits or is done. *)
LEMMA FateKept ==
    ASSUME NEW a \in Alerts, log'[a] = log[a], Gone(a)' <=> Gone(a),
           pc'[a] = pc[a], (InQueue(a) \/ held = a)' <=> InQueue(a) \/ held = a
    PROVE  Fate(a)' = Fate(a)
BY DEF Fate, Gone, Taken

Silent ==
    /\ \A a \in Alerts : Fate(a)' = Fate(a)
    /\ UNCHANGED <<received, lostAnswers>>

LEMMA SilentStep == Silent => [Ledger!LNext]_(Ledger!ledgerVars)
<1> SUFFICES ASSUME Silent PROVE Ledger!LNext
  OBVIOUS
<1>1. (\E max \in {retryQueue} \cup {limit[t] : t \in Threads} : max \notin {0, None})' \in BOOLEAN
  OBVIOUS
<1>2. [a \in Alerts |-> Fate(a)]' = [a \in Alerts |-> Fate(a)]
  BY DEF Silent
<1> QED
  BY <1>1, <1>2 DEF Ledger!LNext, Silent

LEMMA LimitIsBoolean ==
    (\E max \in {retryQueue} \cup {limit[t] : t \in Threads} : max \notin {0, None})' \in BOOLEAN
OBVIOUS

Accepts(a, n) == received' = [received EXCEPT ![a] = @ + n]
Loses(a, n)   == lostAnswers' = [lostAnswers EXCEPT ![a] = @ + n]

(* The steps of the ledger, by what they do to the fates.                  *)
LEMMA AsSettle ==
    ASSUME NEW a \in Alerts, NEW end \in {"delivered", "skipped", "refused"},
           Fate(a) = "new",
           \A b \in Alerts : Fate(b)' = IF b = a THEN end ELSE Fate(b),
           Accepts(a, IF end = "delivered" THEN 1 ELSE 0), UNCHANGED lostAnswers
    PROVE  Ledger!LNext
<1>1. [b \in Alerts |-> Fate(b)]' = [[b \in Alerts |-> Fate(b)] EXCEPT ![a] = end]
  OBVIOUS
<1>2. Ledger!LSettle(a, end)
  BY <1>1 DEF Ledger!LSettle, Accepts
<1> QED
  BY <1>2, LimitIsBoolean DEF Ledger!LNext

LEMMA AsFail ==
    ASSUME NEW a \in Alerts, NEW lost \in {0, 1},
           Fate(a) \in {"new", "waiting"}, Fate(a)' \in {Fate(a), "waiting"},
           \A b \in Alerts : b # a => Fate(b)' = Fate(b),
           Accepts(a, lost), Loses(a, lost)
    PROVE  Ledger!LNext
<1>1. [b \in Alerts |-> Fate(b)]' \in {[b \in Alerts |-> Fate(b)],
                                      [[b \in Alerts |-> Fate(b)] EXCEPT ![a] = "waiting"]}
  <2>1. CASE Fate(a)' = Fate(a)
    <3>1. [b \in Alerts |-> Fate(b)]' = [b \in Alerts |-> Fate(b)]
      BY <2>1
    <3> QED
      BY <3>1
  <2>2. CASE Fate(a)' = "waiting"
    <3>1. [b \in Alerts |-> Fate(b)]' = [[b \in Alerts |-> Fate(b)] EXCEPT ![a] = "waiting"]
      BY <2>2
    <3> QED
      BY <3>1
  <2> QED
    BY <2>1, <2>2
<1>2. Ledger!LFail(a, lost)
  BY <1>1 DEF Ledger!LFail, Accepts, Loses
<1> QED
  BY <1>2, LimitIsBoolean DEF Ledger!LNext

LEMMA AsResend ==
    ASSUME NEW a \in Alerts, Fate(a) = "waiting",
           \A b \in Alerts : Fate(b)' = IF b = a THEN "resent" ELSE Fate(b),
           Accepts(a, 1), UNCHANGED lostAnswers
    PROVE  Ledger!LNext
<1>1. [b \in Alerts |-> Fate(b)]' = [[b \in Alerts |-> Fate(b)] EXCEPT ![a] = "resent"]
  OBVIOUS
<1>2. Ledger!LResend(a)
  BY <1>1 DEF Ledger!LResend, Accepts
<1> QED
  BY <1>2, LimitIsBoolean DEF Ledger!LNext

LEMMA AsGiveUp ==
    ASSUME NEW a \in Alerts, Fate(a) = "waiting",
           \A b \in Alerts : Fate(b)' = IF b = a THEN "gaveUp" ELSE Fate(b),
           UNCHANGED <<received, lostAnswers>>
    PROVE  Ledger!LNext
<1>1. [b \in Alerts |-> Fate(b)]' = [[b \in Alerts |-> Fate(b)] EXCEPT ![a] = "gaveUp"]
  OBVIOUS
<1>2. Ledger!LGiveUp(a)
  BY <1>1 DEF Ledger!LGiveUp
<1> QED
  BY <1>2, LimitIsBoolean DEF Ledger!LNext

LEMMA AsEvict ==
    ASSUME NEW S \in SUBSET Alerts, NEW t \in Threads, limit[t] \notin {0, None},
           \A b \in S : Fate(b) = "waiting",
           \A b \in Alerts : Fate(b)' = IF b \in S THEN "evicted" ELSE Fate(b),
           UNCHANGED <<received, lostAnswers>>
    PROVE  Ledger!LNext
<1>1. [b \in Alerts |-> Fate(b)]' = [b \in Alerts |-> IF b \in S THEN "evicted"
                                                     ELSE [c \in Alerts |-> Fate(c)][b]]
  OBVIOUS
<1>2. \E max \in {retryQueue} \cup {limit[u] : u \in Threads} : max \notin {0, None}
  OBVIOUS
<1>3. Ledger!LEvict(S)
  BY <1>1, <1>2 DEF Ledger!LEvict
<1> QED
  BY <1>3, LimitIsBoolean DEF Ledger!LNext

(* What a push or a trim takes leaves the waiting for the evicted; nobody  *)
(* else's fate changes.                                                    *)
LEMMA SplitsFates ==
    ASSUME LedgerInv, LedgerInv', NEW t \in Threads, NEW N, NEW kept, NEW gone,
           SplitsOff(t, N, kept, gone),
           \A b \in N : pc[b] = "loaded" /\ pc'[b] = "pushed",
           \A b \in Alerts \ N : pc'[b] = pc[b]
    PROVE  /\ ToSet(gone) \subseteq Alerts
           /\ \A b \in ToSet(gone) : Fate(b) = "waiting"
           /\ \A b \in Alerts : Fate(b)' = IF b \in ToSet(gone) THEN "evicted" ELSE Fate(b)
<1>1. /\ evicted \in [Threads -> Seq(Alerts)]
      /\ ToSet(items) \subseteq Alerts
  BY Types DEF LedgerInv
<1>2. FateTable /\ FateTable'
  BY FateNow, FateNext
<1>3. \A u \in Threads : evicted'[u] = IF u = t THEN gone ELSE evicted[u]
  BY <1>1 DEF SplitsOff
<1>4. ToSet(evicted[t]) = {} /\ evicted'[t] = gone
  BY <1>3 DEF SplitsOff, ToSet
<1>5. ToSet(gone) \subseteq Alerts
  BY <1>1 DEF SplitsOff
<1>6. \A b \in Alerts : Gone(b)' <=> Gone(b) \/ b \in ToSet(gone)
  BY <1>3, <1>4 DEF Gone, Taken
<1>7. /\ UNCHANGED <<held, log>>
      /\ ToSet(kept) \cup ToSet(gone) = ToSet(items) \cup N
      /\ ToSet(kept) \cap ToSet(gone) = {}
      /\ items' = kept
  BY DEF SplitsOff
<1>8. ASSUME NEW b \in N
      PROVE  /\ b \in Alerts /\ log[b] = <<>> /\ ~ Gone(b) /\ Waits(b) /\ Fate(b) = "waiting"
  <2>1. b \in Alerts /\ pc[b] = "loaded" /\ pc[b] \notin Enqueued
    BY DEF SplitsOff
  <2>2. log[b] = <<>> /\ ~ Gone(b)
    BY <2>1 DEF LedgerInv, Owned, Gone, Taken
  <2> QED
    BY <1>2, <2>1, <2>2 DEF FateTable, Waits
<1>9. ASSUME NEW b \in ToSet(items)
      PROVE  /\ b \in Alerts /\ log[b] = <<>> /\ ~ Gone(b) /\ Fate(b) = "waiting"
  <2>1. b \in Alerts /\ pc[b] \in Enqueued /\ Waits(b)
    BY <1>1, <1>9 DEF LedgerInv, Places, Waits, InQueue, ToSet
  <2>2. log[b] = <<>> /\ ~ Gone(b)
    BY <2>1 DEF LedgerInv, Owned, Gone, Taken, InQueue
  <2> QED
    BY <1>2, <2>1, <2>2 DEF FateTable
<1>10. ASSUME NEW b \in ToSet(gone) PROVE Fate(b) = "waiting" /\ Fate(b)' = "evicted"
  <2>1. (b \in N \/ b \in ToSet(items)) /\ b \in Alerts
    BY <1>5, <1>7
  <2>2. log[b] = <<>> /\ Fate(b) = "waiting"
    BY <1>8, <1>9, <2>1
  <2>3. log'[b] = <<>> /\ Gone(b)'
    BY <1>6, <1>7, <2>1, <2>2
  <2>4. Fate(b)' = "evicted"
    BY <1>2, <2>1, <2>3 DEF FateTable
  <2> QED
    BY <2>2, <2>4
<1>11. ASSUME NEW b \in Alerts, b \notin ToSet(gone) PROVE Fate(b)' = Fate(b)
  <2>1. CASE b \in N
    <3>1. b \in ToSet(items') /\ pc'[b] \in Enqueued
      BY <1>7, <1>11, <2>1 DEF Enqueued
    <3>2. log'[b] = <<>> /\ ~ Gone(b)' /\ Waits(b)'
      BY <1>6, <1>7, <1>8, <1>11, <2>1, <3>1 DEF Waits, InQueue
    <3>3. Fate(b)' = "waiting"
      BY <1>2, <3>1, <3>2 DEF FateTable
    <3> QED
      BY <1>8, <2>1, <3>3
  <2>2. CASE b \notin N
    <3>1. /\ log'[b] = log[b] /\ pc'[b] = pc[b]
          /\ Gone(b)' <=> Gone(b)
      BY <1>6, <1>7, <1>11, <2>2
    <3>2. (InQueue(b) \/ held = b)' <=> InQueue(b) \/ held = b
      BY <1>7, <1>11, <2>2 DEF InQueue
    <3> QED
      BY <3>1, <3>2, FateKept
  <2> QED
    BY <2>1, <2>2
<1> QED
  BY <1>5, <1>10, <1>11

(* A push with an old limit, a trim: without anything evicted nothing      *)
(* happens to the ledger, and a limit that evicts is in force.             *)
LEMMA SplitsStep ==
    ASSUME LedgerInv, LedgerInv', NEW t \in Threads, NEW N, NEW q \in Seq(Alerts),
           limit[t] \in Nat, limit[t] # None,
           SplitsOff(t, N, Kept(q, limit[t]), Evicted(q, limit[t])),
           \A b \in N : pc[b] = "loaded" /\ pc'[b] = "pushed",
           \A b \in Alerts \ N : pc'[b] = pc[b],
           UNCHANGED <<received, lostAnswers>>
    PROVE  [Ledger!LNext]_(Ledger!ledgerVars)
<1> DEFINE kept == Kept(q, limit[t])
           gone == Evicted(q, limit[t])
<1>1. limit[t] = 0 => gone = <<>>
  <2>1. limit[t] = 0 => OverLimit(q, limit[t]) = 0
    BY DEF OverLimit
  <2>2. Len(gone) = OverLimit(q, limit[t]) /\ gone \in Seq(Alerts)
    BY EvictLemma
  <2> QED
    BY <2>1, <2>2
<1>2. SplitsOff(t, N, kept, gone)
  OBVIOUS
<1> HIDE DEF kept, gone
<1>3. /\ ToSet(gone) \subseteq Alerts
      /\ \A b \in ToSet(gone) : Fate(b) = "waiting"
      /\ \A b \in Alerts : Fate(b)' = IF b \in ToSet(gone) THEN "evicted" ELSE Fate(b)
  BY <1>2, SplitsFates
<1>4. CASE limit[t] = 0
  <2>1. ToSet(gone) = {}
    BY <1>1, <1>4, Marked
  <2>2. Silent
    BY <1>3, <2>1 DEF Silent
  <2> QED
    BY <2>2, SilentStep
<1>5. CASE limit[t] # 0
  <2> DEFINE S == ToSet(gone)
  <2>1. S \in SUBSET Alerts /\ limit[t] \notin {0, None}
    BY <1>3, <1>5
  <2> QED
    BY <1>3, <2>1, AsEvict
<1> QED
  BY <1>4, <1>5

LEMMA RecordsStep ==
    ASSUME LedgerInv, LedgerInv', NEW t \in Threads, Records(t),
           \A b \in Alerts : Taken(b, t) \/ pc'[b] = pc[b] \/ {pc[b], pc'[b]} \subseteq Enqueued,
           UNCHANGED <<received, lostAnswers>>
    PROVE  [Ledger!LNext]_(Ledger!ledgerVars)
<1>1. evicted \in [Threads -> Seq(Alerts)] /\ log \in [Alerts -> Seq(Marks)]
  BY Types DEF LedgerInv
<1>2. FateTable /\ FateTable'
  BY FateNow, FateNext
<1>3. \A u \in Threads : evicted'[u] = IF u = t THEN <<>> ELSE evicted[u]
  BY <1>1 DEF Records
<1>4. \A b \in Alerts : log'[b] = IF Taken(b, t) THEN Append(log[b], "evicted") ELSE log[b]
  BY DEF Records, MarkEvicted, Taken
<1>5. ASSUME NEW b \in Alerts, Taken(b, t) PROVE Fate(b)' = Fate(b)
  <2>1. log[b] = <<>> /\ Gone(b)
    BY <1>5 DEF LedgerInv, Owned, Taken, Gone
  <2>2. log'[b] = <<"evicted">> /\ "evicted" \in Marks
    BY <1>4, <1>5, <2>1, Marked DEF Marks
  <2>3. Fate(b) = "evicted"
    BY <1>2, <2>1 DEF FateTable
  <2>4. Fate(b)' = "evicted"
    BY <1>2, <2>2 DEF FateTable
  <2> QED
    BY <2>3, <2>4
<1>6. ASSUME NEW b \in Alerts, ~ Taken(b, t) PROVE Fate(b)' = Fate(b)
  <2>1. log'[b] = log[b] /\ (InQueue(b)' <=> InQueue(b)) /\ held' = held
    BY <1>4, <1>6 DEF Records, InQueue
  <2>2. Gone(b)' <=> Gone(b)
    BY <1>3, <1>6, Marked DEF Gone, Taken
  <2>3. CASE pc'[b] = pc[b]
    BY <2>1, <2>2, <2>3, FateKept
  <2>4. CASE {pc[b], pc'[b]} \subseteq Enqueued
    <3>1. \A p \in Enqueued : p \notin {"new", "sending", "delivered", "skipped", "refused",
                                        "failed", "loaded"}
      BY DEF Enqueued
    <3>2. /\ pc[b] \notin {"new", "sending", "delivered", "skipped", "refused", "failed", "loaded"}
          /\ pc'[b] \notin {"new", "sending", "delivered", "skipped", "refused", "failed", "loaded"}
      BY <2>4, <3>1
    <3> QED
      BY <2>1, <2>2, <3>2 DEF Fate, Gone, Taken
  <2> QED
    BY <1>6, <2>3, <2>4
<1>7. Silent
  BY <1>5, <1>6 DEF Silent
<1> QED
  BY <1>7, SilentStep

(* The entry in the flusher's hand waits; a verdict is the end of it.      *)
LEMMA HeldWaits ==
    ASSUME LedgerInv, held \in Alerts
    PROVE  Fate(held) = "waiting" /\ log[held] = <<>> /\ ~ Gone(held)
<1>1. pc[held] \in Enqueued
  BY ConstantsAssumption DEF LedgerInv, Places
<1>2. log[held] = <<>> /\ ~ Gone(held)
  BY DEF LedgerInv, Owned, Gone, Taken
<1>3. Waits(held) /\ FateTable
  BY FateNow DEF Waits
<1> QED
  BY <1>1, <1>2, <1>3 DEF FateTable

LEMMA SettlesFates ==
    ASSUME LedgerInv, LedgerInv', NEW mark \in Marks, Settles(mark)
    PROVE  /\ held \in Alerts /\ Fate(held) = "waiting"
           /\ \A b \in Alerts : Fate(b)' = IF b = held THEN mark ELSE Fate(b)
<1>1. /\ held \in Alerts /\ held' = None /\ None \notin Alerts
      /\ log \in [Alerts -> Seq(Marks)] /\ UNCHANGED <<items, evicted, pc>>
  BY Types DEF Settles, LedgerInv
<1>2. Fate(held) = "waiting" /\ log[held] = <<>> /\ ~ Gone(held)
  BY <1>1, HeldWaits
<1>3. \A b \in Alerts : log'[b] = IF b = held THEN <<mark>> ELSE log[b]
  BY <1>1, <1>2, Marked DEF Settles
<1>4. \A b \in Alerts : b = held => Fate(b)' = mark
  <2>1. FateTable'
    BY FateNext
  <2> QED
    BY <1>3, <2>1 DEF FateTable
<1>5. ASSUME NEW b \in Alerts, b # held PROVE Fate(b)' = Fate(b)
  <2>1. /\ log'[b] = log[b] /\ (Gone(b)' <=> Gone(b)) /\ pc'[b] = pc[b]
        /\ (InQueue(b)' <=> InQueue(b)) /\ held' # b
    BY <1>1, <1>3, <1>5 DEF Gone, Taken, InQueue
  <2> QED
    BY <1>5, <2>1, FateKept
<1> QED
  BY <1>1, <1>2, <1>4, <1>5

(* Steps of a task that the ledger does not see.                           *)
LEMMA FateOfStep ==
    ASSUME NEW a \in Alerts, UNCHANGED <<items, held, evicted, log>>,
           \/ pc'[a] = pc[a]
           \/ {pc[a], pc'[a]} \subseteq {"new", "sending"}
           \/ {pc[a], pc'[a]} \subseteq {"failed", "loaded"}
           \/ {pc[a], pc'[a]} \subseteq {"pushed", "signalled"}
    PROVE  Fate(a)' = Fate(a)
<1>1. CASE pc'[a] = pc[a]
  BY <1>1, FateKept DEF Gone, Taken, InQueue
<1>2. CASE {pc[a], pc'[a]} \subseteq {"new", "sending"}
  BY <1>2 DEF Fate, InQueue
<1>3. CASE {pc[a], pc'[a]} \subseteq {"failed", "loaded"}
  BY <1>3 DEF Fate, InQueue
<1>4. CASE {pc[a], pc'[a]} \subseteq {"pushed", "signalled"}
  BY <1>4 DEF Fate, InQueue
<1> QED
  BY <1>1, <1>2, <1>3, <1>4

(* An alert whose task has not pushed yet is with its task only.           *)
LEMMA WithItsTask ==
    ASSUME LedgerInv, NEW a \in Alerts, pc[a] \notin Enqueued
    PROVE  log[a] = <<>> /\ ~ Gone(a) /\ ~ InQueue(a) /\ held # a
BY ConstantsAssumption DEF LedgerInv, Owned, Places, Gone, Taken, InQueue, ToSet

(* A task takes its own alert from one fate to the next.                   *)
LEMMA FateOfTask ==
    ASSUME LedgerInv, LedgerInv', NEW a \in Alerts, NEW step,
           pc[a] \in {"new", "sending"}, Goto(a, step),
           UNCHANGED <<items, held, evicted, log>>
    PROVE  /\ Fate(a) = "new"
           /\ \A b \in Alerts : b # a => Fate(b)' = Fate(b)
           /\ step \in {"new", "sending"} => Fate(a)' = "new"
           /\ step \in {"delivered", "skipped", "refused"} => Fate(a)' = step
           /\ step = "failed" => Fate(a)' = "waiting"
<1>1. pc \in [Threads -> TaskSteps \cup RequestSteps] /\ a \in Threads /\ Alerts \subseteq Threads
  BY Types DEF LedgerInv, TypeInv, TypeOK
<1>2. pc[a] \notin Enqueued
  BY DEF Enqueued
<1>3. log[a] = <<>> /\ ~ Gone(a) /\ log'[a] = <<>> /\ ~ Gone(a)'
  BY <1>2, WithItsTask DEF Gone, Taken
<1>4. FateTable /\ FateTable'
  BY FateNow, FateNext
<1>5. pc'[a] = step /\ \A b \in Alerts : b # a => pc'[b] = pc[b]
  BY <1>1 DEF Goto
<1>6. \A b \in Alerts : b # a => Fate(b)' = Fate(b)
  BY <1>5, FateOfStep
<1>7. step = "failed" => Waits(a)'
  BY <1>5 DEF Waits
<1> QED
  BY <1>3, <1>4, <1>5, <1>6, <1>7 DEF FateTable

LEMMA NothingAccepted ==
    ASSUME NEW a \in Alerts, received \in [Alerts -> Nat], UNCHANGED received
    PROVE  Accepts(a, 0)
<1>1. received[a] + 0 = received[a]
  OBVIOUS
<1> QED
  BY <1>1 DEF Accepts

LEMMA BeginStep ==
    ASSUME LedgerInv, LedgerInv', NEW a \in Alerts, Begin(a)
    PROVE  [Ledger!LNext]_(Ledger!ledgerVars)
<1>1. /\ pc[a] = "new" /\ UNCHANGED <<items, held, evicted, log, received, lostAnswers>>
      /\ received \in [Alerts -> Nat]
  BY DEF Begin, queueVars, worldVars, flusherVars, LedgerInv, TypeInv, TypeOK
<1>2. CASE Usable(a)
  <2>1. Goto(a, "sending")
    BY <1>2 DEF Begin
  <2>2. Silent
    BY <1>1, <2>1, FateOfTask DEF Silent
  <2> QED
    BY <2>2, SilentStep
<1>3. CASE ~ Usable(a)
  <2>1. Goto(a, "skipped")
    BY <1>3 DEF Begin
  <2>2. Fate(a) = "new" /\ \A b \in Alerts : Fate(b)' = IF b = a THEN "skipped" ELSE Fate(b)
    BY <1>1, <2>1, FateOfTask
  <2>3. Accepts(a, 0)
    BY <1>1, NothingAccepted
  <2>4. "skipped" \in {"delivered", "skipped", "refused"} /\ UNCHANGED lostAnswers
    BY <1>1
  <2> QED
    BY <2>2, <2>3, <2>4, AsSettle
<1> QED
  BY <1>2, <1>3

LEMMA FarSideCounts ==
    ASSUME TypeInv, NEW a \in Alerts, NEW answer, FarSide(a, answer)
    PROVE  /\ answer = "ok" => Accepts(a, 1) /\ UNCHANGED lostAnswers
           /\ answer = "refused" => UNCHANGED <<received, lostAnswers>>
           /\ answer = "later" => Accepts(a, 0) /\ Loses(a, 0)
           /\ answer = "lost" => Accepts(a, 1) /\ Loses(a, 1)
<1>1. /\ received \in [Alerts -> Nat] /\ lostAnswers \in [Alerts -> 0 .. MaxLost]
      /\ MaxLost \in Nat
  BY ConstantsAssumption DEF TypeInv, TypeOK
<1>2. \A b \in Alerts : received[b] \in Nat /\ lostAnswers[b] \in Nat
  BY <1>1
<1>3. [received EXCEPT ![a] = @ + 0] = received
  BY <1>1, <1>2
<1>4. [lostAnswers EXCEPT ![a] = @ + 0] = lostAnswers
  BY <1>1, <1>2
<1>5. /\ received' = [received EXCEPT ![a] = @ + (IF answer \in {"ok", "lost"} THEN 1 ELSE 0)]
      /\ lostAnswers' = [lostAnswers EXCEPT ![a] = @ + (IF answer = "lost" THEN 1 ELSE 0)]
  BY DEF FarSide
<1>6. CASE answer = "ok"
  BY <1>4, <1>5, <1>6 DEF Accepts
<1>7. CASE answer = "refused"
  BY <1>3, <1>4, <1>5, <1>7
<1>8. CASE answer = "later"
  BY <1>5, <1>8 DEF Accepts, Loses
<1>9. CASE answer = "lost"
  BY <1>5, <1>9 DEF Accepts, Loses
<1> QED
  BY <1>6, <1>7, <1>8, <1>9

LEMMA DeliverStep ==
    ASSUME LedgerInv, LedgerInv', NEW a \in Alerts, Deliver(a)
    PROVE  [Ledger!LNext]_(Ledger!ledgerVars)
<1>1. /\ pc[a] = "sending" /\ UNCHANGED <<items, held, evicted, log>>
      /\ received \in [Alerts -> Nat] /\ TypeInv
  BY DEF Deliver, flusherVars, LedgerInv, TypeInv, TypeOK
<1>2. PICK answer \in Answers(a) :
         /\ FarSide(a, answer)
         /\ answer = "ok" => Goto(a, "delivered")
         /\ answer = "refused" => Goto(a, "refused")
         /\ answer \notin {"ok", "refused"} => \E step \in AfterFailure(a) : Goto(a, step)
  BY DEF Deliver
<1>3. answer \in {"ok", "refused", "later", "lost"}
  BY <1>2 DEF Answers
<1>4. CASE answer = "ok"
  <2>1. Goto(a, "delivered")
    BY <1>2, <1>4
  <2>2. Fate(a) = "new" /\ \A b \in Alerts : Fate(b)' = IF b = a THEN "delivered" ELSE Fate(b)
    BY <1>1, <2>1, FateOfTask
  <2>3. Accepts(a, 1) /\ UNCHANGED lostAnswers
    BY <1>1, <1>2, <1>4, FarSideCounts
  <2>4. "delivered" \in {"delivered", "skipped", "refused"}
    OBVIOUS
  <2> QED
    BY <2>2, <2>3, <2>4, AsSettle
<1>5. CASE answer = "refused"
  <2>1. Goto(a, "refused")
    BY <1>2, <1>5
  <2>2. Fate(a) = "new" /\ \A b \in Alerts : Fate(b)' = IF b = a THEN "refused" ELSE Fate(b)
    BY <1>1, <2>1, FateOfTask
  <2>3. UNCHANGED <<received, lostAnswers>>
    BY <1>1, <1>2, <1>5, FarSideCounts
  <2>4. Accepts(a, 0)
    BY <1>1, <2>3, NothingAccepted
  <2>5. "refused" \in {"delivered", "skipped", "refused"}
    OBVIOUS
  <2> QED
    BY <2>2, <2>3, <2>4, <2>5, AsSettle
<1>6. CASE answer \in {"later", "lost"}
  <2>1. PICK step \in {"sending", "failed"} : Goto(a, step)
    BY <1>2, <1>6 DEF AfterFailure
  <2>2. /\ Fate(a) = "new" /\ Fate(a)' \in {Fate(a), "waiting"}
        /\ \A b \in Alerts : b # a => Fate(b)' = Fate(b)
    BY <1>1, <2>1, FateOfTask
  <2>3. PICK lost \in {0, 1} : Accepts(a, lost) /\ Loses(a, lost)
    BY <1>1, <1>2, <1>6, FarSideCounts
  <2> QED
    BY <2>2, <2>3, AsFail
<1> QED
  BY <1>3, <1>4, <1>5, <1>6

LEMMA PopFates ==
    ASSUME LedgerInv, Pop
    PROVE  Silent
<1>1. held = None /\ Pops /\ items \in Seq(Alerts) /\ None \notin Alerts
  BY FlusherMoves, Types DEF LedgerInv
<1>2. ToSet(items) = ToSet(items') \cup {held'} /\ UNCHANGED <<evicted, log, pc>>
  BY <1>1, HeadAndTail DEF Pops
<1>3. \A a \in Alerts : (InQueue(a) \/ held = a)' <=> InQueue(a) \/ held = a
  BY <1>1, <1>2 DEF InQueue
<1>4. \A a \in Alerts : Gone(a)' <=> Gone(a)
  BY <1>2 DEF Gone, Taken
<1>5. \A a \in Alerts : Fate(a)' = Fate(a)
  BY <1>2, <1>3, <1>4, FateKept
<1> QED
  BY <1>5 DEF Pop, Silent, worldVars

LEMMA RequeueStep ==
    ASSUME LedgerInv, Requeue
    PROVE  [Ledger!LNext]_(Ledger!ledgerVars)
<1>1. held \in Alerts /\ PutsBack /\ items \in Seq(Alerts) /\ None \notin Alerts /\ TypeInv
  BY FlusherMoves, Types DEF LedgerInv, PutsBack
<1>2. ToSet(items') = ToSet(items) \cup {held} /\ held' = None /\ UNCHANGED <<evicted, log, pc>>
  BY <1>1, FrontAdds DEF PutsBack
<1>3. \A a \in Alerts : (InQueue(a) \/ held = a)' <=> InQueue(a) \/ held = a
  BY <1>1, <1>2 DEF InQueue
<1>4. \A a \in Alerts : Gone(a)' <=> Gone(a)
  BY <1>2 DEF Gone, Taken
<1>5. \A a \in Alerts : Fate(a)' = Fate(a)
  BY <1>2, <1>3, <1>4, FateKept
<1>6. PICK answer \in {"later", "lost"} : FarSide(held, answer)
  BY DEF Requeue
<1>7. PICK lost \in {0, 1} : Accepts(held, lost) /\ Loses(held, lost)
  BY <1>1, <1>6, FarSideCounts
<1>8. Fate(held) = "waiting"
  BY <1>1, HeldWaits
<1>9. PICK a \in Alerts : a = held
  BY <1>1
<1>10. /\ Accepts(a, lost) /\ Loses(a, lost) /\ Fate(a) \in {"new", "waiting"}
       /\ Fate(a)' \in {Fate(a), "waiting"}
       /\ \A b \in Alerts : b # a => Fate(b)' = Fate(b)
  BY <1>5, <1>7, <1>8, <1>9
<1> QED
  BY <1>10, AsFail

LEMMA VerdictStep ==
    ASSUME LedgerInv, LedgerInv', Resent \/ GiveUp \/ (LookUp /\ ~ Usable(held))
    PROVE  [Ledger!LNext]_(Ledger!ledgerVars)
<1>1. TypeInv
  BY DEF LedgerInv
<1>2. CASE Resent
  <2>1. Settles("resent") /\ "resent" \in Marks
    BY <1>1, <1>2, FlusherMoves DEF Marks
  <2>2. /\ held \in Alerts /\ Fate(held) = "waiting"
        /\ \A b \in Alerts : Fate(b)' = IF b = held THEN "resent" ELSE Fate(b)
    BY <2>1, SettlesFates
  <2>3. FarSide(held, "ok")
    BY <1>2 DEF Resent
  <2>4. Accepts(held, 1) /\ UNCHANGED lostAnswers
    BY <1>1, <2>2, <2>3, FarSideCounts
  <2> QED
    BY <2>2, <2>4, AsResend
<1>3. CASE GiveUp \/ (LookUp /\ ~ Usable(held))
  <2>1. Settles("gaveUp") /\ "gaveUp" \in Marks /\ UNCHANGED <<received, lostAnswers>>
    BY <1>1, <1>3, FlusherMoves DEF Marks, GiveUp, LookUp, worldVars
  <2>2. /\ held \in Alerts /\ Fate(held) = "waiting"
        /\ \A b \in Alerts : Fate(b)' = IF b = held THEN "gaveUp" ELSE Fate(b)
    BY <2>1, SettlesFates
  <2> QED
    BY <2>1, <2>2, AsGiveUp
<1> QED
  BY <1>2, <1>3

LEMMA LedgerStep ==
    ASSUME LedgerInv, LedgerInv', [Next]_vars
    PROVE  [Ledger!LNext]_(Ledger!ledgerVars)
<1>1. /\ pc \in [Threads -> TaskSteps \cup RequestSteps] /\ items \in Seq(Alerts)
      /\ Alerts \subseteq Threads /\ Requests \subseteq Threads
      /\ \A r \in Requests : r \notin Alerts
      /\ TypeInv /\ Places /\ StepsInv
  BY Types, ConstantsAssumption DEF LedgerInv, TypeInv, TypeOK
<1>2. ASSUME NEW a \in Alerts, LoadLimit(a) \/ Signal(a)
      PROVE  [Ledger!LNext]_(Ledger!ledgerVars)
  <2>1. UNCHANGED <<items, held, evicted, log, received, lostAnswers>>
    BY <1>2 DEF LoadLimit, Signal, queueVars, worldVars, flusherVars
  <2>2. \/ pc[a] = "failed" /\ Goto(a, "loaded")
        \/ pc[a] = "pushed" /\ Goto(a, "signalled")
    BY <1>2 DEF LoadLimit, Signal
  <2>3. /\ \A b \in Alerts : b # a => pc'[b] = pc[b]
        /\ \/ {pc[a], pc'[a]} \subseteq {"failed", "loaded"}
           \/ {pc[a], pc'[a]} \subseteq {"pushed", "signalled"}
    BY <1>1, <2>2 DEF Goto
  <2>4. \A b \in Alerts : Fate(b)' = Fate(b)
    BY <2>1, <2>3, FateOfStep
  <2>5. Silent
    BY <2>1, <2>4 DEF Silent
  <2> QED
    BY <2>5, SilentStep
<1>3. ASSUME NEW a \in Alerts, Push(a) PROVE [Ledger!LNext]_(Ledger!ledgerVars)
  <2> DEFINE q == InsertByTime(items, a)
             N == {a}
  <2>1. /\ SplitsOff(a, N, Kept(q, limit[a]), Evicted(q, limit[a]))
        /\ limit[a] \in Nat /\ limit[a] # None
    BY <1>1, <1>3, PushSplits
  <2>2. q \in Seq(Alerts) /\ a \in Threads
    BY <1>1, InsertLemma
  <2>3. /\ \A b \in N : pc[b] = "loaded" /\ pc'[b] = "pushed"
        /\ \A b \in Alerts \ N : pc'[b] = pc[b]
        /\ UNCHANGED <<received, lostAnswers>>
    BY <1>1, <1>3 DEF Push, Goto, worldVars
  <2> HIDE DEF q, N
  <2> QED
    BY <2>1, <2>2, <2>3, SplitsStep
<1>4. ASSUME NEW r \in Requests, Trim(r) PROVE [Ledger!LNext]_(Ledger!ledgerVars)
  <2> DEFINE q == items
             N == {}
  <2>1. /\ SplitsOff(r, N, Kept(q, limit[r]), Evicted(q, limit[r]))
        /\ limit[r] \in Nat /\ limit[r] # None
    BY <1>1, <1>4, TrimSplits
  <2>2. q \in Seq(Alerts) /\ r \in Threads
    BY <1>1
  <2>3. /\ \A b \in N : pc[b] = "loaded" /\ pc'[b] = "pushed"
        /\ \A b \in Alerts \ N : pc'[b] = pc[b]
        /\ UNCHANGED <<received, lostAnswers>>
    BY <1>1, <1>4 DEF Trim, Goto, worldVars
  <2> HIDE DEF q, N
  <2> QED
    BY <2>1, <2>2, <2>3, SplitsStep
<1>5. ASSUME NEW a \in Alerts, LogQueued(a) PROVE [Ledger!LNext]_(Ledger!ledgerVars)
  <2>1. Records(a) /\ a \in Threads /\ UNCHANGED <<received, lostAnswers>>
    BY <1>1, <1>5, LogRecords DEF LogQueued, worldVars
  <2>2. \A b \in Alerts : pc'[b] = pc[b] \/ {pc[b], pc'[b]} \subseteq Enqueued
    BY <1>1, <1>5 DEF LogQueued, Goto, Enqueued
  <2> QED
    BY <2>1, <2>2, RecordsStep
<1>6. ASSUME NEW r \in Requests, LogTrim(r) PROVE [Ledger!LNext]_(Ledger!ledgerVars)
  <2>1. Records(r) /\ r \in Threads /\ UNCHANGED <<received, lostAnswers>>
    BY <1>1, <1>6, LogRecords DEF LogTrim, worldVars
  <2>2. \A b \in Alerts : pc'[b] = pc[b]
    BY <1>1, <1>6 DEF LogTrim, Goto
  <2> QED
    BY <2>1, <2>2, RecordsStep
<1>7. ASSUME NEW r \in Requests, StoreLimit(r) PROVE [Ledger!LNext]_(Ledger!ledgerVars)
  <2>1. /\ UNCHANGED <<items, held, evicted, log, received, lostAnswers>>
        /\ \A b \in Alerts : pc'[b] = pc[b]
    BY <1>1, <1>7 DEF StoreLimit, Goto, queueVars, worldVars, flusherVars
  <2>2. Silent
    BY <2>1, FateOfStep DEF Silent
  <2> QED
    BY <2>2, SilentStep
<1>8. ASSUME UNCHANGED <<items, held, evicted, log, received, lostAnswers, pc>>
      PROVE  [Ledger!LNext]_(Ledger!ledgerVars)
  <2>1. Silent
    BY <1>8, FateOfStep DEF Silent
  <2> QED
    BY <2>1, SilentStep
<1>9. CASE Pop
  BY <1>9, PopFates, SilentStep
<1>10. CASE Requeue
  BY <1>10, RequeueStep
<1>11. CASE Resent \/ GiveUp \/ (LookUp /\ ~ Usable(held))
  BY <1>11, VerdictStep
<1>12. ASSUME NEW a \in Alerts, Begin(a) \/ Deliver(a) PROVE [Ledger!LNext]_(Ledger!ledgerVars)
  BY <1>12, BeginStep, DeliverStep
<1>13. \/ \E a \in Alerts : NotifyTask(a)
       \/ \E r \in Requests : SettingsRequest(r)
       \/ Pop \/ Requeue \/ Resent \/ GiveUp \/ (LookUp /\ ~ Usable(held))
       \/ UNCHANGED <<items, held, evicted, log, received, lostAnswers, pc>>
  BY DEF Next, Flusher, EditChannel, Kick, CheckEmpty, WorkArrives, BackoffEnds, Drained,
     LookUp, vars, queueVars, threadVars, worldVars, flusherVars
<1> QED
  BY <1>2, <1>3, <1>4, <1>5, <1>6, <1>7, <1>8, <1>9, <1>10, <1>11, <1>12, <1>13
     DEF NotifyTask, SettingsRequest

LEMMA LedgerStart == Init => Ledger!LInit
<1> SUFFICES ASSUME Init PROVE Ledger!LInit
  OBVIOUS
<1>1. \A a \in Alerts : log[a] = <<>> /\ pc[a] = "new" /\ ~ Gone(a)
  BY Marked DEF Init, Threads, Gone, Taken
<1>2. FateTable
  BY FateNow, TypeInit, PlacesInit, StepsInit, OwnedInit DEF LedgerInv
<1>3. \A a \in Alerts : Fate(a) = "new"
  BY <1>1, <1>2 DEF FateTable
<1>4. (\E max \in {retryQueue} \cup {limit[t] : t \in Threads} : max \notin {0, None}) \in BOOLEAN
  OBVIOUS
<1> QED
  BY <1>3, <1>4 DEF Ledger!LInit, Init

(* The queue, its flusher and the settings requests implement the ledger,  *)
(* whatever the number of threads and alerts, and whatever the limits:     *)
(* what could not go out waits until it is sent again, given up or         *)
(* evicted, nothing leaves one of these ends, nothing is evicted without a *)
(* limit, and the far side gets an alert again only after a lost answer    *)
(* (retry.rs:95-140, pipeline.rs:284-450 and 469-637).                     *)
THEOREM LedgerTheorem == Spec => LedgerKept
<1>1. Init => Ledger!LInit
  BY LedgerStart
<1>2. LedgerInv /\ LedgerInv' /\ [Next]_vars => [Ledger!LNext]_(Ledger!ledgerVars)
  BY LedgerStep
<1> QED
  BY <1>1, <1>2, LedgerInvariant, PTL DEF Spec, LedgerKept, Ledger!LSpec
=============================================================================
