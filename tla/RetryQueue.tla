----------------------------- MODULE RetryQueue -----------------------------
(***************************************************************************)
(* The retry queue of stmp2log (retry.rs) and the threads that share it    *)
(* (pipeline.rs, api.rs):                                                  *)
(*                                                                         *)
(*   - notify tasks, which try to deliver each alert (a message to one     *)
(*     channel, or to the forwarding target) and, when the failure is      *)
(*     worth repeating, queue it (notify, forward, enqueue); here every    *)
(*     alert has a task to itself, so all their orders are covered;        *)
(*   - the flusher, one task for the life of the process, which sleeps     *)
(*     while the queue is empty, backs off, and sends the backlog again    *)
(*     (run_retry, flush, send_queued);                                    *)
(*   - settings requests, which change the limit and trim the queue        *)
(*     (put_settings, trim_retry), and the "retry now" button (kick).      *)
(*                                                                         *)
(* The runtime has several worker threads, so every step between two       *)
(* uses of the queue's mutex, of a Notify or of an await is an action of   *)
(* its own.  Payloads, error texts and the clock are abstracted: At gives  *)
(* the time an alert happened, a sleep ends at any moment.                 *)
(*                                                                         *)
(* A definition marked "Slip" is no part of the model: it is the next one  *)
(* with a mistake that a property below has to notice.                     *)
(***************************************************************************)
EXTENDS Naturals, SequencesExt

CONSTANTS Alerts,      \* the alerts that have to be delivered
          Requests,    \* PUT /settings requests that change retry_queue
          Channels,    \* the targets: notification channels and push hosts
          PushHosts,   \* those of them that are the forwarding target
          Unreachable, \* those the network never reaches
          At,          \* [Alerts -> Nat], when each alert happened
          Target,      \* [Alerts -> Channels], where each one goes
          Limits,      \* the values retry_queue is ever given; 0: no limit
          FirstDelay,  \* FIRST_DELAY, in units of the model
          MaxDelay,    \* MAX_DELAY
          MaxLost,     \* bound: answers lost per alert after it was accepted
          None         \* no entry, no limit

ASSUME ConstantsAssumption ==
    /\ Alerts \cap Requests = {}
    /\ PushHosts \subseteq Channels
    /\ Unreachable \subseteq Channels
    /\ At \in [Alerts -> Nat]
    /\ Target \in [Alerts -> Channels]
    /\ Limits \subseteq Nat
    /\ Limits # {}
    /\ FirstDelay \in Nat \ {0}
    /\ MaxDelay \in Nat
    /\ FirstDelay <= MaxDelay
    /\ MaxLost \in Nat
    /\ None \notin Alerts
    /\ None \notin Nat

VARIABLES
    items,       \* Queue.items, the backlog, front first
    work,        \* Queue.work holds a permit
    up,          \* Queue.up holds a permit
    dropped,     \* Queue.dropped
    retryQueue,  \* settings.retry_queue
    enabled,     \* the channels that exist and are enabled
    pc,          \* where each notify task and each settings request stands
    limit,       \* the limit each of them has read and will use, or None
    evicted,     \* the entries each of them has evicted and not yet logged
    flusher,     \* where the flusher stands
    held,        \* the entry it has popped, or None
    sent,        \* the pass under way has sent something
    delay,       \* the backoff it waits next
    tried,       \* the entries it has tried (it made Pending.attempts grow)
    log,         \* the final Retry marks notify_log has for each alert
    received,    \* how often the far side accepted each alert
    lostAnswers  \* how often it did so and the answer was lost

queueVars   == <<items, work, up, dropped>>
worldVars   == <<enabled, received, lostAnswers>>
threadVars  == <<pc, limit, evicted>>
flusherVars == <<flusher, held, sent, delay, tried>>
vars == <<queueVars, worldVars, threadVars, flusherVars, retryQueue, log>>

Threads   == Alerts \cup Requests
TaskSteps == {"new", "sending", "failed", "loaded", "pushed", "signalled",
              "delivered", "skipped", "refused", "queued"}
RequestSteps == {"new", "stored", "trimmed", "done"}
FlusherSteps == {"check", "waitWork", "backoff", "pop", "lookup", "sending"}
(* Retry::Dropped is two marks here: "evicted" by the limit (the error is  *)
(* the one of the last attempt) and "gaveUp" (the reason of the verdict).  *)
(* Retry::Queued is pc[a] = "queued".                                      *)
Marks == {"resent", "gaveUp", "evicted"}

TypeOK ==
    /\ items \in Seq(Alerts)
    /\ work \in BOOLEAN
    /\ up \in BOOLEAN
    /\ dropped \in Nat
    /\ retryQueue \in Limits
    /\ enabled \subseteq Channels
    /\ pc \in [Threads -> TaskSteps \cup RequestSteps]
    /\ limit \in [Threads -> Limits \cup {None}]
    /\ evicted \in [Threads -> Seq(Alerts)]
    /\ flusher \in FlusherSteps
    /\ held \in Alerts \cup {None}
    /\ sent \in BOOLEAN
    /\ delay \in FirstDelay .. MaxDelay
    /\ tried \subseteq Alerts
    /\ log \in [Alerts -> Seq(Marks)]
    /\ received \in [Alerts -> Nat]
    /\ lostAnswers \in [Alerts -> 0 .. MaxLost]

-----------------------------------------------------------------------------
(* The queue's operations on its VecDeque.                                 *)

(* insert_by_time's rposition: how many entries stay before a new one.     *)
InsertPos(q, a) ==
    CHOOSE p \in 0 .. Len(q) :
        /\ p = 0 \/ At[q[p]] <= At[a]
        /\ \A k \in (p + 1) .. Len(q) : At[q[k]] > At[a]

(* (Slip: the entry is queued at the back.)                                *)
AppendAtBack(q, a) == Append(q, a)

InsertByTime(q, a) == InsertAt(q, InsertPos(q, a) + 1, a)

(* evict: the entries at the front that are over the limit; 0 is no limit. *)
(* (Slip: one entry too many stays.)                                       *)
OverLimitByTwo(q, max) == IF max = 0 \/ Len(q) <= max + 1 THEN 0 ELSE Len(q) - max - 1

OverLimit(q, max) == IF max = 0 \/ Len(q) <= max THEN 0 ELSE Len(q) - max
Evicted(q, max)   == SubSeq(q, 1, OverLimit(q, max))
(* (Slip: what is evicted stays in the queue as well.)                     *)
KeptAndEvicted(q, max) == q

Kept(q, max)      == SubSeq(q, OverLimit(q, max) + 1, Len(q))

(* (Slip: the backoff grows without its ceiling.)                          *)
UncappedDelay(d) == 2 * d

NextDelay(d) == IF 2 * d <= MaxDelay THEN 2 * d ELSE MaxDelay

(* What an attempt on a's target can meet: accepted; accepted, but the     *)
(* answer lost, which the sender takes for a retryable failure; another    *)
(* retryable failure; a refusal that is not worth repeating.  The network  *)
(* has no memory, except that it never reaches a channel in Unreachable.   *)
Answers(a) ==
    IF Target[a] \in Unreachable THEN {"later"}
    ELSE {"ok", "later", "refused"} \cup (IF lostAnswers[a] < MaxLost THEN {"lost"} ELSE {})

FarSide(a, answer) ==
    /\ received' = [received EXCEPT ![a] = @ + (IF answer \in {"ok", "lost"} THEN 1 ELSE 0)]
    /\ lostAnswers' = [lostAnswers EXCEPT ![a] = @ + (IF answer = "lost" THEN 1 ELSE 0)]

Usable(a) == Target[a] \in PushHosts \cup enabled

-----------------------------------------------------------------------------
Init ==
    /\ items = <<>>
    /\ work = FALSE
    /\ up = FALSE
    /\ dropped = 0
    /\ retryQueue \in Limits
    /\ enabled = Channels \ PushHosts
    /\ pc = [t \in Threads |-> "new"]
    /\ limit = [t \in Threads |-> None]
    /\ evicted = [t \in Threads |-> <<>>]
    /\ flusher = "check"
    /\ held = None
    /\ sent = FALSE
    /\ delay = FirstDelay
    /\ tried = {}
    /\ log = [a \in Alerts |-> <<>>]
    /\ received = [a \in Alerts |-> 0]
    /\ lostAnswers = [a \in Alerts |-> 0]

-----------------------------------------------------------------------------
(* A notify task.                                                          *)

Goto(t, step) == pc' = [pc EXCEPT ![t] = step]

(* notify goes by the configuration it finds now: the channel is usable    *)
(* and it starts to send, or it is gone or disabled and nothing is sent.   *)
Begin(a) ==
    /\ pc[a] = "new"
    /\ Goto(a, IF Usable(a) THEN "sending" ELSE "skipped")
    /\ UNCHANGED <<queueVars, worldVars, flusherVars, limit, evicted, retryQueue, log>>

(* One attempt of the first delivery ends.  A notification gets several, a *)
(* forward gets one.  A success calls recovered(), which wakes a flusher   *)
(* in its backoff when something waits.  (A refused forward is logged as   *)
(* dropped, a refused notification without a mark: neither was queued.)    *)
AfterFailure(a) == IF Target[a] \in PushHosts THEN {"failed"} ELSE {"sending", "failed"}

Deliver(a) ==
    /\ pc[a] = "sending"
    /\ \E answer \in Answers(a) :
          /\ FarSide(a, answer)
          /\ up' = (up \/ (answer = "ok" /\ items # <<>>))
          /\ CASE answer = "ok"      -> Goto(a, "delivered")
               [] answer = "refused" -> Goto(a, "refused")
               [] OTHER              -> \E step \in AfterFailure(a) : Goto(a, step)
    /\ UNCHANGED <<items, work, dropped, enabled, limit, evicted,
                   flusherVars, retryQueue, log>>

(* enqueue reads the limit before it takes the queue's mutex ...           *)
LoadLimit(a) ==
    /\ pc[a] = "failed"
    /\ limit' = [limit EXCEPT ![a] = retryQueue]
    /\ Goto(a, "loaded")
    /\ UNCHANGED <<queueVars, worldVars, flusherVars, evicted, retryQueue, log>>

(* ... Queue::push inserts and evicts under the mutex ...                  *)
Push(a) ==
    /\ pc[a] = "loaded"
    /\ LET q == InsertByTime(items, a)
       IN  /\ items' = Kept(q, limit[a])
           /\ evicted' = [evicted EXCEPT ![a] = Evicted(q, limit[a])]
    /\ limit' = [limit EXCEPT ![a] = None]
    /\ Goto(a, "pushed")
    /\ UNCHANGED <<work, up, dropped, worldVars, flusherVars, retryQueue, log>>

(* (Slip: the flusher is woken only by what it takes for the first entry.) *)
SignalFirstOnly(a) ==
    /\ pc[a] = "pushed"
    /\ dropped' = dropped + Len(evicted[a])
    /\ work' = (work \/ Len(items) = 1)
    /\ Goto(a, "signalled")
    /\ UNCHANGED <<items, up, worldVars, flusherVars, limit, evicted, retryQueue, log>>

(* ... and, the mutex released, counts the evicted and signals the work.   *)
Signal(a) ==
    /\ pc[a] = "pushed"
    /\ dropped' = dropped + Len(evicted[a])
    /\ work' = TRUE
    /\ Goto(a, "signalled")
    /\ UNCHANGED <<items, up, worldVars, flusherVars, limit, evicted, retryQueue, log>>

MarkEvicted(S) == [b \in Alerts |-> IF b \in S THEN Append(log[b], "evicted") ELSE log[b]]

(* enqueue records what it evicted, its caller then records the alert.     *)
LogQueued(a) ==
    /\ pc[a] = "signalled"
    /\ log' = MarkEvicted(ToSet(evicted[a]))
    /\ evicted' = [evicted EXCEPT ![a] = <<>>]
    /\ Goto(a, "queued")
    /\ UNCHANGED <<queueVars, worldVars, flusherVars, limit, retryQueue>>

NotifyTask(a) ==
    Begin(a) \/ Deliver(a) \/ LoadLimit(a) \/ Push(a) \/ Signal(a) \/ LogQueued(a)

-----------------------------------------------------------------------------
(* A settings request, and the rest of what the API does to the queue.     *)

(* put_settings stores the new settings ...                                *)
StoreLimit(r) ==
    /\ pc[r] = "new"
    /\ \E max \in Limits :
          /\ retryQueue' = max
          /\ limit' = [limit EXCEPT ![r] = max]
    /\ Goto(r, "stored")
    /\ UNCHANGED <<queueVars, worldVars, flusherVars, evicted, log>>

(* ... then trims the queue to them, ...                                   *)
Trim(r) ==
    /\ pc[r] = "stored"
    /\ items' = Kept(items, limit[r])
    /\ evicted' = [evicted EXCEPT ![r] = Evicted(items, limit[r])]
    /\ limit' = [limit EXCEPT ![r] = None]
    /\ Goto(r, "trimmed")
    /\ UNCHANGED <<work, up, dropped, worldVars, flusherVars, retryQueue, log>>

(* (Slip: what a new limit evicts is recorded and not counted.)            *)
LogTrimUncounted(r) ==
    /\ pc[r] = "trimmed"
    /\ log' = MarkEvicted(ToSet(evicted[r]))
    /\ evicted' = [evicted EXCEPT ![r] = <<>>]
    /\ Goto(r, "done")
    /\ UNCHANGED <<queueVars, worldVars, flusherVars, limit, retryQueue>>

(* ... and, the mutex released, counts and records what that evicted.      *)
LogTrim(r) ==
    /\ pc[r] = "trimmed"
    /\ dropped' = dropped + Len(evicted[r])
    /\ log' = MarkEvicted(ToSet(evicted[r]))
    /\ evicted' = [evicted EXCEPT ![r] = <<>>]
    /\ Goto(r, "done")
    /\ UNCHANGED <<items, work, up, worldVars, flusherVars, limit, retryQueue>>

SettingsRequest(r) == StoreLimit(r) \/ Trim(r) \/ LogTrim(r)

(* retry_now: both permits, whatever the flusher is doing.                 *)
Kick ==
    /\ work' = TRUE
    /\ up' = TRUE
    /\ UNCHANGED <<items, dropped, worldVars, threadVars, flusherVars, retryQueue, log>>

(* A channel is deleted, disabled or enabled.                              *)
EditChannel(c) ==
    /\ c \notin PushHosts
    /\ enabled' = IF c \in enabled THEN enabled \ {c} ELSE enabled \cup {c}
    /\ UNCHANGED <<queueVars, received, lostAnswers, threadVars, flusherVars,
                   retryQueue, log>>

-----------------------------------------------------------------------------
(* The flusher, run_retry.                                                 *)

(* The loop's head: is_empty decides between the two waits.  The mutex is  *)
(* free again before wait_for_work begins.                                 *)
CheckEmpty ==
    /\ flusher = "check"
    /\ flusher' = IF items = <<>> THEN "waitWork" ELSE "backoff"
    /\ UNCHANGED <<queueVars, worldVars, threadVars, held, sent, delay, tried,
                   retryQueue, log>>

WorkArrives ==
    /\ flusher = "waitWork"
    /\ work
    /\ work' = FALSE
    /\ delay' = FirstDelay
    /\ flusher' = "backoff"
    /\ UNCHANGED <<items, up, dropped, worldVars, threadVars, held, sent, tried,
                   retryQueue, log>>

(* (Slip: only the permit ends the backoff.)                               *)
BackoffEndsByPermit ==
    /\ flusher = "backoff"
    /\ up
    /\ up' = FALSE
    /\ flusher' = "pop"
    /\ UNCHANGED <<items, work, dropped, worldVars, threadVars, held, sent, delay,
                   tried, retryQueue, log>>

(* wait_backoff: the sleep ends, or the up permit cuts it short; then      *)
(* flush begins.                                                           *)
BackoffEnds ==
    /\ flusher = "backoff"
    /\ up' \in {up, FALSE}
    /\ flusher' = "pop"
    /\ UNCHANGED <<items, work, dropped, worldVars, threadVars, held, sent, delay,
                   tried, retryQueue, log>>

Pop ==
    /\ flusher = "pop"
    /\ items # <<>>
    /\ held' = Head(items)
    /\ items' = Tail(items)
    /\ tried' = tried \cup {Head(items)}
    /\ flusher' = "lookup"
    /\ UNCHANGED <<work, up, dropped, worldVars, threadVars, sent, delay, retryQueue, log>>

(* The backlog is gone: the pass ends and the backoff starts over.         *)
Drained ==
    /\ flusher = "pop"
    /\ items = <<>>
    /\ delay' = FirstDelay
    /\ sent' = FALSE
    /\ flusher' = "check"
    /\ UNCHANGED <<queueVars, worldVars, threadVars, held, tried, retryQueue, log>>

(* send_queued gives up on a channel that was deleted or disabled; of one  *)
(* that is usable it takes the configuration and starts the attempt.       *)
Settle(mark) ==
    /\ log' = [log EXCEPT ![held] = Append(@, mark)]
    /\ held' = None
    /\ tried' = tried \ {held}
    /\ flusher' = "pop"

LookUp ==
    /\ flusher = "lookup"
    /\ IF Usable(held)
       THEN /\ flusher' = "sending"
            /\ UNCHANGED <<held, tried, log>>
       ELSE Settle("gaveUp")
    /\ UNCHANGED <<queueVars, worldVars, threadVars, sent, delay, retryQueue>>

Resent ==
    /\ flusher = "sending"
    /\ "ok" \in Answers(held)
    /\ FarSide(held, "ok")
    /\ Settle("resent")
    /\ sent' = TRUE
    /\ UNCHANGED <<queueVars, enabled, threadVars, delay, retryQueue>>

GiveUp ==
    /\ flusher = "sending"
    /\ "refused" \in Answers(held)
    /\ Settle("gaveUp")
    /\ UNCHANGED <<queueVars, worldVars, threadVars, sent, delay, retryQueue>>

(* (Slip: an entry that finds the queue full is let go.)                   *)
RequeueIfRoom ==
    /\ flusher = "sending"
    /\ \E answer \in Answers(held) \cap {"later", "lost"} : FarSide(held, answer)
    /\ items' = Kept(<<held>> \o items, retryQueue)
    /\ held' = None
    /\ delay' = IF sent THEN FirstDelay ELSE NextDelay(delay)
    /\ sent' = FALSE
    /\ flusher' = "check"
    /\ UNCHANGED <<work, up, dropped, enabled, threadVars, tried, retryQueue, log>>

(* (Slip: a stalled pass waits for the next alert.)                        *)
RequeueAndSleep ==
    /\ flusher = "sending"
    /\ \E answer \in Answers(held) \cap {"later", "lost"} : FarSide(held, answer)
    /\ items' = <<held>> \o items
    /\ held' = None
    /\ delay' = IF sent THEN FirstDelay ELSE NextDelay(delay)
    /\ sent' = FALSE
    /\ flusher' = "waitWork"
    /\ UNCHANGED <<work, up, dropped, enabled, threadVars, tried, retryQueue, log>>

(* A retryable failure: requeue puts the entry back at the front, without  *)
(* a look at the limit, and the pass ends, stalled.                        *)
Requeue ==
    /\ flusher = "sending"
    /\ \E answer \in Answers(held) \cap {"later", "lost"} : FarSide(held, answer)
    /\ items' = <<held>> \o items
    /\ held' = None
    /\ delay' = IF sent THEN FirstDelay ELSE NextDelay(delay)
    /\ sent' = FALSE
    /\ flusher' = "check"
    /\ UNCHANGED <<work, up, dropped, enabled, threadVars, tried, retryQueue, log>>

Flusher ==
    \/ CheckEmpty \/ WorkArrives \/ BackoffEnds \/ Pop \/ Drained
    \/ LookUp \/ Resent \/ GiveUp \/ Requeue

-----------------------------------------------------------------------------
Next ==
    \/ \E a \in Alerts : NotifyTask(a)
    \/ \E r \in Requests : SettingsRequest(r)
    \/ \E c \in Channels : EditChannel(c)
    \/ Kick
    \/ Flusher

Spec == Init /\ [][Next]_vars

(* Every task the runtime has started is polled again, a sleep ends, and   *)
(* an attempt ends (it has a timeout).  Users and the network owe nothing. *)
Fairness ==
    /\ \A a \in Alerts : WF_vars(NotifyTask(a))
    /\ \A r \in Requests : WF_vars(Trim(r) \/ LogTrim(r))
    /\ WF_vars(Flusher)

FairSpec == Spec /\ Fairness

(* The network recovers: an alert that is tried again and again is not     *)
(* answered "later" for ever.                                              *)
Settled(a) == held = a /\ (Resent \/ GiveUp)
NetworkRecovers == \A a \in Alerts : SF_vars(Settled(a))

-----------------------------------------------------------------------------
(* Properties.                                                             *)

InQueue(a) == a \in ToSet(items)

(* No lost wake-up.  The flusher decides to sleep on `work` after it has   *)
(* let go of the mutex (run_retry), and push signals after it has let go   *)
(* of it: whenever the flusher sleeps over a backlog, a permit is there or *)
(* a task that has pushed is about to leave one.                           *)
NoLostWakeup ==
    flusher = "waitWork" /\ items # <<>>
        => work \/ \E a \in Alerts : pc[a] = "pushed"

(* An alert has one holder.  It sits in the backlog once at most; it is    *)
(* not at the same time in the flusher's hand, in two eviction lists, or   *)
(* with its own task still ahead of the push.                              *)
Holders(a) ==
    {<<"queue", k>> : k \in {k \in DOMAIN items : items[k] = a}}
        \cup {<<"hand", h>> : h \in {held} \cap {a}}
        \cup {<<"evictor", t>> : t \in {t \in Threads : a \in ToSet(evicted[t])}}
        \cup {<<"task", t>> : t \in {a} \cap {b \in Alerts :
                    pc[b] \in TaskSteps \ {"pushed", "signalled", "queued"}}}
        \cup {<<"done", m>> : m \in DOMAIN log[a]}

OneHolder ==
    \A a \in Alerts : \E h \in Holders(a) : Holders(a) = {h}

(* The backlog is ordered by the time of the alert except for what the     *)
(* flusher has put back: requeue does not look at `at`, and nothing else   *)
(* ever puts a younger alert before an older one.                          *)
OrderedUnlessTried ==
    \A j, k \in DOMAIN items :
        j < k /\ items[j] \notin tried => At[items[j]] <= At[items[k]]

(* With a limit on at all times the memory is bounded: by the largest      *)
(* limit ever set, and the one entry the flusher may put back on top of a  *)
(* queue that filled up meanwhile.                                         *)
QueueBound ==
    \A max \in Limits : 0 \notin Limits /\ (\A m \in Limits : m <= max)
        => Len(items) + (IF held = None THEN 0 ELSE 1) <= max + 1

(* The number the web page shows as dropped (Queue.dropped) is exactly the *)
(* number of alerts the limit evicted, each counted once, whatever threads *)
(* were between the eviction, the count and the log entry.                 *)
DroppedIsExact ==
    dropped = Cardinality(
        {a \in Alerts : \/ "evicted" \in ToSet(log[a])
                        \/ \E b \in Alerts : pc[b] = "signalled" /\ a \in ToSet(evicted[b])})

(* Where the ledger sees an alert: evicted from the moment the queue's     *)
(* mutex is released, lost if it is nowhere.                               *)
Fate(a) ==
    CASE "resent" \in ToSet(log[a]) -> "resent"
      [] "gaveUp" \in ToSet(log[a]) -> "gaveUp"
      [] "evicted" \in ToSet(log[a]) \/ (\E t \in Threads : a \in ToSet(evicted[t])) -> "evicted"
      [] pc[a] \in {"new", "sending"} -> "new"
      [] pc[a] \in {"delivered", "skipped", "refused"} -> pc[a]
      [] InQueue(a) \/ held = a \/ pc[a] \in {"failed", "loaded"} -> "waiting"
      [] OTHER -> "lost"

Ledger == INSTANCE AlertLedger
            WITH fate <- [a \in Alerts |-> Fate(a)],
                 limited <- (\E max \in {retryQueue} \cup {limit[t] : t \in Threads} :
                                max \notin {0, None})

(* The queue, its flusher and the settings requests implement the ledger:  *)
(* what could not be pushed waits until it is sent, given up or evicted    *)
(* (readme.md:124), and nothing is evicted while retry_queue is 0          *)
(* (readme.md:99), but for a limit a thread had read before.               *)
LedgerKept == Ledger!LSpec

(* Nothing stops the flusher: however often it fails, a backlog is tried   *)
(* again (the loop of run_retry has no way out, and no wait without end).  *)
BacklogIsRetried == items # <<>> ~> flusher = "lookup"

(* Once the network recovers, every alert whose first delivery failed is   *)
(* sent again, given up or evicted: none waits for ever.                   *)
EveryAlertSettles ==
    NetworkRecovers => \A a \in Alerts : pc[a] = "failed" ~> log[a] # <<>>

-----------------------------------------------------------------------------
(* What the readme says of the queue, and the code does not do: requeue    *)
(* puts an entry back at the front whatever its age, and ends the pass.    *)

(* readme.md:124: what waits is tried again within five minutes at most;   *)
(* so an alert does not wait for ever without being tried.                 *)
EveryAlertIsRetried == \A a \in Alerts : InQueue(a) ~> (held = a \/ ~ InQueue(a))
=============================================================================
