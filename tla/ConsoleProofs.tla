---------------------------- MODULE ConsoleProofs ----------------------------
(***************************************************************************)
(* Proofs about Console, for any number of streams, addresses, messages    *)
(* and any limits: no stream has a silent gap, and the web login keeps     *)
(* what it promises.                                                       *)
(*                                                                         *)
(* NoSilentGap speaks of a stream that waits for the next message.  What   *)
(* is inductive says the same of every open stream, counting the frame     *)
(* that is being written as told already (Pending), and knows that what    *)
(* was told lies below the stream's place in the channel.                  *)
(***************************************************************************)
EXTENDS Console, ListProofs, FiniteSetTheorems, TLAPS

Frames == {<<>>, <<"keepalive">>} \cup ({"data", "lagged"} \X Nat)

Rows == [state : {"none", "idle", "writing", "closed"}, start : Nat, next : Nat,
         frame : Frames, told : Seq(Nat), missed : Nat]

(* How many messages the frame being written is about.                     *)
Pending(r) == IF r.state # "writing" THEN 0
              ELSE IF r.frame[1] = "data" THEN 1
              ELSE IF r.frame[1] = "lagged" THEN r.frame[2] ELSE 0

InPlace(r) == r.start < r.next /\ r.next <= sent + 1

Accounted(r) == r.missed + Len(r.told) + Pending(r) = r.next - 1 - r.start

ToldInOrder(r) ==
    /\ \A i \in DOMAIN r.told : r.start < r.told[i] /\ r.told[i] < r.next
    /\ \A i, j \in DOMAIN r.told : i < j => r.told[i] < r.told[j]

BeingWritten(r) ==
    r.state = "writing" =>
        /\ r.frame # <<>>
        /\ r.frame[1] = "data" => /\ r.frame[2] = r.next - 1
                                  /\ \A i \in DOMAIN r.told : r.told[i] < r.frame[2]

FeedInv ==
    /\ sent \in Nat
    /\ stream \in [Streams -> Rows]
    /\ \A s \in Streams : stream[s].state \in {"idle", "writing"} =>
           /\ InPlace(stream[s])
           /\ Accounted(stream[s])
           /\ ToldInOrder(stream[s])
           /\ BeingWritten(stream[s])

Open(r) == r.state \in {"idle", "writing"} =>
               InPlace(r) /\ Accounted(r) /\ ToldInOrder(r) /\ BeingWritten(r)

-----------------------------------------------------------------------------
(* When one stream changes, and nothing was announced, it is enough that   *)
(* the new row of that stream is in order.                                 *)
LEMMA OneStream ==
    ASSUME FeedInv, NEW s \in Streams, NEW r \in Rows, Open(r),
           stream' = [stream EXCEPT ![s] = r], UNCHANGED sent
    PROVE  FeedInv'
<1>1. stream' \in [Streams -> Rows]
  BY DEF FeedInv
<1>2. \A t \in Streams : stream'[t] = IF t = s THEN r ELSE stream[t]
  BY DEF FeedInv
<1>3. ASSUME NEW t \in Streams, stream'[t].state \in {"idle", "writing"}
      PROVE  /\ InPlace(stream[t])'
             /\ Accounted(stream[t])'
             /\ ToldInOrder(stream[t])'
             /\ BeingWritten(stream[t])'
  <2>1. CASE t = s
    BY <1>2, <1>3, <2>1 DEF Open, InPlace, Accounted, Pending, ToldInOrder, BeingWritten
  <2>2. CASE t # s
    BY <1>2, <1>3, <2>2 DEF FeedInv, InPlace, Accounted, Pending, ToldInOrder, BeingWritten
  <2> QED
    BY <2>1, <2>2
<1> QED
  BY <1>1, <1>3 DEF FeedInv

(* The oldest message the channel still holds.                             *)
LEMMA OldestKept ==
    ASSUME F!EventFeedAssumption, sent \in Nat
    PROVE  F!Oldest \in Nat \ {0} /\ (sent > 0 => F!Oldest <= sent) /\ F!Oldest <= sent + 1
BY DEF F!Oldest, F!EventFeedAssumption

LEMMA FeedInitially == Init => FeedInv
<1> SUFFICES ASSUME Init PROVE FeedInv
  OBVIOUS
<1>1. sent = 0 /\ stream = [s \in Streams |-> F!Fresh]
  BY DEF Init, F!FeedInit
<1>2. F!Fresh \in Rows /\ F!Fresh.state = "none"
  BY DEF F!Fresh, Rows, Frames
<1> QED
  BY <1>1, <1>2 DEF FeedInv

LEMMA AnnounceKeeps == FeedInv /\ F!Announce => FeedInv'
<1> SUFFICES ASSUME FeedInv, F!Announce PROVE FeedInv'
  OBVIOUS
<1>1. sent' = sent + 1 /\ stream' = stream
  BY DEF F!Announce
<1>2. sent' \in Nat /\ stream' \in [Streams -> Rows]
  BY <1>1 DEF FeedInv
<1>3. \A s \in Streams : stream[s] \in Rows
  BY DEF FeedInv
<1>4. \A s \in Streams : InPlace(stream[s]) => InPlace(stream[s])'
  BY <1>1, <1>3 DEF InPlace, FeedInv, Rows
<1> QED
  BY <1>1, <1>2, <1>4 DEF FeedInv, Accounted, Pending, ToldInOrder, BeingWritten

LEMMA SubscribeKeeps == FeedInv => \A s \in Streams : F!Subscribe(s) => FeedInv'
<1> SUFFICES ASSUME FeedInv, NEW s \in Streams, F!Subscribe(s) PROVE FeedInv'
  OBVIOUS
<1> DEFINE r == [F!Fresh EXCEPT !.state = "idle", !.start = sent, !.next = sent + 1]
<1>1. r \in Rows
  <2>1. F!Fresh \in Rows
    BY DEF F!Fresh, Rows, Frames
  <2>2. sent \in Nat /\ sent + 1 \in Nat
    BY DEF FeedInv
  <2> QED
    BY <2>1, <2>2 DEF Rows
<1>4. r.state = "idle" /\ r.start = sent /\ r.next = sent + 1 /\ r.told = <<>> /\ r.missed = 0
  BY DEF F!Fresh
<1>2. stream' = [stream EXCEPT ![s] = r] /\ UNCHANGED sent
  BY DEF F!Subscribe
<1> HIDE DEF r
<1>3. Open(r)
  BY <1>4 DEF FeedInv, Open, InPlace, Accounted, Pending, ToldInOrder, BeingWritten
<1> QED
  BY <1>1, <1>2, <1>3, OneStream

(* recv: the place moves on by as many as the frame is about.              *)
LEMMA RecvKeeps == FeedInv => \A s \in Streams : F!Recv(s) => FeedInv'
<1> SUFFICES ASSUME FeedInv, NEW s \in Streams, F!Recv(s) PROVE FeedInv'
  OBVIOUS
<1> DEFINE r == stream[s]
<1>1. r \in Rows /\ r.state = "idle" /\ InPlace(r) /\ Accounted(r) /\ ToldInOrder(r)
      /\ sent \in Nat /\ UNCHANGED sent /\ F!EventFeedAssumption
  BY FeedAssumption DEF FeedInv, F!Recv
<1>2. r.missed + Len(r.told) = r.next - 1 - r.start
  BY <1>1 DEF Accounted, Pending, Rows
<1>3. \A next \in Nat, frame \in Frames :
        LET new == [r EXCEPT !.next = next, !.state = "writing", !.frame = frame]
        IN  /\ new \in Rows
            /\ new.state = "writing" /\ new.start = r.start /\ new.next = next
            /\ new.frame = frame /\ new.told = r.told /\ new.missed = r.missed
  BY <1>1 DEF Rows
<1> HIDE DEF r
<1>4. CASE F!Lagged(s)
  <2> DEFINE n == F!Oldest - r.next
             new == [r EXCEPT !.next = F!Oldest, !.state = "writing", !.frame = <<"lagged", n>>]
  <2>1. r.next < F!Oldest /\ F!Oldest \in Nat /\ F!Oldest <= sent + 1 /\ n \in Nat
    BY <1>1, <1>4, OldestKept DEF F!Lagged, Rows, r
  <2>2. stream' = [stream EXCEPT ![s] = new]
    BY <1>1, <1>4, <2>1 DEF F!Lagged, FeedInv, Rows, r
  <2>3. <<"lagged", n>> \in Frames
    BY <2>1 DEF Frames
  <2>4. /\ new \in Rows
        /\ new.state = "writing" /\ new.start = r.start /\ new.next = F!Oldest
        /\ new.frame = <<"lagged", n>> /\ new.told = r.told /\ new.missed = r.missed
    BY <1>3, <2>1, <2>3
  <2> HIDE DEF new
  <2>5. Open(new)
    BY <1>1, <1>2, <2>1, <2>4
    DEF Rows, Open, InPlace, Accounted, Pending, ToldInOrder, BeingWritten
  <2> QED
    BY <1>1, <2>2, <2>4, <2>5, OneStream
<1>5. CASE F!Next1(s)
  <2> DEFINE new == [r EXCEPT !.next = r.next + 1, !.state = "writing",
                              !.frame = <<"data", r.next>>]
  <2>1. r.next <= sent /\ r.next \in Nat /\ r.next + 1 \in Nat /\ <<"data", r.next>> \in Frames
    BY <1>1, <1>5, OldestKept DEF F!Next1, Rows, Frames, r
  <2>2. stream' = [stream EXCEPT ![s] = new]
    BY <1>1, <1>5 DEF F!Next1, FeedInv, Rows, r
  <2>3. /\ new \in Rows
        /\ new.state = "writing" /\ new.start = r.start /\ new.next = r.next + 1
        /\ new.frame = <<"data", r.next>> /\ new.told = r.told /\ new.missed = r.missed
    BY <1>3, <2>1
  <2> HIDE DEF new
  <2>4. Open(new)
    BY <1>1, <1>2, <2>1, <2>3
    DEF Rows, Open, InPlace, Accounted, Pending, ToldInOrder, BeingWritten
  <2> QED
    BY <1>1, <2>2, <2>3, <2>4, OneStream
<1>6. CASE stream' = [stream EXCEPT ![s].state = "writing", ![s].frame = <<"keepalive">>]
  <2> DEFINE new == [r EXCEPT !.next = r.next, !.state = "writing", !.frame = <<"keepalive">>]
  <2>1. r.next \in Nat /\ <<"keepalive">> \in Frames
    BY <1>1 DEF Rows, Frames
  <2>2. stream' = [stream EXCEPT ![s] = new]
    BY <1>1, <1>6 DEF FeedInv, Rows, r
  <2>3. /\ new \in Rows
        /\ new.state = "writing" /\ new.start = r.start /\ new.next = r.next
        /\ new.frame = <<"keepalive">> /\ new.told = r.told /\ new.missed = r.missed
    BY <1>3, <2>1
  <2> HIDE DEF new
  <2>4. Open(new)
    BY <1>1, <1>2, <2>1, <2>3
    DEF Rows, Open, InPlace, Accounted, Pending, ToldInOrder, BeingWritten
  <2> QED
    BY <1>1, <2>2, <2>3, <2>4, OneStream
<1> QED
  BY <1>4, <1>5, <1>6 DEF F!Recv

(* The frame was written: what it was about is told, or counted as missed. *)
LEMMA WrittenKeeps == FeedInv => \A s \in Streams : F!Written(s) => FeedInv'
<1> SUFFICES ASSUME FeedInv, NEW s \in Streams, F!Written(s) PROVE FeedInv'
  OBVIOUS
<1> DEFINE r == stream[s]
           told == IF r.frame[1] = "data" THEN Append(r.told, r.frame[2]) ELSE r.told
           missed == IF r.frame[1] = "lagged" THEN r.missed + r.frame[2] ELSE r.missed
           new == [r EXCEPT !.state = "idle", !.frame = <<>>, !.told = told, !.missed = missed]
<1>1. r \in Rows /\ r.state = "writing" /\ InPlace(r) /\ Accounted(r) /\ ToldInOrder(r)
      /\ BeingWritten(r) /\ sent \in Nat /\ UNCHANGED sent
  BY DEF FeedInv, F!Written
<1>2. stream' = [stream EXCEPT ![s] = new]
  BY <1>1 DEF F!Written, FeedInv, Rows
<1>7. ASSUME told \in Seq(Nat), missed \in Nat
      PROVE  /\ new \in Rows
             /\ new.state = "idle" /\ new.start = r.start /\ new.next = r.next
             /\ new.told = told /\ new.missed = missed
  <2> HIDE DEF told, missed
  <2> QED
    BY <1>1, <1>7 DEF Rows, Frames
<1> HIDE DEF r, new
<1>3. r.told \in Seq(Nat) /\ r.start \in Nat /\ r.next \in Nat /\ r.missed \in Nat
  BY <1>1 DEF Rows
<1>4. CASE r.frame[1] = "data"
  <2>1. r.frame[2] = r.next - 1 /\ r.next - 1 \in Nat
    BY <1>1, <1>3, <1>4 DEF BeingWritten, InPlace
  <2>2. \A i \in DOMAIN r.told : r.told[i] < r.next - 1
    BY <1>1, <1>4, <2>1 DEF BeingWritten
  <2>3. /\ new \in Rows
        /\ new.state = "idle" /\ new.start = r.start /\ new.next = r.next
        /\ new.told = Append(r.told, r.next - 1) /\ new.missed = r.missed
    <3>1. Append(r.told, r.next - 1) \in Seq(Nat)
      BY <1>3, <2>1
    <3> QED
      BY <1>3, <1>4, <1>7, <2>1, <3>1
  <2>4. r.missed + Len(r.told) + 1 = r.next - 1 - r.start
    BY <1>1, <1>4 DEF Accounted, Pending
  <2>6. InPlace(new) /\ Accounted(new) /\ BeingWritten(new)
    BY <1>1, <1>3, <2>1, <2>3, <2>4 DEF InPlace, Accounted, Pending, BeingWritten
  <2>7. ToldInOrder(new)
    <3> DEFINE t == Append(r.told, r.next - 1)
    <3>1. /\ DOMAIN t = 1 .. Len(r.told) + 1
          /\ t[Len(r.told) + 1] = r.next - 1
          /\ \A i \in DOMAIN r.told : t[i] = r.told[i]
          /\ DOMAIN r.told = 1 .. Len(r.told)
      BY <1>3, <2>1
    <3>2. r.start < r.next - 1
      BY <1>1, <1>3, <2>4
    <3>3. \A i \in DOMAIN r.told : r.told[i] \in Nat
      BY <1>3
    <3>4. new.told = t /\ new.start = r.start /\ new.next = r.next
      BY <2>3
    <3> HIDE DEF t
    <3>5. \A i \in DOMAIN r.told : r.start < r.told[i]
      BY <1>1 DEF ToldInOrder
    <3>6. \A i, j \in DOMAIN r.told : i < j => r.told[i] < r.told[j]
      BY <1>1 DEF ToldInOrder
    <3>7. ASSUME NEW i \in DOMAIN t PROVE r.start < t[i] /\ t[i] < r.next
      <4>1. CASE i \in DOMAIN r.told
        BY <1>3, <2>2, <3>1, <3>3, <3>5, <4>1
      <4>2. CASE i = Len(r.told) + 1
        BY <1>3, <2>1, <3>1, <3>2, <4>2
      <4> QED
        BY <1>3, <3>1, <4>1, <4>2
    <3>8. ASSUME NEW i \in DOMAIN t, NEW j \in DOMAIN t, i < j PROVE t[i] < t[j]
      <4>1. i \in DOMAIN r.told
        BY <1>3, <3>1, <3>8
      <4>2. CASE j \in DOMAIN r.told
        BY <3>1, <3>6, <3>8, <4>1, <4>2
      <4>3. CASE j = Len(r.told) + 1
        BY <2>2, <3>1, <4>1, <4>3
      <4> QED
        BY <1>3, <3>1, <4>2, <4>3
    <3> QED
      BY <3>4, <3>7, <3>8 DEF ToldInOrder
  <2> QED
    BY <1>1, <1>2, <2>3, <2>6, <2>7, OneStream DEF Open
<1>5. CASE r.frame[1] = "lagged"
  <2>1. r.frame[2] \in Nat
    BY <1>1, <1>5 DEF BeingWritten, Rows, Frames
  <2>2. /\ new \in Rows
        /\ new.state = "idle" /\ new.start = r.start /\ new.next = r.next
        /\ new.told = r.told /\ new.missed = r.missed + r.frame[2]
    BY <1>3, <1>5, <1>7, <2>1
  <2>3. r.missed + Len(r.told) + r.frame[2] = r.next - 1 - r.start
    BY <1>1, <1>5 DEF Accounted, Pending
  <2>4. Open(new)
    BY <1>1, <1>3, <2>1, <2>2, <2>3
    DEF Open, InPlace, Accounted, Pending, ToldInOrder, BeingWritten
  <2> QED
    BY <1>1, <1>2, <2>2, <2>4, OneStream
<1>6. CASE r.frame[1] \notin {"data", "lagged"}
  <2>1. /\ new \in Rows
        /\ new.state = "idle" /\ new.start = r.start /\ new.next = r.next
        /\ new.told = r.told /\ new.missed = r.missed
    BY <1>3, <1>6, <1>7
  <2>2. r.missed + Len(r.told) = r.next - 1 - r.start
    BY <1>1, <1>3, <1>6 DEF Accounted, Pending
  <2>3. Open(new)
    BY <1>1, <1>3, <2>1, <2>2 DEF Open, InPlace, Accounted, Pending, ToldInOrder, BeingWritten
  <2> QED
    BY <1>1, <1>2, <2>1, <2>3, OneStream
<1> QED
  BY <1>4, <1>5, <1>6

LEMMA WriteFailsKeeps == FeedInv => \A s \in Streams : F!WriteFails(s) => FeedInv'
<1> SUFFICES ASSUME FeedInv, NEW s \in Streams, F!WriteFails(s) PROVE FeedInv'
  OBVIOUS
<1> DEFINE r == [F!Fresh EXCEPT !.state = "closed"]
<1>1. r \in Rows /\ r.state = "closed"
  <2>1. F!Fresh \in Rows /\ DOMAIN F!Fresh = {"state", "start", "next", "frame", "told", "missed"}
    BY DEF F!Fresh, Rows, Frames
  <2> QED
    BY <2>1 DEF Rows
<1>2. stream' = [stream EXCEPT ![s] = r] /\ UNCHANGED sent
  BY DEF F!WriteFails
<1> HIDE DEF r
<1>3. Open(r)
  BY <1>1 DEF Open
<1> QED
  BY <1>1, <1>2, <1>3, OneStream

LEMMA FeedStep == FeedInv /\ [Next]_vars => FeedInv'
<1> SUFFICES ASSUME FeedInv, [Next]_vars PROVE FeedInv'
  OBVIOUS
<1>1. CASE UNCHANGED <<sent, stream>>
  BY <1>1 DEF FeedInv, InPlace, Accounted, Pending, ToldInOrder, BeingWritten
<1>2. CASE F!Announce
  BY <1>2, AnnounceKeeps
<1>3. ASSUME NEW s \in Streams, F!Forward(s) PROVE FeedInv'
  BY <1>3, RecvKeeps, WrittenKeeps, WriteFailsKeeps DEF F!Forward
<1>4. ASSUME NEW s \in Streams, F!Subscribe(s) PROVE FeedInv'
  BY <1>4, SubscribeKeeps
<1> QED
  BY <1>1, <1>2, <1>3, <1>4 DEF Next, Public, Authorized, Watch, Feed, Time, vars

(* The inductive invariant of the streams.                                 *)
THEOREM FeedCorrect == Spec => []FeedInv
BY FeedInitially, FeedStep, PTL DEF Spec

(* A page that keeps reading knows of every message since it subscribed,   *)
(* for any capacity of the channel and any number of streams.              *)
THEOREM NoSilentGapHolds == Spec => []NoSilentGap
<1>1. FeedInv => NoSilentGap
  <2> SUFFICES ASSUME FeedInv, NEW s \in Streams, stream[s].state = "idle"
               PROVE  LET t == stream[s].told
                      IN  /\ stream[s].missed + Len(t) = stream[s].next - 1 - stream[s].start
                          /\ \A i, j \in DOMAIN t : i < j => t[i] < t[j]
                          /\ ToSet(t) \subseteq stream[s].start + 1 .. sent
    BY DEF NoSilentGap, F!NoSilentGap, F!ToSet, ToSet
  <2>1. stream[s] \in Rows /\ sent \in Nat /\ InPlace(stream[s]) /\ Accounted(stream[s])
        /\ ToldInOrder(stream[s])
    BY DEF FeedInv
  <2>2. stream[s].missed + Len(stream[s].told) = stream[s].next - 1 - stream[s].start
    BY <2>1 DEF Accounted, Pending, Rows
  <2>3. \A i \in DOMAIN stream[s].told : stream[s].told[i] \in stream[s].start + 1 .. sent
    BY <2>1 DEF ToldInOrder, InPlace, Rows
  <2> QED
    BY <2>1, <2>2, <2>3 DEF ToldInOrder, ToSet
<1> QED
  BY FeedCorrect, <1>1, PTL

-----------------------------------------------------------------------------
(***************************************************************************)
(* The web login.  AuthTyped has the types; the other invariants are:      *)
(* ThrottleInv, what is counted are the failures in a row; NonceInv, the   *)
(* nonces are in their order; FairInv, a challenge keeps its place from    *)
(* the end of the list; SpentInv, the nonce of a session is gone;          *)
(* SessionInv, behind a token are those used or given out since it was.    *)
(***************************************************************************)
FailRows == [n : Nat, at : Nat]

History == [given : Nat, fair : SUBSET [id : Nat, at : Nat, after : Nat], unjust : SUBSET Nat,
            row : [Addresses -> FailRows], hasty : SUBSET Addresses,
            opened : Seq([id : Nat, nonce : Nat]), since : Seq(SUBSET Nat),
            over : SUBSET Nat, blanks : Nat]

AuthTyped ==
    /\ now \in 0 .. MaxTime
    /\ nonces \in Seq([id : Nat, at : Nat])
    /\ sessions \in Seq(Nat)
    /\ failures \in [Addresses -> FailRows]
    /\ history \in History
    /\ Len(history.since) = Len(history.opened)

LEMMA AuthConstants ==
    /\ Patience \in Nat /\ LongestWait \in Nat /\ Forget \in Nat /\ NonceTtl \in Nat
    /\ MaxTime \in Nat /\ MaxGiven \in Nat /\ MaxNoRandom \in Nat
    /\ MaxNonces \in Nat \ {0} /\ MaxSessions \in Nat \ {0} /\ LongestWait < Forget
BY WebAuthAssumption

Recorded(h) ==
    h = [given |-> h.given, fair |-> h.fair, unjust |-> h.unjust, row |-> h.row,
         hasty |-> h.hasty, opened |-> h.opened, since |-> h.since, over |-> h.over,
         blanks |-> h.blanks]

(* What each step does to what is remembered.                              *)
LEMMA ChallengeDoes ==
    ASSUME AuthTyped, Challenge
    PROVE  \E id \in {None, history.given + 1} :
              /\ nonces' = Append(NotNamed(Room(SweptNonces, MaxNonces), id), [id |-> id, at |-> now])
              /\ history'.given = history.given + 1
              /\ history'.blanks = Blanks(id)
              /\ history'.fair = OneAfter \cup
                                 IF id = None THEN {} ELSE {[id |-> id, at |-> now, after |-> 0]}
              /\ UNCHANGED <<history.unjust, history.row, history.hasty, history.opened,
                             history.since, history.over>>
              /\ Recorded(history')
              /\ failures' = SweptFailures
              /\ UNCHANGED <<now, sessions>>
<1> DEFINE fair(id) == OneAfter \cup
                       IF id = None THEN {} ELSE {[id |-> id, at |-> now, after |-> 0]}
<1>1. PICK id \in {None, history.given + 1} :
         /\ nonces' = Append(NotNamed(Room(SweptNonces, MaxNonces), id), [id |-> id, at |-> now])
         /\ history' = [history EXCEPT !.given = history.given + 1, !.blanks = Blanks(id),
                                       !.fair = fair(id)]
         /\ failures' = SweptFailures
         /\ UNCHANGED <<now, sessions>>
  BY DEF Challenge, Fresh
<1> HIDE DEF fair
<1>2. /\ history'.given = history.given + 1 /\ history'.blanks = Blanks(id)
      /\ history'.fair = fair(id)
      /\ UNCHANGED <<history.unjust, history.row, history.hasty, history.opened,
                     history.since, history.over>>
      /\ Recorded(history')
  BY <1>1 DEF AuthTyped, History, Recorded
<1> QED
  BY <1>1, <1>2 DEF fair

LEMMA MissedDoes ==
    ASSUME AuthTyped, NEW a \in Addresses
    PROVE  LET r == history.row[a]
               n == IF now - r.at > Forget THEN 0 ELSE r.n
           IN  /\ Missed(a).row = [history.row EXCEPT ![a] = [n |-> n + 1, at |-> now]]
               /\ Missed(a).hasty = history.hasty \cup
                     IF n > Patience /\ now - r.at < Wait(n) THEN {a} ELSE {}
               /\ Missed(a).given = history.given /\ Missed(a).fair = history.fair
               /\ Missed(a).unjust = history.unjust /\ Missed(a).opened = history.opened
               /\ Missed(a).since = history.since /\ Missed(a).over = history.over
               /\ Missed(a).blanks = history.blanks
               /\ Recorded(Missed(a))
<1> DEFINE r == history.row[a]
           n == IF now - r.at > Forget THEN 0 ELSE r.n
           more == IF n > Patience /\ now - r.at < Wait(n) THEN {a} ELSE {}
           new == [n |-> n + 1, at |-> now]
<1>1. Missed(a) = [history EXCEPT !.row[a] = new, !.hasty = history.hasty \cup more]
  BY DEF Missed
<1> HIDE DEF r, n, more, new
<1>2. /\ Missed(a).row = [history.row EXCEPT ![a] = new]
      /\ Missed(a).hasty = history.hasty \cup more
      /\ Missed(a).given = history.given /\ Missed(a).fair = history.fair
      /\ Missed(a).unjust = history.unjust /\ Missed(a).opened = history.opened
      /\ Missed(a).since = history.since /\ Missed(a).over = history.over
      /\ Missed(a).blanks = history.blanks
      /\ Recorded(Missed(a))
  BY <1>1 DEF AuthTyped, History, Recorded
<1> QED
  BY <1>2 DEF r, n, more, new

LEMMA BadNonceDoes ==
    ASSUME AuthTyped, NEW a \in Addresses, NEW nonce, LoginBadNonce(a, nonce)
    PROVE  /\ ~ Barred(a) /\ nonce \notin Ids(SweptNonces)
           /\ nonces' = SweptNonces
           /\ failures' = [SweptFailures EXCEPT ![a] = Count(SweptFailures[a])]
           /\ history'.row = Missed(a).row /\ history'.hasty = Missed(a).hasty
           /\ history'.unjust = history.unjust \cup
                 {x.after : x \in {y \in history.fair : y.id = nonce}}
           /\ UNCHANGED <<history.given, history.fair, history.opened, history.since,
                          history.over, history.blanks>>
           /\ Recorded(history')
           /\ UNCHANGED <<now, sessions>>
<1> DEFINE m == Missed(a)
           more == {x.after : x \in {y \in history.fair : y.id = nonce}}
<1>1. /\ m.given = history.given /\ m.fair = history.fair /\ m.unjust = history.unjust
      /\ m.opened = history.opened /\ m.since = history.since /\ m.over = history.over
      /\ m.blanks = history.blanks /\ Recorded(m)
  BY MissedDoes
<1>2. history' = [m EXCEPT !.unjust = m.unjust \cup more]
  BY DEF LoginBadNonce
<1>3. a \in DOMAIN SweptFailures
  BY DEF SweptFailures
<1>4. failures' = [SweptFailures EXCEPT ![a] = Count(SweptFailures[a])]
  BY <1>3 DEF LoginBadNonce
<1>5. /\ ~ Barred(a) /\ nonce \notin Ids(SweptNonces) /\ nonces' = SweptNonces
      /\ UNCHANGED <<now, sessions>>
  BY DEF LoginBadNonce
<1> HIDE DEF m, more
<1>7. /\ history'.unjust = history.unjust \cup more
      /\ history'.row = m.row /\ history'.hasty = m.hasty
      /\ UNCHANGED <<history.given, history.fair, history.opened, history.since,
                     history.over, history.blanks>>
      /\ Recorded(history')
  BY <1>1, <1>2 DEF Recorded
<1> QED
  BY <1>4, <1>5, <1>7 DEF m, more

LEMMA BadProofDoes ==
    ASSUME AuthTyped, NEW a \in Addresses, NEW nonce, LoginBadProof(a, nonce)
    PROVE  /\ ~ Barred(a)
           /\ nonces' = SpendNonce(nonce)
           /\ failures' = [SweptFailures EXCEPT ![a] = Count(SweptFailures[a])]
           /\ history'.row = Missed(a).row /\ history'.hasty = Missed(a).hasty
           /\ history'.fair = Without(nonce)
           /\ UNCHANGED <<history.given, history.unjust, history.opened, history.since,
                          history.over, history.blanks>>
           /\ Recorded(history')
           /\ UNCHANGED <<now, sessions>>
<1> DEFINE m == Missed(a)
           left == Without(nonce)
<1>1. /\ m.given = history.given /\ m.fair = history.fair /\ m.unjust = history.unjust
      /\ m.opened = history.opened /\ m.since = history.since /\ m.over = history.over
      /\ m.blanks = history.blanks /\ Recorded(m)
  BY MissedDoes
<1>2. history' = [m EXCEPT !.fair = left]
  BY DEF LoginBadProof
<1>3. a \in DOMAIN SweptFailures
  BY DEF SweptFailures
<1>4. failures' = [SweptFailures EXCEPT ![a] = Count(SweptFailures[a])]
  BY <1>3 DEF LoginBadProof
<1>5. ~ Barred(a) /\ nonces' = SpendNonce(nonce) /\ UNCHANGED <<now, sessions>>
  BY DEF LoginBadProof
<1> HIDE DEF m, left
<1>7. /\ history'.fair = left
      /\ history'.row = m.row /\ history'.hasty = m.hasty
      /\ UNCHANGED <<history.given, history.unjust, history.opened, history.since,
                     history.over, history.blanks>>
      /\ Recorded(history')
  BY <1>1, <1>2 DEF Recorded
<1> QED
  BY <1>4, <1>5, <1>7 DEF m, left

Works(a, nonce, token) ==
    /\ nonce \in Ids(SweptNonces)
    /\ nonces' = SpendNonce(nonce)
    /\ failures' = [SweptFailures EXCEPT ![a] = Untried]
    /\ sessions' = Append(AllBut(Room(sessions, MaxSessions), token), token)
    /\ history'.row = [history.row EXCEPT ![a] = Untried]
    /\ history'.fair = Without(nonce)
    /\ history'.blanks = Blanks(token)
    /\ history'.opened = Append(history.opened, [id |-> token, nonce |-> nonce])
    /\ history'.since = Append(Used(Len(history.since) + 1), {})
    /\ UNCHANGED <<history.given, history.unjust, history.hasty, history.over>>
    /\ Recorded(history')
    /\ UNCHANGED now

LEMMA WorksDoes ==
    ASSUME AuthTyped, NEW a \in Addresses, NEW nonce, LoginWorks(a, nonce)
    PROVE  \E token \in {None, Len(history.opened) + 1} : Works(a, nonce, token)
<1> DEFINE left == Without(nonce)
           opened(token) == Append(history.opened, [id |-> token, nonce |-> nonce])
           since == Append(Used(Len(history.since) + 1), {})
<1>1. PICK token \in Fresh(Len(history.opened) + 1) :
         /\ sessions' = Append(AllBut(Room(sessions, MaxSessions), token), token)
         /\ history' = [history EXCEPT !.row[a] = Untried, !.fair = left,
                           !.blanks = Blanks(token), !.opened = opened(token), !.since = since]
  BY Zenon DEF LoginWorks
<1>4. token \in {None, Len(history.opened) + 1}
  BY DEF Fresh
<1>2. /\ nonce \in Ids(SweptNonces)
      /\ nonces' = SpendNonce(nonce)
      /\ failures' = [SweptFailures EXCEPT ![a] = Untried]
      /\ UNCHANGED now
  BY DEF LoginWorks
<1> HIDE DEF left, opened, since
<1>3. /\ history'.row = [history.row EXCEPT ![a] = Untried]
      /\ history'.fair = left
      /\ history'.blanks = Blanks(token)
      /\ history'.opened = opened(token)
      /\ history'.since = since
      /\ UNCHANGED <<history.given, history.unjust, history.hasty, history.over>>
      /\ Recorded(history')
  BY <1>1 DEF AuthTyped, History, Recorded
<1> QED
  BY <1>1, <1>2, <1>3, <1>4, Zenon DEF left, opened, since, Works

LEMMA UseDoes ==
    ASSUME AuthTyped, NEW token, Use(token)
    PROVE  /\ Valid(token) /\ sessions' = Touched(token)
           /\ history'.since = Used(token)
           /\ UNCHANGED <<history.given, history.fair, history.unjust, history.row, history.hasty,
                          history.opened, history.over, history.blanks>>
           /\ Recorded(history')
           /\ UNCHANGED <<now, nonces, failures>>
BY DEF AuthTyped, History, Recorded, Use

LEMMA LogoutDoes ==
    ASSUME AuthTyped, NEW token, Logout(token)
    PROVE  /\ Valid(token) /\ sessions' = AllBut(Touched(token), token)
           /\ history'.since = [Used(token) EXCEPT ![token] = {}]
           /\ history'.over = history.over \cup {token}
           /\ UNCHANGED <<history.given, history.fair, history.unjust, history.row, history.hasty,
                          history.opened, history.blanks>>
           /\ Recorded(history')
           /\ UNCHANGED <<now, nonces, failures>>
<1> DEFINE since == [Used(token) EXCEPT ![token] = {}]
<1>1. /\ Valid(token) /\ sessions' = AllBut(Touched(token), token)
      /\ history' = [history EXCEPT !.since = since, !.over = history.over \cup {token}]
      /\ UNCHANGED <<now, nonces, failures>>
  BY DEF Logout
<1> HIDE DEF since
<1>2. /\ history'.since = since
      /\ history'.over = history.over \cup {token}
      /\ UNCHANGED <<history.given, history.fair, history.unjust, history.row, history.hasty,
                     history.opened, history.blanks>>
      /\ Recorded(history')
  BY <1>1 DEF AuthTyped, History, Recorded
<1> QED
  BY <1>1, <1>2 DEF since

LEMMA TickDoes ==
    ASSUME AuthTyped, Tick
    PROVE  /\ now < MaxTime /\ now' = now + 1
           /\ history'.fair = {x \in history.fair : now + 1 - x.at <= NonceTtl}
           /\ UNCHANGED <<history.given, history.since, history.unjust, history.row, history.hasty,
                          history.opened, history.over, history.blanks>>
           /\ Recorded(history')
           /\ UNCHANGED <<nonces, sessions, failures>>
BY DEF AuthTyped, History, Recorded, Tick

(* What the operations on lists give.                                      *)
LEMMA RoomKeeps ==
    ASSUME NEW T, NEW list \in Seq(T), NEW max \in Nat \ {0}
    PROVE  /\ Room(list, max) \in Seq(T)
           /\ Len(list) <= max => Len(Room(list, max)) <= max - 1
BY DEF Room

LEMMA NotNamedKeeps ==
    ASSUME NEW T, NEW list \in Seq(T), NEW id
    PROVE  NotNamed(list, id) \in Seq(T) /\ Len(NotNamed(list, id)) <= Len(list)
BY RetainPicks DEF NotNamed

LEMMA AllButKeeps ==
    ASSUME NEW T, NEW list \in Seq(T), NEW token
    PROVE  AllBut(list, token) \in Seq(T) /\ Len(AllBut(list, token)) <= Len(list)
BY RetainPicks DEF AllBut

LEMMA SweptKeeps ==
    ASSUME AuthTyped
    PROVE  /\ SweptNonces \in Seq([id : Nat, at : Nat]) /\ Len(SweptNonces) <= Len(nonces)
           /\ SweptFailures \in [Addresses -> FailRows]
<1>1. nonces \in Seq([id : Nat, at : Nat])
  BY DEF AuthTyped
<1>2. SweptNonces \in Seq([id : Nat, at : Nat]) /\ Len(SweptNonces) <= Len(nonces)
  BY <1>1, RetainPicks DEF SweptNonces
<1>3. Untried \in FailRows
  BY DEF Untried, FailRows
<1> QED
  BY <1>2, <1>3 DEF AuthTyped, SweptFailures

LEMMA CountTyped ==
    ASSUME AuthTyped, NEW a \in Addresses
    PROVE  /\ [SweptFailures EXCEPT ![a] = Count(SweptFailures[a])] \in [Addresses -> FailRows]
           /\ [SweptFailures EXCEPT ![a] = Untried] \in [Addresses -> FailRows]
<1>1. SweptFailures \in [Addresses -> FailRows] /\ SweptFailures[a] \in FailRows
  BY SweptKeeps
<1>2. Count(SweptFailures[a]) \in FailRows /\ Untried \in FailRows
  BY <1>1 DEF Count, FailRows, Untried, AuthTyped
<1> QED
  BY <1>1, <1>2

LEMMA UsedTyped ==
    ASSUME AuthTyped, NEW k \in Nat
    PROVE  /\ Used(k) \in Seq(SUBSET Nat) /\ Len(Used(k)) = Len(history.opened)
           /\ \A j \in DOMAIN history.opened :
                 Used(k)[j] = IF j \in {k} \cup history.over THEN {} ELSE history.since[j] \cup {k}
<1> DEFINE n == Len(history.opened)
           U(j) == IF j \in {k} \cup history.over THEN {} ELSE history.since[j] \cup {k}
<1>1. n \in Nat /\ DOMAIN history.opened = 1 .. n
  BY DEF AuthTyped, History
<1>2. \A j \in 1 .. n : history.since[j] \in SUBSET Nat
  BY DEF AuthTyped, History
<1>3. \A j \in 1 .. n : U(j) \in SUBSET Nat
  BY <1>2
<1>4. Used(k) = [j \in 1 .. n |-> U(j)]
  BY DEF Used
<1> HIDE DEF n, U
<1>5. Used(k) \in Seq(SUBSET Nat) /\ Len(Used(k)) = n
  BY <1>1, <1>3, <1>4
<1>6. \A j \in 1 .. n : Used(k)[j] = U(j)
  BY <1>4
<1> QED
  BY <1>1, <1>5, <1>6 DEF n, U

(* A record of the fields' types is one of History.                        *)
LEMMA HistoryFields ==
    ASSUME NEW h, Recorded(h), h.given \in Nat, h.fair \subseteq [id : Nat, at : Nat, after : Nat],
           h.unjust \subseteq Nat, h.row \in [Addresses -> FailRows], h.hasty \subseteq Addresses,
           h.opened \in Seq([id : Nat, nonce : Nat]), h.since \in Seq(SUBSET Nat),
           h.over \subseteq Nat, h.blanks \in Nat
    PROVE  h \in History
BY DEF Recorded, History

LEMMA HistoryTypes ==
    ASSUME AuthTyped
    PROVE  /\ history.given \in Nat
           /\ history.fair \subseteq [id : Nat, at : Nat, after : Nat]
           /\ history.unjust \subseteq Nat /\ history.row \in [Addresses -> FailRows]
           /\ history.hasty \subseteq Addresses
           /\ history.opened \in Seq([id : Nat, nonce : Nat])
           /\ history.since \in Seq(SUBSET Nat)
           /\ history.over \subseteq Nat /\ history.blanks \in Nat
           /\ Len(history.since) = Len(history.opened)
           /\ now \in Nat
BY AuthConstants DEF AuthTyped, History

LEMMA MissedTyped ==
    ASSUME AuthTyped, NEW a \in Addresses
    PROVE  Missed(a).row \in [Addresses -> FailRows] /\ Missed(a).hasty \subseteq Addresses
<1> DEFINE r == history.row[a]
           n == IF now - r.at > Forget THEN 0 ELSE r.n
           new == [n |-> n + 1, at |-> now]
<1>1. r \in FailRows /\ now \in Nat
  BY HistoryTypes
<1>2. n \in Nat
  BY <1>1 DEF FailRows
<1>3. new \in FailRows
  BY <1>1, <1>2 DEF FailRows
<1>4. Missed(a).row = [history.row EXCEPT ![a] = new]
  BY MissedDoes
<1>5. Missed(a).hasty \subseteq history.hasty \cup {a}
  BY MissedDoes
<1> HIDE DEF new
<1> QED
  BY <1>3, <1>4, <1>5, HistoryTypes

LEMMA ChallengeTyped == AuthTyped /\ Challenge => AuthTyped'
<1> SUFFICES ASSUME AuthTyped, Challenge PROVE AuthTyped'
  OBVIOUS
<1>1. PICK id \in {None, history.given + 1} :
         /\ nonces' = Append(NotNamed(Room(SweptNonces, MaxNonces), id), [id |-> id, at |-> now])
         /\ history'.given = history.given + 1
         /\ history'.blanks = Blanks(id)
         /\ history'.fair = OneAfter \cup
                            IF id = None THEN {} ELSE {[id |-> id, at |-> now, after |-> 0]}
         /\ UNCHANGED <<history.unjust, history.row, history.hasty, history.opened,
                        history.since, history.over>>
         /\ Recorded(history')
         /\ failures' = SweptFailures
         /\ UNCHANGED <<now, sessions>>
  BY ChallengeDoes
<1>2. id \in Nat /\ now \in Nat
  BY HistoryTypes DEF None
<1> DEFINE x == [id |-> id, at |-> now]
           y == [id |-> id, at |-> now, after |-> 0]
           left == NotNamed(Room(SweptNonces, MaxNonces), id)
<1>3. x \in [id : Nat, at : Nat] /\ y \in [id : Nat, at : Nat, after : Nat]
  BY <1>2
<1>4. left \in Seq([id : Nat, at : Nat])
  BY SweptKeeps, RoomKeeps, NotNamedKeeps, AuthConstants
<1> HIDE DEF x, y, left
<1>5. nonces' \in Seq([id : Nat, at : Nat])
  BY <1>1, <1>3, <1>4 DEF x, left
<1>6. OneAfter \subseteq [id : Nat, at : Nat, after : Nat]
  <2> SUFFICES ASSUME NEW z \in OneAfter PROVE z \in [id : Nat, at : Nat, after : Nat]
    OBVIOUS
  <2>1. PICK w \in history.fair : z = [w EXCEPT !.after = w.after + 1]
    BY DEF OneAfter
  <2>2. w \in [id : Nat, at : Nat, after : Nat]
    BY HistoryTypes
  <2> QED
    BY <2>1, <2>2
<1>7. history'.fair \subseteq [id : Nat, at : Nat, after : Nat]
  BY <1>1, <1>3, <1>6 DEF y
<1>8. history'.blanks \in Nat /\ history'.given \in Nat
  BY <1>1, HistoryTypes DEF Blanks
<1>9. history' \in History
  BY <1>1, <1>7, <1>8, HistoryTypes, HistoryFields
<1> QED
  BY <1>1, <1>5, <1>9, SweptKeeps, HistoryTypes DEF AuthTyped

LEMMA LoginTyped == AuthTyped => \A a \in Addresses : Login(a) => AuthTyped'
<1> SUFFICES ASSUME AuthTyped, NEW a \in Addresses, Login(a) PROVE AuthTyped'
  OBVIOUS
<1>0. /\ \A nonce : SpendNonce(nonce) \in Seq([id : Nat, at : Nat])
      /\ \A nonce : Without(nonce) \subseteq history.fair
  BY SweptKeeps, NotNamedKeeps DEF SpendNonce, Without
<1>1. CASE LoginBarred(a)
  BY <1>1, SweptKeeps DEF LoginBarred, AuthTyped
<1>2. ASSUME NEW nonce \in 0 .. history.given, LoginBadNonce(a, nonce) PROVE AuthTyped'
  <2>1. /\ nonces' = SweptNonces
        /\ failures' = [SweptFailures EXCEPT ![a] = Count(SweptFailures[a])]
        /\ history'.row = Missed(a).row /\ history'.hasty = Missed(a).hasty
        /\ history'.unjust = history.unjust \cup
              {x.after : x \in {y \in history.fair : y.id = nonce}}
        /\ UNCHANGED <<history.given, history.fair, history.opened, history.since,
                       history.over, history.blanks>>
        /\ Recorded(history')
        /\ UNCHANGED <<now, sessions>>
    BY <1>2, BadNonceDoes
  <2>2. history'.unjust \subseteq Nat
    BY <2>1, HistoryTypes
  <2>3. history' \in History
    BY <2>1, <2>2, MissedTyped, HistoryTypes, HistoryFields
  <2> QED
    BY <2>1, <2>3, SweptKeeps, CountTyped, HistoryTypes DEF AuthTyped
<1>3. ASSUME NEW nonce \in 0 .. history.given, LoginBadProof(a, nonce) PROVE AuthTyped'
  <2>1. /\ nonces' = SpendNonce(nonce)
        /\ failures' = [SweptFailures EXCEPT ![a] = Count(SweptFailures[a])]
        /\ history'.row = Missed(a).row /\ history'.hasty = Missed(a).hasty
        /\ history'.fair = Without(nonce)
        /\ UNCHANGED <<history.given, history.unjust, history.opened, history.since,
                       history.over, history.blanks>>
        /\ Recorded(history')
        /\ UNCHANGED <<now, sessions>>
    BY <1>3, BadProofDoes
  <2>2. history' \in History
    BY <1>0, <2>1, MissedTyped, HistoryTypes, HistoryFields
  <2> QED
    BY <1>0, <2>1, <2>2, CountTyped, HistoryTypes DEF AuthTyped
<1>4. ASSUME NEW nonce \in 0 .. history.given, LoginWorks(a, nonce) PROVE AuthTyped'
  <2>1a. PICK token \in {None, Len(history.opened) + 1} : Works(a, nonce, token)
    BY <1>4, WorksDoes, Zenon
  <2>1. /\ nonces' = SpendNonce(nonce)
        /\ failures' = [SweptFailures EXCEPT ![a] = Untried]
        /\ sessions' = Append(AllBut(Room(sessions, MaxSessions), token), token)
        /\ history'.row = [history.row EXCEPT ![a] = Untried]
        /\ history'.fair = Without(nonce)
        /\ history'.blanks = Blanks(token)
        /\ history'.opened = Append(history.opened, [id |-> token, nonce |-> nonce])
        /\ history'.since = Append(Used(Len(history.since) + 1), {})
        /\ UNCHANGED <<history.given, history.unjust, history.hasty, history.over>>
        /\ Recorded(history')
        /\ UNCHANGED now
    BY <2>1a, Zenon DEF Works
  <2>2. /\ Len(history.opened) \in Nat /\ Len(history.since) \in Nat
        /\ token \in Nat /\ nonce \in Nat
    <3>1. Len(history.opened) \in Nat /\ Len(history.since) \in Nat /\ history.given \in Nat
      BY HistoryTypes
    <3> QED
      BY <3>1 DEF None
  <2> DEFINE x == [id |-> token, nonce |-> nonce]
             used == Used(Len(history.since) + 1)
             left == AllBut(Room(sessions, MaxSessions), token)
  <2>3. x \in [id : Nat, nonce : Nat]
    BY <2>2
  <2>4. used \in Seq(SUBSET Nat) /\ Len(used) = Len(history.opened)
    <3>1. Len(history.since) + 1 \in Nat
      BY <2>2
    <3> QED
      BY <3>1, UsedTyped, Zenon
  <2>5. left \in Seq(Nat)
    BY RoomKeeps, AllButKeeps, AuthConstants DEF AuthTyped
  <2> HIDE DEF x, used, left
  <2>6. sessions' \in Seq(Nat)
    BY <2>1, <2>2, <2>5 DEF left
  <2>7. history'.opened \in Seq([id : Nat, nonce : Nat])
        /\ Len(history'.opened) = Len(history.opened) + 1
    BY <2>1, <2>3, HistoryTypes DEF x
  <2>8. history'.since \in Seq(SUBSET Nat) /\ Len(history'.since) = Len(history.opened) + 1
    BY <2>1, <2>4 DEF used
  <2>9. history'.row \in [Addresses -> FailRows]
    <3>1. Untried \in FailRows
      BY DEF Untried, FailRows
    <3> QED
      BY <2>1, <3>1, HistoryTypes
  <2>10. history'.blanks \in Nat
    BY <2>1, HistoryTypes DEF Blanks
  <2>11. history' \in History
    <3>1. /\ history'.given \in Nat /\ history'.unjust \subseteq Nat
          /\ history'.hasty \subseteq Addresses /\ history'.over \subseteq Nat
          /\ history'.fair \subseteq [id : Nat, at : Nat, after : Nat]
      BY <1>0, <2>1, HistoryTypes
    <3> QED
      BY <2>1, <2>7, <2>8, <2>9, <2>10, <3>1, HistoryFields, Zenon
  <2> QED
    BY <1>0, <2>1, <2>6, <2>7, <2>8, <2>11, CountTyped DEF AuthTyped
<1> QED
  BY <1>1, <1>2, <1>3, <1>4 DEF Login

LEMMA TokenTyped ==
    AuthTyped => \A token \in 1 .. Len(history.opened) : Use(token) \/ Logout(token) => AuthTyped'
<1> SUFFICES ASSUME AuthTyped, NEW token \in 1 .. Len(history.opened), Use(token) \/ Logout(token)
             PROVE  AuthTyped'
  OBVIOUS
<1>1. token \in Nat
  BY HistoryTypes
<1>2. Touched(token) \in Seq(Nat) /\ AllBut(Touched(token), token) \in Seq(Nat)
  <2>1. sessions \in Seq(Nat)
    BY DEF AuthTyped
  <2>2. AllBut(sessions, token) \in Seq(Nat)
    BY <2>1, AllButKeeps
  <2>3. Touched(token) \in Seq(Nat)
    BY <1>1, <2>2 DEF Touched
  <2> QED
    BY <2>3, AllButKeeps
<1>3. Used(token) \in Seq(SUBSET Nat) /\ Len(Used(token)) = Len(history.opened)
  BY <1>1, UsedTyped
<1>4. CASE Use(token)
  <2>1. /\ sessions' = Touched(token)
        /\ history'.since = Used(token)
        /\ UNCHANGED <<history.given, history.fair, history.unjust, history.row, history.hasty,
                       history.opened, history.over, history.blanks>>
        /\ Recorded(history')
        /\ UNCHANGED <<now, nonces, failures>>
    BY <1>4, UseDoes
  <2>2. history' \in History
    BY <1>3, <2>1, HistoryTypes, HistoryFields
  <2> QED
    BY <1>2, <1>3, <2>1, <2>2 DEF AuthTyped
<1>5. CASE Logout(token)
  <2> DEFINE since == [Used(token) EXCEPT ![token] = {}]
  <2>1. /\ sessions' = AllBut(Touched(token), token)
        /\ history'.since = since
        /\ history'.over = history.over \cup {token}
        /\ UNCHANGED <<history.given, history.fair, history.unjust, history.row, history.hasty,
                       history.opened, history.blanks>>
        /\ Recorded(history')
        /\ UNCHANGED <<now, nonces, failures>>
    BY <1>5, LogoutDoes
  <2>2. since \in Seq(SUBSET Nat) /\ Len(since) = Len(history.opened)
    BY <1>3
  <2> HIDE DEF since
  <2>3. history' \in History
    BY <1>1, <2>1, <2>2, HistoryTypes, HistoryFields
  <2> QED
    BY <1>2, <2>1, <2>2, <2>3 DEF AuthTyped
<1> QED
  BY <1>4, <1>5

LEMMA TickTyped == AuthTyped /\ Tick => AuthTyped'
<1> SUFFICES ASSUME AuthTyped, Tick PROVE AuthTyped'
  OBVIOUS
<1>1. /\ now < MaxTime /\ now' = now + 1
      /\ history'.fair = {x \in history.fair : now + 1 - x.at <= NonceTtl}
      /\ UNCHANGED <<history.given, history.since, history.unjust, history.row, history.hasty,
                     history.opened, history.over, history.blanks>>
      /\ Recorded(history')
      /\ UNCHANGED <<nonces, sessions, failures>>
  BY TickDoes
<1>2. history' \in History
  BY <1>1, HistoryTypes, HistoryFields
<1>3. now' \in 0 .. MaxTime
  BY <1>1, AuthConstants DEF AuthTyped
<1> QED
  BY <1>1, <1>2, <1>3 DEF AuthTyped

LEMMA TypedInit == Init => AuthTyped
<1> SUFFICES ASSUME AuthInit PROVE AuthTyped
  BY DEF Init
<1>1. /\ history.given = 0 /\ history.fair = {} /\ history.unjust = {}
      /\ history.row = [a \in Addresses |-> Untried] /\ history.hasty = {}
      /\ history.opened = <<>> /\ history.since = <<>> /\ history.over = {}
      /\ history.blanks = 0 /\ Recorded(history)
  BY DEF AuthInit, Recorded
<1>2. Untried \in FailRows
  BY DEF Untried, FailRows
<1>3. <<>> \in Seq([id : Nat, nonce : Nat]) /\ <<>> \in Seq(SUBSET Nat)
  OBVIOUS
<1>4. history.row \in [Addresses -> FailRows]
  BY <1>1, <1>2
<1>5. history \in History
  <2>1. /\ history.given \in Nat /\ history.unjust \subseteq Nat
        /\ history.hasty \subseteq Addresses /\ history.over \subseteq Nat
        /\ history.fair \subseteq [id : Nat, at : Nat, after : Nat]
        /\ history.opened \in Seq([id : Nat, nonce : Nat])
        /\ history.since \in Seq(SUBSET Nat) /\ history.blanks \in Nat
    BY <1>1, <1>3
  <2> QED
    BY <1>1, <1>4, <2>1, HistoryFields, Zenon
<1>6. now = 0 /\ nonces = <<>> /\ sessions = <<>> /\ failures = [a \in Addresses |-> Untried]
  BY DEF AuthInit
<1> QED
  BY <1>1, <1>2, <1>5, <1>6, AuthConstants DEF AuthTyped

(* What the steps of the console are to the web login.                     *)
LEMMA ConsoleSteps ==
    ASSUME [Next]_vars
    PROVE  \/ UNCHANGED authVars
           \/ Challenge
           \/ \E a \in Addresses : Login(a)
           \/ \E token \in 1 .. Len(history.opened) : Use(token) \/ Logout(token)
           \/ Tick
BY DEF Next, vars, Public, Authorized, Watch, Feed, Time

LEMMA TypedStep == AuthTyped /\ [Next]_vars => AuthTyped'
<1> SUFFICES ASSUME AuthTyped, [Next]_vars PROVE AuthTyped'
  OBVIOUS
<1>1. UNCHANGED authVars => AuthTyped'
  BY DEF authVars, AuthTyped
<1> QED
  BY <1>1, ConsoleSteps, ChallengeTyped, LoginTyped, TokenTyped, TickTyped

(* Waiting.  The failures that are counted are those in a row, or they     *)
(* were forgotten because the last of the row is long ago.                 *)
InMind(r) == IF now - r.at > Forget THEN Untried ELSE r

ThrottleInv ==
    /\ \A a \in Addresses :
          /\ failures[a].at <= now /\ history.row[a].at <= now
          /\ \/ failures[a] = history.row[a]
             \/ failures[a] = Untried /\ now - history.row[a].at > Forget
    /\ history.hasty = {}

LEMMA SweptInMind ==
    ASSUME AuthTyped, ThrottleInv, NEW a \in Addresses
    PROVE  /\ SweptFailures[a] = InMind(history.row[a])
           /\ history.row[a] \in FailRows /\ SweptFailures[a] \in FailRows
           /\ now \in Nat /\ history.row[a].at <= now
<1>1. history.row[a] \in FailRows /\ now \in Nat
  BY HistoryTypes
<1>2. SweptFailures[a] \in FailRows
  BY SweptKeeps
<1>3. SweptFailures[a] = IF now - failures[a].at <= Forget THEN failures[a] ELSE Untried
  BY DEF SweptFailures
<1>4. failures[a] \in FailRows
  BY DEF AuthTyped
<1>5. /\ failures[a].at \in Nat /\ history.row[a].at \in Nat /\ Forget \in Nat
  BY <1>1, <1>4, AuthConstants DEF FailRows
<1>6. SweptFailures[a] = InMind(history.row[a])
  <2>1. CASE failures[a] = history.row[a]
    BY <1>1, <1>3, <1>5, <2>1 DEF InMind
  <2>2. CASE failures[a] = Untried /\ now - history.row[a].at > Forget
    BY <1>3, <2>2 DEF InMind
  <2> QED
    BY <2>1, <2>2 DEF ThrottleInv
<1> QED
  BY <1>1, <1>2, <1>6 DEF ThrottleInv

(* What is left after a sweep is as good.                                  *)
LEMMA SweptThrottle ==
    ASSUME AuthTyped, ThrottleInv, NEW a \in Addresses
    PROVE  /\ SweptFailures[a].at <= now
           /\ \/ SweptFailures[a] = history.row[a]
              \/ SweptFailures[a] = Untried /\ now - history.row[a].at > Forget
<1>1. /\ SweptFailures[a] = InMind(history.row[a])
      /\ history.row[a] \in FailRows /\ now \in Nat /\ history.row[a].at <= now
  BY SweptInMind
<1>2. Untried.at <= now
  BY <1>1 DEF Untried
<1> QED
  BY <1>1, <1>2 DEF InMind

(* A failure is counted on both sides alike, and is not too early.         *)
LEMMA MissedThrottle ==
    ASSUME AuthTyped, ThrottleInv, NEW a \in Addresses, ~ Barred(a)
    PROVE  /\ Missed(a).row = [history.row EXCEPT ![a] = Count(SweptFailures[a])]
           /\ Missed(a).hasty = {}
<1> DEFINE r == history.row[a]
           f == SweptFailures[a]
           n == IF now - r.at > Forget THEN 0 ELSE r.n
<1>1. /\ f = InMind(r) /\ r \in FailRows /\ f \in FailRows /\ now \in Nat /\ r.at <= now
  BY SweptInMind
<1>2. Missed(a).row = [history.row EXCEPT ![a] = [n |-> n + 1, at |-> now]]
  BY MissedDoes
<1>3. Missed(a).hasty = history.hasty \cup
         IF n > Patience /\ now - r.at < Wait(n) THEN {a} ELSE {}
  BY MissedDoes
<1>4. ~ (f.n > Patience /\ now - f.at < Wait(f.n))
  BY DEF Barred
<1>5. f.n = n /\ (n > Patience => f.at = r.at)
  <2>1. CASE now - r.at > Forget
    BY <1>1, <2>1, AuthConstants DEF InMind, Untried
  <2>2. CASE ~ (now - r.at > Forget)
    BY <1>1, <2>2 DEF InMind
  <2> QED
    BY <2>1, <2>2
<1> HIDE DEF r, f, n
<1>6. ~ (n > Patience /\ now - r.at < Wait(n))
  BY <1>4, <1>5
<1>7. Missed(a).hasty = {}
  BY <1>3, <1>6 DEF ThrottleInv
<1>8. Missed(a).row = [history.row EXCEPT ![a] = Count(f)]
  BY <1>2, <1>5 DEF Count
<1> QED
  BY <1>7, <1>8 DEF f

LEMMA ThrottleFails ==
    ASSUME AuthTyped, ThrottleInv, NEW a \in Addresses, ~ Barred(a),
           failures' = [SweptFailures EXCEPT ![a] = Count(SweptFailures[a])],
           history'.row = Missed(a).row, history'.hasty = Missed(a).hasty, now' = now
    PROVE  ThrottleInv'
<1>1. /\ Missed(a).row = [history.row EXCEPT ![a] = Count(SweptFailures[a])]
      /\ Missed(a).hasty = {}
  BY MissedThrottle
<1>2. history.row \in [Addresses -> FailRows] /\ SweptFailures \in [Addresses -> FailRows]
  BY HistoryTypes, SweptKeeps
<1>3. now \in Nat /\ Count(SweptFailures[a]).at = now
  BY HistoryTypes DEF Count
<1> SUFFICES ASSUME NEW b \in Addresses
             PROVE  /\ failures'[b].at <= now /\ history'.row[b].at <= now
                    /\ \/ failures'[b] = history'.row[b]
                       \/ failures'[b] = Untried /\ now - history'.row[b].at > Forget
  BY <1>1 DEF ThrottleInv
<1>4. CASE b = a
  BY <1>1, <1>2, <1>3, <1>4
<1>5. CASE b # a
  <2>1. failures'[b] = SweptFailures[b] /\ history'.row[b] = history.row[b]
    BY <1>1, <1>2, <1>5
  <2> QED
    BY <2>1, SweptThrottle DEF ThrottleInv
<1> QED
  BY <1>4, <1>5

LEMMA ThrottleSweeps ==
    ASSUME AuthTyped, ThrottleInv, failures' = SweptFailures,
           history'.row = history.row, history'.hasty = history.hasty, now' = now
    PROVE  ThrottleInv'
BY SweptThrottle DEF ThrottleInv

LEMMA ThrottleStays ==
    ASSUME AuthTyped, ThrottleInv, failures' = failures,
           history'.row = history.row, history'.hasty = history.hasty, now' \in {now, now + 1}
    PROVE  ThrottleInv'
<1>1. \A a \in Addresses : history.row[a] \in FailRows /\ failures[a] \in FailRows
  BY HistoryTypes DEF AuthTyped
<1>2. \A a \in Addresses : history.row[a].at \in Nat /\ failures[a].at \in Nat
  BY <1>1 DEF FailRows
<1>3. now \in Nat /\ Forget \in Nat
  BY HistoryTypes, AuthConstants
<1> QED
  BY <1>2, <1>3 DEF ThrottleInv

LEMMA ThrottleLogin ==
    ASSUME AuthTyped, ThrottleInv, NEW a \in Addresses, Login(a)
    PROVE  ThrottleInv'
<1>1. CASE LoginBarred(a)
  BY <1>1, ThrottleSweeps DEF LoginBarred
<1>2. ASSUME NEW nonce \in 0 .. history.given, LoginBadNonce(a, nonce) PROVE ThrottleInv'
  BY <1>2, BadNonceDoes, ThrottleFails
<1>3. ASSUME NEW nonce \in 0 .. history.given, LoginBadProof(a, nonce) PROVE ThrottleInv'
  BY <1>3, BadProofDoes, ThrottleFails
<1>4. ASSUME NEW nonce \in 0 .. history.given, LoginWorks(a, nonce) PROVE ThrottleInv'
  <2>1. PICK token \in {None, Len(history.opened) + 1} : Works(a, nonce, token)
    BY <1>4, WorksDoes, Zenon
  <2>2. /\ failures' = [SweptFailures EXCEPT ![a] = Untried]
        /\ history'.row = [history.row EXCEPT ![a] = Untried]
        /\ history'.hasty = history.hasty /\ now' = now
    BY <2>1 DEF Works
  <2>3. history.row \in [Addresses -> FailRows] /\ SweptFailures \in [Addresses -> FailRows]
    BY HistoryTypes, SweptKeeps
  <2>4. now \in Nat /\ Untried.at <= now
    BY HistoryTypes DEF Untried
  <2> SUFFICES ASSUME NEW b \in Addresses
               PROVE  /\ failures'[b].at <= now /\ history'.row[b].at <= now
                      /\ \/ failures'[b] = history'.row[b]
                         \/ failures'[b] = Untried /\ now - history'.row[b].at > Forget
    BY <2>2 DEF ThrottleInv
  <2>5. CASE b = a
    BY <2>2, <2>3, <2>4, <2>5
  <2>6. CASE b # a
    <3>1. failures'[b] = SweptFailures[b] /\ history'.row[b] = history.row[b]
      BY <2>2, <2>3, <2>6
    <3> QED
      BY <3>1, SweptThrottle DEF ThrottleInv
  <2> QED
    BY <2>5, <2>6
<1> QED
  BY <1>1, <1>2, <1>3, <1>4 DEF Login

LEMMA ThrottleStep == AuthTyped /\ ThrottleInv /\ [Next]_vars => ThrottleInv'
<1> SUFFICES ASSUME AuthTyped, ThrottleInv, [Next]_vars PROVE ThrottleInv'
  OBVIOUS
<1>1. CASE UNCHANGED authVars
  BY <1>1, ThrottleStays DEF authVars
<1>2. CASE Challenge
  BY <1>2, ChallengeDoes, ThrottleSweeps
<1>3. ASSUME NEW token \in 1 .. Len(history.opened), Use(token) \/ Logout(token)
      PROVE  ThrottleInv'
  BY <1>3, UseDoes, LogoutDoes, ThrottleStays
<1>4. CASE Tick
  BY <1>4, TickDoes, ThrottleStays
<1> QED
  BY <1>1, <1>2, <1>3, <1>4, ConsoleSteps, ThrottleLogin

LEMMA ThrottleInit == Init => ThrottleInv
<1> SUFFICES ASSUME AuthInit PROVE ThrottleInv
  BY DEF Init
<1>1. /\ now = 0 /\ failures = [a \in Addresses |-> Untried]
      /\ history.row = [a \in Addresses |-> Untried] /\ history.hasty = {}
  BY DEF AuthInit
<1> QED
  BY <1>1 DEF ThrottleInv, Untried

LEMMA AuthTypedAlways == Spec => []AuthTyped
BY TypedInit, TypedStep, PTL DEF Spec

(* Failures in a row from one address come at growing distances, whatever  *)
(* challenges and logins of others come between (failed_too_often and      *)
(* record_failure in auth.rs).                                             *)
THEOREM GuessesSlowDownHolds == Spec => []GuessesSlowDown
<1>1. ThrottleInv => GuessesSlowDown
  BY DEF ThrottleInv, GuessesSlowDown
<1>2. Init => ThrottleInv
  BY ThrottleInit
<1>3. AuthTyped /\ ThrottleInv /\ [Next]_vars => ThrottleInv'
  BY ThrottleStep
<1> QED
  BY <1>1, <1>2, <1>3, AuthTypedAlways, PTL DEF Spec

-----------------------------------------------------------------------------
(* Nonces.  A list of them is in its order of age, none of them later than *)
(* t and none given out after the m-th.                                    *)
Nonce == [id : Nat, at : Nat]

Aged(list, t, m) ==
    /\ \A k \in DOMAIN list : list[k].at <= t /\ list[k].id <= m
    /\ \A i, j \in DOMAIN list : i < j => list[i].at <= list[j].at

(* The nonce of challenge x is in the list, with n after it at most.       *)
Held(x, list, n) ==
    \E k \in DOMAIN list : /\ list[k] = [id |-> x.id, at |-> x.at]
                           /\ Len(list) - k <= n

NonceInv ==
    /\ Len(nonces) <= MaxNonces
    /\ Aged(nonces, now, history.given)

FairInv ==
    /\ \A x \in history.fair :
          /\ x.id # None /\ x.id <= history.given /\ now - x.at <= NonceTtl
          /\ x.after >= MaxNonces \/ Held(x, nonces, x.after)
    /\ \A after \in history.unjust : after >= MaxNonces

Spent(nonce) == nonce = None \/ (nonce <= history.given /\ nonce \notin Ids(nonces))

SpentInv ==
    /\ \A i \in DOMAIN history.opened : Spent(history.opened[i].nonce)
    /\ OneSessionPerNonce

LEMMA AgedRetain ==
    ASSUME NEW list \in Seq(Nonce), NEW S, NEW t, NEW m, Aged(list, t, m)
    PROVE  Aged(Retain(list, S), t, m)
<1> DEFINE r == Retain(list, S)
           n == Len(list)
<1>1. r \in Seq(Nonce)
  BY RetainPicks
<1>2. PICK g : Picks(g, r, list, S, n)
  BY RetainPicks
<1> HIDE DEF r
<1>3. DOMAIN r = 1 .. Len(r) /\ DOMAIN list = 1 .. n
  BY <1>1
<1>4. \A i \in 1 .. Len(r) : r[i] = list[g[i]] /\ g[i] \in 1 .. n
  BY <1>2 DEF Picks
<1>5. \A i, j \in 1 .. Len(r) : i < j => g[i] < g[j]
  BY <1>2 DEF Picks
<1>6. \A k \in 1 .. n : list[k].at <= t /\ list[k].id <= m
  BY <1>3 DEF Aged
<1>7. \A i, j \in 1 .. n : i < j => list[i].at <= list[j].at
  BY <1>3 DEF Aged
<1> HIDE DEF n
<1>8. \A i \in DOMAIN r : r[i].at <= t /\ r[i].id <= m
  BY <1>3, <1>4, <1>6
<1>9. ASSUME NEW i \in DOMAIN r, NEW j \in DOMAIN r, i < j PROVE r[i].at <= r[j].at
  BY <1>3, <1>4, <1>5, <1>7, <1>9
<1> QED
  BY <1>8, <1>9 DEF Aged, r

LEMMA AgedRoom ==
    ASSUME NEW list \in Seq(Nonce), NEW max \in Nat \ {0}, NEW t, NEW m, Aged(list, t, m)
    PROVE  Aged(Room(list, max), t, m)
<1>1. CASE Len(list) >= max
  <2>1. /\ Room(list, max) = Tail(list) /\ list # <<>>
        /\ DOMAIN Tail(list) = 1 .. Len(list) - 1 /\ DOMAIN list = 1 .. Len(list)
        /\ \A k \in 1 .. Len(list) - 1 : Tail(list)[k] = list[k + 1]
    BY <1>1 DEF Room
  <2> QED
    BY <2>1 DEF Aged
<1>2. CASE ~ (Len(list) >= max)
  BY <1>2 DEF Room
<1> QED
  BY <1>1, <1>2

LEMMA AgedAppend ==
    ASSUME NEW list \in Seq(Nonce), NEW t \in Nat, NEW m \in Nat, NEW u \in Nat,
           Aged(list, t, m), NEW x \in Nonce, x.at = t, x.id <= u, m <= u
    PROVE  Aged(Append(list, x), t, u)
<1>1. /\ DOMAIN Append(list, x) = 1 .. Len(list) + 1 /\ DOMAIN list = 1 .. Len(list)
      /\ \A k \in 1 .. Len(list) : Append(list, x)[k] = list[k]
      /\ Append(list, x)[Len(list) + 1] = x /\ Len(list) \in Nat
  OBVIOUS
<1>2. \A k \in 1 .. Len(list) : list[k].at \in Nat /\ list[k].id \in Nat
  <2>1. \A k \in 1 .. Len(list) : list[k] \in Nonce
    OBVIOUS
  <2> QED
    BY <2>1 DEF Nonce
<1>3. \A k \in 1 .. Len(list) : list[k].at <= t /\ list[k].id <= u
  BY <1>1, <1>2 DEF Aged
<1>4. \A i, j \in 1 .. Len(list) : i < j => list[i].at <= list[j].at
  BY <1>1 DEF Aged
<1> DEFINE l == Append(list, x)
<1> HIDE DEF l
<1>5. ASSUME NEW k \in 1 .. Len(list) + 1 PROVE l[k].at <= t /\ l[k].id <= u
  <2>1. CASE k = Len(list) + 1
    BY <1>1, <2>1 DEF l
  <2>2. CASE k \in 1 .. Len(list)
    BY <1>1, <1>3, <2>2 DEF l
  <2> QED
    BY <1>1, <2>1, <2>2
<1>6. ASSUME NEW i \in 1 .. Len(list) + 1, NEW j \in 1 .. Len(list) + 1, i < j
      PROVE  l[i].at <= l[j].at
  <2>1. i \in 1 .. Len(list)
    BY <1>1, <1>6
  <2>2. CASE j = Len(list) + 1
    BY <1>1, <1>3, <2>1, <2>2 DEF l
  <2>3. CASE j \in 1 .. Len(list)
    BY <1>1, <1>4, <1>6, <2>1, <2>3 DEF l
  <2> QED
    BY <1>1, <2>2, <2>3
<1> QED
  BY <1>1, <1>5, <1>6 DEF Aged, l

LEMMA AgedLater ==
    ASSUME NEW list \in Seq(Nonce), NEW t \in Nat, NEW m \in Nat, Aged(list, t, m)
    PROVE  Aged(list, t + 1, m)
<1>1. \A k \in DOMAIN list : list[k].at \in Nat
  <2>1. \A k \in DOMAIN list : list[k] \in Nonce
    OBVIOUS
  <2> QED
    BY <2>1 DEF Nonce
<1> QED
  BY <1>1 DEF Aged

(* A nonce that is kept gets no farther from the end of the list.          *)
LEMMA HeldRetain ==
    ASSUME NEW list \in Seq(Nonce), NEW S, NEW x, NEW n \in Nat, Held(x, list, n),
           [id |-> x.id, at |-> x.at] \in S
    PROVE  Held(x, Retain(list, S), n)
<1> DEFINE r == Retain(list, S)
           y == [id |-> x.id, at |-> x.at]
<1>1. r \in Seq(Nonce)
  BY RetainPicks
<1>2. PICK g : Picks(g, r, list, S, Len(list))
  BY RetainPicks
<1>3. PICK k \in DOMAIN list : list[k] = y /\ Len(list) - k <= n
  BY DEF Held
<1> HIDE DEF r, y
<1>4. k \in 1 .. Len(list) /\ Len(list) \in Nat /\ DOMAIN r = 1 .. Len(r) /\ Len(r) \in Nat
  BY <1>1, <1>3
<1>5. list[k] \in S
  BY <1>3 DEF y
<1>6. PICK i \in 1 .. Len(r) : g[i] = k
  BY <1>2, <1>4, <1>5 DEF Picks
<1>7. r[i] = list[g[i]] /\ g[i] + (Len(r) - i) <= Len(list)
  BY <1>2, <1>6 DEF Picks
<1>8. r[i] = y /\ Len(r) - i <= n
  BY <1>3, <1>4, <1>6, <1>7
<1> QED
  BY <1>4, <1>6, <1>8 DEF Held, r, y

LEMMA HeldRoom ==
    ASSUME NEW list \in Seq(Nonce), NEW max \in Nat \ {0}, Len(list) <= max,
           NEW x, NEW n \in Nat, Held(x, list, n)
    PROVE  n + 1 >= max \/ Held(x, Room(list, max), n)
<1>1. CASE Len(list) >= max
  <2>1. /\ Room(list, max) = Tail(list) /\ list # <<>> /\ Len(list) = max
        /\ DOMAIN Tail(list) = 1 .. Len(list) - 1 /\ DOMAIN list = 1 .. Len(list)
        /\ Len(Tail(list)) = Len(list) - 1
        /\ \A k \in 1 .. Len(list) - 1 : Tail(list)[k] = list[k + 1]
    BY <1>1 DEF Room
  <2>2. PICK k \in DOMAIN list : list[k] = [id |-> x.id, at |-> x.at] /\ Len(list) - k <= n
    BY DEF Held
  <2>3. CASE k = 1
    BY <2>1, <2>2, <2>3
  <2>4. CASE k # 1
    <3>1. k - 1 \in 1 .. Len(list) - 1 /\ (k - 1) + 1 = k
      BY <2>1, <2>4
    <3>2. Tail(list)[k - 1] = [id |-> x.id, at |-> x.at]
      BY <2>1, <2>2, <3>1
    <3>3. Len(Tail(list)) - (k - 1) <= n
      BY <2>1, <2>2, <3>1
    <3> QED
      BY <2>1, <3>1, <3>2, <3>3 DEF Held
  <2> QED
    BY <2>3, <2>4
<1>2. CASE ~ (Len(list) >= max)
  BY <1>2 DEF Room
<1> QED
  BY <1>1, <1>2

LEMMA HeldAppend ==
    ASSUME NEW list \in Seq(Nonce), NEW y \in Nonce, NEW x
    PROVE  /\ \A n \in Nat : Held(x, list, n) => Held(x, Append(list, y), n + 1)
           /\ y = [id |-> x.id, at |-> x.at] => Held(x, Append(list, y), 0)
<1>1. /\ DOMAIN Append(list, y) = 1 .. Len(list) + 1 /\ DOMAIN list = 1 .. Len(list)
      /\ \A k \in 1 .. Len(list) : Append(list, y)[k] = list[k]
      /\ Append(list, y)[Len(list) + 1] = y /\ Len(list) \in Nat
      /\ Len(Append(list, y)) = Len(list) + 1
  OBVIOUS
<1>2. ASSUME NEW n \in Nat, Held(x, list, n) PROVE Held(x, Append(list, y), n + 1)
  <2>1. PICK k \in DOMAIN list : list[k] = [id |-> x.id, at |-> x.at] /\ Len(list) - k <= n
    BY <1>2 DEF Held
  <2>2. k \in DOMAIN Append(list, y) /\ Append(list, y)[k] = list[k]
        /\ Len(Append(list, y)) - k <= n + 1
    BY <1>1, <2>1
  <2> QED
    BY <2>1, <2>2 DEF Held
<1>3. ASSUME y = [id |-> x.id, at |-> x.at] PROVE Held(x, Append(list, y), 0)
  <2>1. Len(list) + 1 \in DOMAIN Append(list, y)
        /\ Len(Append(list, y)) - (Len(list) + 1) <= 0
    BY <1>1
  <2> QED
    BY <1>1, <1>3, <2>1 DEF Held
<1> QED
  BY <1>2, <1>3

(* Which ids are there.                                                    *)
LEMMA IdsRetain ==
    ASSUME NEW T, NEW list \in Seq(T), NEW S
    PROVE  \A id \in Ids(Retain(list, S)) :
              \E k \in DOMAIN list : list[k].id = id /\ list[k] \in S
<1> DEFINE r == Retain(list, S)
<1>1. r \in Seq(T)
  BY RetainPicks
<1>2. PICK g : Picks(g, r, list, S, Len(list))
  BY RetainPicks
<1> HIDE DEF r
<1> SUFFICES ASSUME NEW i \in DOMAIN r
             PROVE  \E k \in DOMAIN list : list[k].id = r[i].id /\ list[k] \in S
  BY DEF Ids, r
<1>3. i \in 1 .. Len(r)
  BY <1>1
<1>4. r[i] = list[g[i]] /\ g[i] \in 1 .. Len(list) /\ list[g[i]] \in S
  BY <1>2, <1>3 DEF Picks
<1> QED
  BY <1>4

LEMMA IdsRoom ==
    ASSUME NEW T, NEW list \in Seq(T), NEW max \in Nat \ {0}
    PROVE  Ids(Room(list, max)) \subseteq Ids(list)
<1>1. CASE Len(list) >= max
  <2>1. /\ Room(list, max) = Tail(list) /\ list # <<>>
        /\ DOMAIN Tail(list) = 1 .. Len(list) - 1 /\ DOMAIN list = 1 .. Len(list)
        /\ \A k \in 1 .. Len(list) - 1 : Tail(list)[k] = list[k + 1]
    BY <1>1 DEF Room
  <2>2. \A k \in 1 .. Len(list) - 1 : k + 1 \in DOMAIN list
    BY <2>1
  <2> QED
    BY <2>1, <2>2 DEF Ids
<1>2. CASE ~ (Len(list) >= max)
  BY <1>2 DEF Room
<1> QED
  BY <1>1, <1>2

LEMMA IdsAppend ==
    ASSUME NEW T, NEW list \in Seq(T), NEW x
    PROVE  Ids(Append(list, x)) \subseteq Ids(list) \cup {x.id}
<1>1. /\ DOMAIN Append(list, x) = 1 .. Len(list) + 1 /\ DOMAIN list = 1 .. Len(list)
      /\ \A k \in 1 .. Len(list) : Append(list, x)[k] = list[k]
      /\ Append(list, x)[Len(list) + 1] = x /\ Len(list) \in Nat
  OBVIOUS
<1> SUFFICES ASSUME NEW k \in DOMAIN Append(list, x)
             PROVE  Append(list, x)[k].id \in Ids(list) \cup {x.id}
  BY DEF Ids
<1>2. CASE k = Len(list) + 1
  BY <1>1, <1>2
<1>3. CASE k \in 1 .. Len(list)
  BY <1>1, <1>3 DEF Ids
<1> QED
  BY <1>1, <1>2, <1>3

LEMMA SweptHolds ==
    ASSUME AuthTyped, NonceInv
    PROVE  /\ SweptNonces \in Seq(Nonce) /\ Len(SweptNonces) <= MaxNonces
           /\ Aged(SweptNonces, now, history.given)
           /\ Ids(SweptNonces) \subseteq Ids(nonces)
           /\ \A x \in history.fair : \A n \in Nat :
                 now - x.at <= NonceTtl /\ Held(x, nonces, n) => Held(x, SweptNonces, n)
<1> DEFINE S == {x \in ToSet(nonces) : now - x.at <= NonceTtl}
<1>1. nonces \in Seq(Nonce)
  BY DEF AuthTyped, Nonce
<1>2. SweptNonces = Retain(nonces, S)
  BY DEF SweptNonces
<1>3. ASSUME NEW x, NEW n \in Nat, now - x.at <= NonceTtl, Held(x, nonces, n)
      PROVE  [id |-> x.id, at |-> x.at] \in S
  <2>1. PICK k \in DOMAIN nonces : nonces[k] = [id |-> x.id, at |-> x.at]
    BY <1>3 DEF Held
  <2>2. [id |-> x.id, at |-> x.at] \in ToSet(nonces)
    BY <2>1 DEF ToSet
  <2> QED
    BY <1>3, <2>2
<1> HIDE DEF S
<1>4. SweptNonces \in Seq(Nonce) /\ Len(SweptNonces) <= Len(nonces)
  BY <1>1, <1>2, RetainPicks
<1>5. Aged(SweptNonces, now, history.given)
  BY <1>1, <1>2, AgedRetain DEF NonceInv
<1>6. ASSUME NEW id \in Ids(SweptNonces) PROVE id \in Ids(nonces)
  <2>1. PICK k \in DOMAIN nonces : nonces[k].id = id
    BY <1>1, <1>2, <1>6, IdsRetain
  <2> QED
    BY <2>1 DEF Ids
<1>7. \A x \in history.fair : \A n \in Nat :
         now - x.at <= NonceTtl /\ Held(x, nonces, n) => Held(x, SweptNonces, n)
  BY <1>1, <1>2, <1>3, HeldRetain
<1>8. Len(nonces) <= MaxNonces /\ Len(nonces) \in Nat /\ Len(SweptNonces) \in Nat
  BY <1>1, <1>4 DEF NonceInv
<1> QED
  BY <1>4, <1>5, <1>6, <1>7, <1>8, AuthConstants

LEMMA NotNamedHolds ==
    ASSUME NEW list \in Seq(Nonce), NEW id
    PROVE  /\ NotNamed(list, id) \in Seq(Nonce) /\ Len(NotNamed(list, id)) <= Len(list)
           /\ \A t, m : Aged(list, t, m) => Aged(NotNamed(list, id), t, m)
           /\ Ids(NotNamed(list, id)) \subseteq Ids(list) \ {id}
           /\ \A x : \A n \in Nat : x.id # id /\ Held(x, list, n) => Held(x, NotNamed(list, id), n)
<1> DEFINE S == {x \in ToSet(list) : x.id # id}
<1>1. NotNamed(list, id) = Retain(list, S)
  BY DEF NotNamed
<1>2. ASSUME NEW x, NEW n \in Nat, x.id # id, Held(x, list, n)
      PROVE  [id |-> x.id, at |-> x.at] \in S
  <2>1. PICK k \in DOMAIN list : list[k] = [id |-> x.id, at |-> x.at]
    BY <1>2 DEF Held
  <2>2. [id |-> x.id, at |-> x.at] \in ToSet(list)
    BY <2>1 DEF ToSet
  <2>3. [id |-> x.id, at |-> x.at].id # id
    BY <1>2
  <2> QED
    BY <2>2, <2>3
<1>3. \A y \in S : y.id # id
  OBVIOUS
<1> HIDE DEF S
<1>4. NotNamed(list, id) \in Seq(Nonce) /\ Len(NotNamed(list, id)) <= Len(list)
  BY NotNamedKeeps
<1>5. \A t, m : Aged(list, t, m) => Aged(NotNamed(list, id), t, m)
  BY <1>1, AgedRetain
<1>6. ASSUME NEW i \in Ids(NotNamed(list, id)) PROVE i \in Ids(list) \ {id}
  <2>1. PICK k \in DOMAIN list : list[k].id = i /\ list[k] \in S
    BY <1>1, <1>6, IdsRetain
  <2> QED
    BY <1>3, <2>1 DEF Ids
<1>7. \A x : \A n \in Nat : x.id # id /\ Held(x, list, n) => Held(x, NotNamed(list, id), n)
  BY <1>1, <1>2, HeldRetain
<1> QED
  BY <1>4, <1>5, <1>6, <1>7

LEMMA RoomHolds ==
    ASSUME AuthTyped, NonceInv
    PROVE  /\ Room(SweptNonces, MaxNonces) \in Seq(Nonce)
           /\ Len(Room(SweptNonces, MaxNonces)) <= MaxNonces - 1
           /\ Aged(Room(SweptNonces, MaxNonces), now, history.given)
           /\ Ids(Room(SweptNonces, MaxNonces)) \subseteq Ids(nonces)
<1>1. /\ SweptNonces \in Seq(Nonce) /\ Len(SweptNonces) <= MaxNonces
      /\ Aged(SweptNonces, now, history.given)
      /\ Ids(SweptNonces) \subseteq Ids(nonces)
  BY SweptHolds
<1>2. MaxNonces \in Nat \ {0}
  BY AuthConstants
<1> QED
  BY <1>1, <1>2, RoomKeeps, AgedRoom, IdsRoom

(* A nonce given out, id, to which others were added.                      *)
Given(id) ==
    /\ nonces' = Append(NotNamed(Room(SweptNonces, MaxNonces), id), [id |-> id, at |-> now])
    /\ history'.given = history.given + 1
    /\ history'.fair = OneAfter \cup
                       IF id = None THEN {} ELSE {[id |-> id, at |-> now, after |-> 0]}
    /\ UNCHANGED <<history.unjust, history.opened, now>>

LEMMA ChallengeGives ==
    ASSUME AuthTyped, Challenge
    PROVE  \E id \in {None, history.given + 1} : Given(id)
BY ChallengeDoes, Zenon DEF Given

LEMMA GivenNonces ==
    ASSUME AuthTyped, NonceInv, NEW id \in {None, history.given + 1}, Given(id)
    PROVE  /\ NonceInv' /\ Ids(nonces') \subseteq Ids(nonces) \cup {id}
<1> DEFINE room == Room(SweptNonces, MaxNonces)
           left == NotNamed(room, id)
           x == [id |-> id, at |-> now]
<1>1. /\ room \in Seq(Nonce) /\ Len(room) <= MaxNonces - 1
      /\ Aged(room, now, history.given) /\ Ids(room) \subseteq Ids(nonces)
  BY RoomHolds
<1> HIDE DEF room
<1>2. /\ left \in Seq(Nonce) /\ Len(left) <= Len(room)
      /\ Aged(left, now, history.given) /\ Ids(left) \subseteq Ids(nonces)
  BY <1>1, NotNamedHolds
<1>3. id \in Nat /\ now \in Nat /\ history.given \in Nat /\ id <= history.given + 1
  BY HistoryTypes DEF None
<1>4. x \in Nonce /\ x.at = now /\ x.id = id
  BY <1>3 DEF Nonce
<1>5. nonces' = Append(left, x) /\ history'.given = history.given + 1 /\ now' = now
  BY DEF Given, room
<1> HIDE DEF left, x
<1>6. Len(nonces') <= MaxNonces
  BY <1>1, <1>2, <1>4, <1>5, AuthConstants
<1>7. Aged(nonces', now, history.given + 1)
  <2>1. history.given + 1 \in Nat /\ history.given <= history.given + 1
    BY <1>3
  <2>2. Aged(Append(left, x), now, history.given + 1)
    BY <1>2, <1>3, <1>4, <2>1, AgedAppend
  <2> QED
    BY <1>5, <2>2
<1>8. Ids(nonces') \subseteq Ids(left) \cup {id}
  BY <1>2, <1>4, <1>5, IdsAppend
<1> QED
  BY <1>2, <1>5, <1>6, <1>7, <1>8 DEF NonceInv

(* Sweeping, and spending a nonce.                                         *)
LEMMA SpendHolds ==
    ASSUME AuthTyped, NonceInv, NEW nonce
    PROVE  /\ SpendNonce(nonce) \in Seq(Nonce) /\ Len(SpendNonce(nonce)) <= MaxNonces
           /\ Aged(SpendNonce(nonce), now, history.given)
           /\ Ids(SpendNonce(nonce)) \subseteq Ids(nonces) \ {nonce}
           /\ \A x \in history.fair : \A n \in Nat :
                 x.id # nonce /\ now - x.at <= NonceTtl /\ Held(x, nonces, n)
                     => Held(x, SpendNonce(nonce), n)
<1>1. /\ SweptNonces \in Seq(Nonce) /\ Len(SweptNonces) <= MaxNonces
      /\ Aged(SweptNonces, now, history.given)
      /\ Ids(SweptNonces) \subseteq Ids(nonces)
      /\ \A x \in history.fair : \A n \in Nat :
            now - x.at <= NonceTtl /\ Held(x, nonces, n) => Held(x, SweptNonces, n)
  BY SweptHolds
<1>2. /\ SpendNonce(nonce) \in Seq(Nonce) /\ Len(SpendNonce(nonce)) <= Len(SweptNonces)
      /\ Aged(SpendNonce(nonce), now, history.given)
      /\ Ids(SpendNonce(nonce)) \subseteq Ids(SweptNonces) \ {nonce}
      /\ \A x : \A n \in Nat : x.id # nonce /\ Held(x, SweptNonces, n)
                   => Held(x, SpendNonce(nonce), n)
  BY <1>1, NotNamedHolds DEF SpendNonce
<1>3. Len(SpendNonce(nonce)) <= MaxNonces
  BY <1>1, <1>2, AuthConstants
<1> QED
  BY <1>1, <1>2, <1>3

LEMMA NonceSteps ==
    ASSUME AuthTyped, NonceInv, history'.given = history.given, now' \in {now, now + 1},
           nonces' = nonces \/ (now' = now /\ (nonces' = SweptNonces \/ \E nonce : nonces' = SpendNonce(nonce)))
    PROVE  NonceInv'
<1>1. now \in Nat /\ history.given \in Nat /\ nonces \in Seq(Nonce)
  BY HistoryTypes DEF AuthTyped, Nonce
<1>2. CASE nonces' = nonces
  BY <1>1, <1>2, AgedLater DEF NonceInv
<1>3. CASE now' = now /\ nonces' = SweptNonces
  BY <1>3, SweptHolds DEF NonceInv
<1>4. ASSUME NEW nonce, now' = now, nonces' = SpendNonce(nonce) PROVE NonceInv'
  BY <1>4, SpendHolds DEF NonceInv
<1> QED
  BY <1>2, <1>3, <1>4

LEMMA NonceLogin ==
    ASSUME AuthTyped, NonceInv, NEW a \in Addresses, Login(a) PROVE NonceInv'
<1>1. CASE LoginBarred(a)
  BY <1>1, NonceSteps DEF LoginBarred
<1>2. ASSUME NEW nonce \in 0 .. history.given, LoginBadNonce(a, nonce) PROVE NonceInv'
  BY <1>2, BadNonceDoes, NonceSteps
<1>3. ASSUME NEW nonce \in 0 .. history.given, LoginBadProof(a, nonce) PROVE NonceInv'
  BY <1>3, BadProofDoes, NonceSteps
<1>4. ASSUME NEW nonce \in 0 .. history.given, LoginWorks(a, nonce) PROVE NonceInv'
  <2>1. PICK token \in {None, Len(history.opened) + 1} : Works(a, nonce, token)
    BY <1>4, WorksDoes, Zenon
  <2>2. history'.given = history.given /\ now' = now /\ nonces' = SpendNonce(nonce)
    BY <2>1 DEF Works
  <2> QED
    BY <2>2, NonceSteps
<1> QED
  BY <1>1, <1>2, <1>3, <1>4 DEF Login

LEMMA NonceStep == AuthTyped /\ NonceInv /\ [Next]_vars => NonceInv'
<1> SUFFICES ASSUME AuthTyped, NonceInv, [Next]_vars PROVE NonceInv'
  OBVIOUS
<1>1. CASE UNCHANGED authVars
  BY <1>1, NonceSteps DEF authVars
<1>2. CASE Challenge
  BY <1>2, ChallengeGives, GivenNonces
<1>3. ASSUME NEW token \in 1 .. Len(history.opened), Use(token) \/ Logout(token)
      PROVE  NonceInv'
  BY <1>3, UseDoes, LogoutDoes, NonceSteps
<1>4. CASE Tick
  BY <1>4, TickDoes, NonceSteps
<1> QED
  BY <1>1, <1>2, <1>3, <1>4, ConsoleSteps, NonceLogin

(* Challenges that are kept: in time, and with their place in the list.    *)
Kept(x, list, given, t) ==
    /\ x.id # None /\ x.id <= given /\ t - x.at <= NonceTtl
    /\ x.after >= MaxNonces \/ Held(x, list, x.after)

LEMMA FairMeans ==
    FairInv <=> /\ \A x \in history.fair : Kept(x, nonces, history.given, now)
                /\ \A after \in history.unjust : after >= MaxNonces
BY DEF FairInv, Kept

LEMMA FairTyped ==
    ASSUME AuthTyped, NEW x \in history.fair
    PROVE  x \in [id : Nat, at : Nat, after : Nat] /\ x.id \in Nat /\ x.at \in Nat /\ x.after \in Nat
BY HistoryTypes

LEMMA GivenFair ==
    ASSUME AuthTyped, NonceInv, FairInv, NEW id \in {None, history.given + 1}, Given(id)
    PROVE  FairInv'
<1> DEFINE room == Room(SweptNonces, MaxNonces)
           left == NotNamed(room, id)
           y == [id |-> id, at |-> now]
           new == [id |-> id, at |-> now, after |-> 0]
<1>1. id \in Nat /\ now \in Nat /\ history.given \in Nat /\ MaxNonces \in Nat \ {0} /\ NonceTtl \in Nat
  BY HistoryTypes, AuthConstants DEF None
<1>2. room \in Seq(Nonce) /\ left \in Seq(Nonce) /\ y \in Nonce
  BY <1>1, RoomHolds, NotNamedHolds DEF Nonce
<1>3. /\ nonces' = Append(left, y) /\ history'.given = history.given + 1 /\ now' = now
      /\ history'.fair = OneAfter \cup IF id = None THEN {} ELSE {new}
      /\ history'.unjust = history.unjust
  BY DEF Given
<1>4. ASSUME NEW z \in OneAfter PROVE Kept(z, nonces', history.given + 1, now)
  <2>1. PICK w \in history.fair : z = [w EXCEPT !.after = w.after + 1]
    BY DEF OneAfter
  <2>2. w \in [id : Nat, at : Nat, after : Nat] /\ w.id \in Nat /\ w.after \in Nat
    BY FairTyped
  <2>3. z.id = w.id /\ z.at = w.at /\ z.after = w.after + 1
    BY <2>1, <2>2
  <2>4. /\ w.id # None /\ w.id <= history.given /\ now - w.at <= NonceTtl
        /\ w.after >= MaxNonces \/ Held(w, nonces, w.after)
    BY DEF FairInv
  <2>5. w.id # id
    BY <1>1, <2>2, <2>4
  <2>6. w.after + 1 >= MaxNonces \/ Held(w, Append(left, y), w.after + 1)
    <3>1. CASE w.after >= MaxNonces
      BY <1>1, <2>2, <3>1
    <3>2. CASE Held(w, nonces, w.after)
      <4>1. Held(w, SweptNonces, w.after) /\ SweptNonces \in Seq(Nonce) /\ Len(SweptNonces) <= MaxNonces
        BY <2>2, <2>4, <3>2, SweptHolds
      <4>2. w.after + 1 >= MaxNonces \/ Held(w, room, w.after)
        BY <1>1, <2>2, <4>1, HeldRoom
      <4>3. ASSUME Held(w, room, w.after) PROVE Held(w, left, w.after)
        BY <1>2, <2>2, <2>5, <4>3, NotNamedHolds
      <4>4. ASSUME Held(w, left, w.after) PROVE Held(w, Append(left, y), w.after + 1)
        BY <1>2, <2>2, <4>4, HeldAppend
      <4> QED
        BY <4>2, <4>3, <4>4
    <3> QED
      BY <2>4, <3>1, <3>2
  <2>7. Held(w, Append(left, y), w.after + 1) => Held(z, Append(left, y), z.after)
    BY <2>3 DEF Held
  <2> HIDE DEF left, y
  <2>8. z.after >= MaxNonces \/ Held(z, nonces', z.after)
    BY <1>3, <2>3, <2>6, <2>7
  <2>9. z.id # None /\ z.id <= history.given + 1 /\ now - z.at <= NonceTtl
    BY <1>1, <2>2, <2>3, <2>4
  <2> QED
    BY <2>8, <2>9 DEF Kept
<1>5. ASSUME id # None PROVE Kept(new, nonces', history.given + 1, now)
  <2>1. new.id = id /\ new.at = now /\ new.after = 0 /\ y = [id |-> new.id, at |-> new.at]
    OBVIOUS
  <2> HIDE DEF new, left, y
  <2>2. Held(new, Append(left, y), 0)
    BY <1>2, <2>1, HeldAppend
  <2>3. now - now <= NonceTtl /\ id <= history.given + 1
    BY <1>1 DEF None
  <2>4. Held(new, nonces', new.after)
    BY <1>3, <2>1, <2>2
  <2> QED
    BY <1>5, <2>1, <2>3, <2>4 DEF Kept
<1> HIDE DEF left, y, new
<1>6. \A x \in history'.fair : Kept(x, nonces', history.given + 1, now)
  BY <1>3, <1>4, <1>5
<1>7. \A after \in history'.unjust : after >= MaxNonces
  BY <1>3, FairMeans
<1> QED
  BY <1>3, <1>6, <1>7 DEF FairInv, Kept

(* The challenges that go on are kept, if the nonces that go are others'.  *)
LEMMA FairSteps ==
    ASSUME AuthTyped, NonceInv, FairInv, NEW gone,
           \/ nonces' \in {nonces, SweptNonces}
           \/ nonces' = SpendNonce(gone) /\ \A x \in history'.fair : x.id # gone,
           history'.given = history.given, now' \in {now, now + 1},
           history'.fair \subseteq history.fair,
           \A x \in history'.fair : now' - x.at <= NonceTtl,
           \A after \in history'.unjust : after >= MaxNonces
    PROVE  FairInv'
<1> SUFFICES ASSUME NEW x \in history'.fair
             PROVE  x.after >= MaxNonces \/ Held(x, nonces', x.after)
  <2>1. \A x \in history'.fair : x.id # None /\ x.id <= history'.given /\ now' - x.at <= NonceTtl
    BY DEF FairInv
  <2> QED
    BY <2>1 DEF FairInv
<1>1. /\ x \in history.fair /\ x.after \in Nat /\ now - x.at <= NonceTtl
      /\ x.after >= MaxNonces \/ Held(x, nonces, x.after)
  BY FairTyped DEF FairInv
<1>2. CASE nonces' = nonces
  BY <1>1, <1>2
<1>3. CASE nonces' = SweptNonces
  BY <1>1, <1>3, SweptHolds
<1>4. CASE nonces' = SpendNonce(gone) /\ x.id # gone
  BY <1>1, <1>4, SpendHolds
<1> QED
  BY <1>2, <1>3, <1>4

LEMMA FairLogin ==
    ASSUME AuthTyped, NonceInv, FairInv, NEW a \in Addresses, Login(a) PROVE FairInv'
<1>0. /\ \A x \in history.fair : now - x.at <= NonceTtl
      /\ \A after \in history.unjust : after >= MaxNonces
  BY DEF FairInv
<1>1. CASE LoginBarred(a)
  BY <1>0, <1>1, FairSteps DEF LoginBarred
<1>2. ASSUME NEW nonce \in 0 .. history.given, LoginBadNonce(a, nonce) PROVE FairInv'
  <2>1. /\ nonce \notin Ids(SweptNonces) /\ nonces' = SweptNonces
        /\ history'.unjust = history.unjust \cup
              {x.after : x \in {y \in history.fair : y.id = nonce}}
        /\ UNCHANGED <<history.given, history.fair>>
        /\ UNCHANGED <<now, sessions>>
    BY <1>2, BadNonceDoes
  <2>2. ASSUME NEW x \in history.fair, x.id = nonce PROVE x.after >= MaxNonces
    <3>1. ~ Held(x, SweptNonces, x.after)
      <4> SUFFICES ASSUME NEW k \in DOMAIN SweptNonces,
                          SweptNonces[k] = [id |-> x.id, at |-> x.at]
                   PROVE  FALSE
        BY DEF Held
      <4>1. SweptNonces[k].id = nonce
        BY <2>2
      <4> QED
        BY <2>1, <4>1 DEF Ids
    <3>2. x.after \in Nat
      BY FairTyped
    <3> QED
      BY <1>0, <3>1, <3>2, SweptHolds DEF FairInv
  <2>3. \A after \in history'.unjust : after >= MaxNonces
    BY <1>0, <2>1, <2>2
  <2> QED
    BY <1>0, <2>1, <2>3, FairSteps
<1>3. ASSUME NEW nonce \in 0 .. history.given, LoginBadProof(a, nonce) PROVE FairInv'
  <2>1. /\ nonces' = SpendNonce(nonce) /\ history'.fair = Without(nonce)
        /\ UNCHANGED <<history.given, history.unjust>> /\ now' = now
    BY <1>3, BadProofDoes
  <2>2. history'.fair \subseteq history.fair /\ \A x \in history'.fair : x.id # nonce
    BY <2>1 DEF Without
  <2> QED
    BY <1>0, <2>1, <2>2, FairSteps
<1>4. ASSUME NEW nonce \in 0 .. history.given, LoginWorks(a, nonce) PROVE FairInv'
  <2>1. PICK token \in {None, Len(history.opened) + 1} : Works(a, nonce, token)
    BY <1>4, WorksDoes, Zenon
  <2>2. /\ nonces' = SpendNonce(nonce) /\ history'.fair = Without(nonce)
        /\ UNCHANGED <<history.given, history.unjust>> /\ now' = now
    BY <2>1 DEF Works
  <2>3. history'.fair \subseteq history.fair /\ \A x \in history'.fair : x.id # nonce
    BY <2>2 DEF Without
  <2> QED
    BY <1>0, <2>2, <2>3, FairSteps
<1> QED
  BY <1>1, <1>2, <1>3, <1>4 DEF Login

LEMMA FairStep == AuthTyped /\ NonceInv /\ FairInv /\ [Next]_vars => FairInv'
<1> SUFFICES ASSUME AuthTyped, NonceInv, FairInv, [Next]_vars PROVE FairInv'
  OBVIOUS
<1>0. /\ \A x \in history.fair : now - x.at <= NonceTtl
      /\ \A after \in history.unjust : after >= MaxNonces
  BY DEF FairInv
<1>1. CASE UNCHANGED authVars
  BY <1>1 DEF authVars, FairInv, Held
<1>2. CASE Challenge
  BY <1>2, ChallengeGives, GivenFair
<1>3. ASSUME NEW token \in 1 .. Len(history.opened), Use(token) \/ Logout(token)
      PROVE  FairInv'
  <2>1. UNCHANGED <<history.given, history.fair, history.unjust, now, nonces>>
    BY <1>3, UseDoes, LogoutDoes
  <2> QED
    BY <2>1 DEF FairInv, Held
<1>4. CASE Tick
  <2>1. /\ now' = now + 1 /\ nonces' = nonces
        /\ history'.fair = {x \in history.fair : now + 1 - x.at <= NonceTtl}
        /\ UNCHANGED <<history.given, history.unjust>>
    BY <1>4, TickDoes
  <2>2. /\ history'.fair \subseteq history.fair
        /\ \A x \in history'.fair : now' - x.at <= NonceTtl
    <3>1. \A x \in history'.fair : x \in history.fair /\ now + 1 - x.at <= NonceTtl
      BY <2>1
    <3>2. now \in Nat /\ \A x \in history'.fair : x.at \in Nat
      BY <3>1, FairTyped, HistoryTypes
    <3> QED
      BY <2>1, <3>1, <3>2
  <2>3. \A x \in history'.fair :
           /\ x.id # None /\ x.id <= history.given
           /\ x.after >= MaxNonces \/ Held(x, nonces, x.after)
    BY <2>2 DEF FairInv
  <2> QED
    BY <1>0, <2>1, <2>2, <2>3 DEF FairInv, Held
<1> QED
  BY <1>1, <1>2, <1>3, <1>4, ConsoleSteps, FairLogin

LEMMA NonceInit == Init => NonceInv /\ FairInv /\ SpentInv
<1> SUFFICES ASSUME AuthInit PROVE NonceInv /\ FairInv /\ SpentInv
  BY DEF Init
<1>1. /\ nonces = <<>> /\ history.fair = {} /\ history.unjust = {} /\ history.opened = <<>>
  BY DEF AuthInit
<1> QED
  BY <1>1, AuthConstants DEF NonceInv, Aged, FairInv, SpentInv, OneSessionPerNonce

LEMMA NonceAlways == Spec => []NonceInv
BY NonceInit, NonceStep, AuthTypedAlways, PTL DEF Spec

(* Who answers a challenge in time, and first, is refused for the nonce    *)
(* only if as many others were given out since as the list holds (nonces   *)
(* of Auth in auth.rs).                                                    *)
THEOREM ChallengeHoldsAlways == Spec => []ChallengeHolds
<1>1. FairInv => ChallengeHolds
  BY DEF FairInv, ChallengeHolds
<1> QED
  BY <1>1, NonceInit, FairStep, NonceAlways, AuthTypedAlways, PTL DEF Spec

LEMMA SpentStays ==
    ASSUME SpentInv, history'.opened = history.opened, history.given \in Nat,
           history'.given \in {history.given, history.given + 1},
           \A id \in Ids(nonces') : id \in Ids(nonces) \/ id = None \/ id = history.given + 1,
           \A k \in DOMAIN history.opened : history.opened[k].nonce \in Nat
    PROVE  SpentInv'
<1>1. OneSessionPerNonce'
  BY DEF SpentInv, OneSessionPerNonce
<1>2. ASSUME NEW i \in DOMAIN history.opened PROVE Spent(history.opened[i].nonce)'
  <2> DEFINE n == history.opened[i].nonce
  <2>1. n = None \/ (n <= history.given /\ n \notin Ids(nonces))
    BY DEF SpentInv, Spent
  <2>2. n \in Nat
    OBVIOUS
  <2> HIDE DEF n
  <2>3. n = None \/ (n <= history'.given /\ n \notin Ids(nonces'))
    BY <2>1, <2>2
  <2> QED
    BY <2>3 DEF Spent, n
<1> QED
  BY <1>1, <1>2 DEF SpentInv

LEMMA ElementsOf ==
    ASSUME NEW T, NEW list \in Seq(T)
    PROVE  /\ DOMAIN list = 1 .. Len(list) /\ Len(list) \in Nat
           /\ \A k \in DOMAIN list : list[k] \in T
OBVIOUS

LEMMA OpenedTyped ==
    ASSUME AuthTyped
    PROVE  /\ DOMAIN history.opened = 1 .. Len(history.opened) /\ Len(history.opened) \in Nat
           /\ \A k \in DOMAIN history.opened : /\ history.opened[k].nonce \in Nat
                                               /\ history.opened[k].id \in Nat
<1>1. history.opened \in Seq([id : Nat, nonce : Nat])
  BY HistoryTypes
<1>2. /\ DOMAIN history.opened = 1 .. Len(history.opened) /\ Len(history.opened) \in Nat
      /\ \A k \in DOMAIN history.opened : history.opened[k] \in [id : Nat, nonce : Nat]
  BY <1>1, ElementsOf, Zenon
<1> QED
  BY <1>2

(* The list that a session's token and nonce are added to.                 *)
LEMMA OpenedAppend ==
    ASSUME AuthTyped, NEW x
    PROVE  /\ DOMAIN Append(history.opened, x) = 1 .. Len(history.opened) + 1
           /\ \A k \in DOMAIN history.opened : Append(history.opened, x)[k] = history.opened[k]
           /\ Append(history.opened, x)[Len(history.opened) + 1] = x
           /\ Len(Append(history.opened, x)) = Len(history.opened) + 1
<1>1. history.opened \in Seq([id : Nat, nonce : Nat])
  BY HistoryTypes
<1> QED
  BY <1>1

LEMMA SpentWorks ==
    ASSUME AuthTyped, NonceInv, SpentInv, NEW a \in Addresses,
           NEW nonce \in 0 .. history.given, NEW token, Works(a, nonce, token)
    PROVE  SpentInv'
<1> DEFINE x == [id |-> token, nonce |-> nonce]
<1>1. /\ nonce \in Ids(SweptNonces) /\ nonces' = SpendNonce(nonce)
      /\ history'.opened = Append(history.opened, x) /\ history'.given = history.given
  BY DEF Works
<1>2. nonce \in Ids(nonces) /\ Ids(nonces') \subseteq Ids(nonces) \ {nonce}
  BY <1>1, SweptHolds, SpendHolds
<1>3. nonce <= history.given
  BY HistoryTypes
<1>4. x.nonce = nonce
  OBVIOUS
<1> HIDE DEF x
<1> DEFINE n == Len(history.opened)
<1>5. /\ DOMAIN history'.opened = 1 .. n + 1 /\ n \in Nat /\ DOMAIN history.opened = 1 .. n
      /\ \A k \in 1 .. n : history'.opened[k].nonce = history.opened[k].nonce
      /\ history'.opened[n + 1].nonce = nonce
  BY <1>1, <1>4, OpenedAppend, OpenedTyped
<1>6. \A k \in 1 .. n : Spent(history.opened[k].nonce)
  BY <1>5 DEF SpentInv
<1> HIDE DEF n
<1>7. ASSUME NEW k \in 1 .. n + 1
      PROVE  LET m == history'.opened[k].nonce
             IN  m = None \/ (m <= history'.given /\ m \notin Ids(nonces'))
  <2>1. CASE k = n + 1
    BY <1>1, <1>2, <1>3, <1>5, <2>1
  <2>2. CASE k \in 1 .. n
    BY <1>1, <1>2, <1>5, <1>6, <2>2 DEF Spent
  <2> QED
    BY <1>5, <2>1, <2>2
<1>8. \A i, j \in 1 .. n : history.opened[i].nonce = history.opened[j].nonce /\ i # j
                               => history.opened[i].nonce = None
  BY <1>5 DEF SpentInv, OneSessionPerNonce
<1>9. \A k \in 1 .. n : history.opened[k].nonce = nonce => nonce = None
  BY <1>2, <1>6 DEF Spent
<1>10. ASSUME NEW i \in 1 .. n + 1, NEW j \in 1 .. n + 1, i # j,
              history'.opened[i].nonce = history'.opened[j].nonce
       PROVE  history'.opened[i].nonce = None
  <2>1. CASE i = n + 1 /\ j \in 1 .. n
    BY <1>5, <1>9, <1>10, <2>1
  <2>2. CASE i \in 1 .. n /\ j = n + 1
    BY <1>5, <1>9, <1>10, <2>2
  <2>3. CASE i \in 1 .. n /\ j \in 1 .. n
    BY <1>5, <1>8, <1>10, <2>3
  <2> QED
    BY <1>5, <1>10, <2>1, <2>2, <2>3
<1>11. OneSessionPerNonce'
  BY <1>5, <1>10 DEF OneSessionPerNonce
<1>12. \A i \in DOMAIN history'.opened : Spent(history.opened[i].nonce)'
  BY <1>5, <1>7 DEF Spent
<1> QED
  BY <1>11, <1>12 DEF SpentInv

LEMMA SpentStep == AuthTyped /\ NonceInv /\ SpentInv /\ [Next]_vars => SpentInv'
<1> SUFFICES ASSUME AuthTyped, NonceInv, SpentInv, [Next]_vars PROVE SpentInv'
  OBVIOUS
<1>0. /\ history.given \in Nat
      /\ \A k \in DOMAIN history.opened : history.opened[k].nonce \in Nat
  BY OpenedTyped, HistoryTypes
<1>1. CASE UNCHANGED authVars
  BY <1>0, <1>1, SpentStays DEF authVars
<1>2. CASE Challenge
  <2>1. PICK id \in {None, history.given + 1} : Given(id)
    BY <1>2, ChallengeGives
  <2>2. /\ Ids(nonces') \subseteq Ids(nonces) \cup {id}
        /\ history'.given = history.given + 1 /\ history'.opened = history.opened
    BY <2>1, GivenNonces DEF Given
  <2> QED
    BY <1>0, <2>2, SpentStays
<1>3. ASSUME NEW token \in 1 .. Len(history.opened), Use(token) \/ Logout(token)
      PROVE  SpentInv'
  <2>1. UNCHANGED <<history.given, history.opened, nonces>>
    BY <1>3, UseDoes, LogoutDoes
  <2> QED
    BY <1>0, <2>1, SpentStays
<1>4. CASE Tick
  <2>1. UNCHANGED <<history.given, history.opened, nonces>>
    BY <1>4, TickDoes
  <2> QED
    BY <1>0, <2>1, SpentStays
<1>5. ASSUME NEW a \in Addresses, Login(a) PROVE SpentInv'
  <2>0. \A nonce : Ids(SpendNonce(nonce)) \subseteq Ids(nonces)
    BY SpendHolds
  <2>1. CASE LoginBarred(a)
    <3>1. nonces' = SweptNonces /\ history' = history
      BY <2>1 DEF LoginBarred
    <3> QED
      BY <1>0, <3>1, SweptHolds, SpentStays
  <2>2. ASSUME NEW nonce \in 0 .. history.given, LoginBadNonce(a, nonce) PROVE SpentInv'
    <3>1. nonces' = SweptNonces /\ UNCHANGED <<history.given, history.opened>>
      BY <2>2, BadNonceDoes
    <3> QED
      BY <1>0, <3>1, SweptHolds, SpentStays
  <2>3. ASSUME NEW nonce \in 0 .. history.given, LoginBadProof(a, nonce) PROVE SpentInv'
    <3>1. nonces' = SpendNonce(nonce) /\ UNCHANGED <<history.given, history.opened>>
      BY <2>3, BadProofDoes
    <3> QED
      BY <1>0, <2>0, <3>1, SpentStays
  <2>4. ASSUME NEW nonce \in 0 .. history.given, LoginWorks(a, nonce) PROVE SpentInv'
    <3>1. PICK token \in {None, Len(history.opened) + 1} : Works(a, nonce, token)
      BY <2>4, WorksDoes, Zenon
    <3> QED
      BY <3>1, SpentWorks
  <2> QED
    BY <1>5, <2>1, <2>2, <2>3, <2>4 DEF Login
<1> QED
  BY <1>1, <1>2, <1>3, <1>4, <1>5, ConsoleSteps

(* A nonce opens one session at most, however often and from wherever it   *)
(* is sent again (login in api.rs, and the nonces of auth.rs).             *)
THEOREM OneSessionPerNonceHolds == Spec => []OneSessionPerNonce
<1>1. SpentInv => OneSessionPerNonce
  BY DEF SpentInv
<1> QED
  BY <1>1, NonceInit, SpentStep, NonceAlways, AuthTypedAlways, PTL DEF Spec

-----------------------------------------------------------------------------
(* Sessions.  In the list, k is there, and those behind it are in names:   *)
(* the tokens used or given out since k was.                               *)
Followed(k, list, names) ==
    \E i \in DOMAIN list :
        /\ list[i] = k
        /\ \A m \in DOMAIN list : m > i => list[m] \in names

Distinct(list) == \A i, j \in DOMAIN list : list[i] = list[j] => i = j

Names(k) == {history.opened[j].id : j \in history.since[k]}

SessionInv ==
    /\ Len(sessions) <= MaxSessions
    /\ Distinct(sessions)
    /\ \A t \in ToSet(sessions) :
          t # None => t \in DOMAIN history.opened /\ history.opened[t].id = t
    /\ \A k \in DOMAIN history.opened :
          /\ history.opened[k].id \in {None, k}
          /\ history.since[k] \subseteq DOMAIN history.opened
          /\ \/ history.opened[k].id = None
             \/ k \in history.over
             \/ Cardinality(history.since[k]) >= MaxSessions
             \/ Followed(k, sessions, Names(k))

(* A set has at least as many elements as places that choose differently.  *)
LEMMA NoFewer ==
    ASSUME NEW A, NEW B, IsFiniteSet(A), IsFiniteSet(B), NEW f \in [A -> B],
           \A x, y \in A : f[x] = f[y] => x = y
    PROVE  Cardinality(A) <= Cardinality(B)
<1> SUFFICES ASSUME ~ (Cardinality(A) <= Cardinality(B)) PROVE FALSE
  OBVIOUS
<1>1. Cardinality(A) \in Nat /\ Cardinality(B) \in Nat
  BY FS_CardinalityType
<1>2. Cardinality(B) < Cardinality(A)
  BY <1>1
<1>3. \E x, y \in A : x # y /\ f[x] = f[y]
  BY <1>2, FS_PigeonHole
<1> QED
  BY <1>3

LEMMA UpTo ==
    ASSUME NEW n \in Nat PROVE IsFiniteSet(1 .. n) /\ Cardinality(1 .. n) = n
BY FS_Interval

(* If one is not retained there is one less.                               *)
LEMMA RetainLess ==
    ASSUME NEW T, NEW list \in Seq(T), NEW S, NEW p \in DOMAIN list, list[p] \notin S
    PROVE  Len(Retain(list, S)) <= Len(list) - 1
<1> DEFINE r == Retain(list, S)
           n == Len(list)
<1>1. r \in Seq(T) /\ Len(r) \in Nat /\ n \in Nat /\ p \in 1 .. n
  BY RetainPicks, ElementsOf
<1>2. PICK g : Picks(g, r, list, S, n)
  BY RetainPicks
<1> HIDE DEF r, n
<1>3. \A i \in 1 .. Len(r) : g[i] \in (1 .. n) \ {p}
  BY <1>2 DEF Picks
<1>4. \A i, j \in 1 .. Len(r) : g[i] = g[j] => i = j
  <2>1. \A i, j \in 1 .. Len(r) : i < j => g[i] < g[j]
    BY <1>2 DEF Picks
  <2>2. \A i \in 1 .. Len(r) : g[i] \in Nat
    BY <1>3
  <2> QED
    BY <1>1, <2>1, <2>2
<1>5. g \in [1 .. Len(r) -> (1 .. n) \ {p}]
  <2>1. g \in [1 .. Len(r) -> 1 .. n]
    BY <1>2 DEF Picks
  <2> QED
    BY <1>3, <2>1
<1>6. IsFiniteSet(1 .. n) /\ Cardinality(1 .. n) = n
  BY <1>1, UpTo
<1>7. IsFiniteSet(1 .. Len(r)) /\ Cardinality(1 .. Len(r)) = Len(r)
  BY <1>1, UpTo
<1>8. IsFiniteSet((1 .. n) \ {p}) /\ Cardinality((1 .. n) \ {p}) = n - 1
  BY <1>1, <1>6, FS_RemoveElement
<1>9. Cardinality(1 .. Len(r)) <= Cardinality((1 .. n) \ {p})
  BY <1>4, <1>5, <1>7, <1>8, NoFewer
<1> QED
  BY <1>7, <1>8, <1>9 DEF r, n

LEMMA DistinctRetain ==
    ASSUME NEW T, NEW list \in Seq(T), NEW S, Distinct(list)
    PROVE  /\ Distinct(Retain(list, S))
           /\ ToSet(Retain(list, S)) \subseteq ToSet(list) \cap S
<1> DEFINE r == Retain(list, S)
           n == Len(list)
<1>1. /\ r \in Seq(T) /\ Len(r) \in Nat /\ n \in Nat
      /\ DOMAIN r = 1 .. Len(r) /\ DOMAIN list = 1 .. n
  BY RetainPicks, ElementsOf
<1>2. PICK g : Picks(g, r, list, S, n)
  BY RetainPicks
<1> HIDE DEF r, n
<1>3. \A i \in DOMAIN r : g[i] \in DOMAIN list /\ r[i] = list[g[i]] /\ r[i] \in S
  BY <1>1, <1>2 DEF Picks
<1>4. \A i, j \in DOMAIN r : g[i] = g[j] => i = j
  <2>1. \A i, j \in 1 .. Len(r) : i < j => g[i] < g[j]
    BY <1>2 DEF Picks
  <2>2. \A i \in 1 .. Len(r) : g[i] \in Nat
    BY <1>1, <1>3
  <2> QED
    BY <1>1, <2>1, <2>2
<1>5. Distinct(r)
  BY <1>3, <1>4 DEF Distinct
<1>6. ToSet(r) \subseteq ToSet(list) \cap S
  BY <1>3 DEF ToSet
<1> QED
  BY <1>5, <1>6 DEF r

LEMMA FollowedRetain ==
    ASSUME NEW T, NEW list \in Seq(T), NEW S, NEW k \in S, NEW names, Followed(k, list, names)
    PROVE  Followed(k, Retain(list, S), names)
<1> DEFINE r == Retain(list, S)
           n == Len(list)
<1>1. /\ r \in Seq(T) /\ Len(r) \in Nat /\ n \in Nat
      /\ DOMAIN r = 1 .. Len(r) /\ DOMAIN list = 1 .. n
  BY RetainPicks, ElementsOf
<1>2. PICK g : Picks(g, r, list, S, n)
  BY RetainPicks
<1>3. PICK p \in DOMAIN list : list[p] = k /\ \A m \in DOMAIN list : m > p => list[m] \in names
  BY DEF Followed
<1> HIDE DEF r, n
<1>4. PICK i \in 1 .. Len(r) : g[i] = p
  BY <1>1, <1>2, <1>3 DEF Picks
<1>5. \A j \in 1 .. Len(r) : g[j] \in DOMAIN list /\ r[j] = list[g[j]]
  BY <1>1, <1>2 DEF Picks
<1>6. \A j \in 1 .. Len(r) : i < j => p < g[j]
  BY <1>2, <1>4 DEF Picks
<1>7. ASSUME NEW j \in DOMAIN r, j > i PROVE r[j] \in names
  <2>1. j \in 1 .. Len(r) /\ i < j
    BY <1>1, <1>7
  <2>2. g[j] \in DOMAIN list /\ g[j] > p /\ r[j] = list[g[j]]
    BY <1>5, <1>6, <2>1
  <2> QED
    BY <1>3, <2>2
<1>8. i \in DOMAIN r /\ r[i] = k
  BY <1>1, <1>3, <1>4, <1>5
<1> QED
  BY <1>7, <1>8 DEF Followed, r

LEMMA FollowedMore ==
    ASSUME NEW k, NEW list, NEW names, NEW more, names \subseteq more, Followed(k, list, names)
    PROVE  Followed(k, list, more)
BY DEF Followed

LEMMA AppendPlaces ==
    ASSUME NEW T, NEW list \in Seq(T), NEW t
    PROVE  /\ DOMAIN Append(list, t) = 1 .. Len(list) + 1
           /\ DOMAIN list = 1 .. Len(list) /\ Len(list) \in Nat
           /\ \A k \in 1 .. Len(list) : Append(list, t)[k] = list[k]
           /\ Append(list, t)[Len(list) + 1] = t
           /\ Len(Append(list, t)) = Len(list) + 1
OBVIOUS

LEMMA FollowedAppend ==
    ASSUME NEW T, NEW list \in Seq(T), NEW k, NEW names, NEW t
    PROVE  /\ t \in names /\ Followed(k, list, names) => Followed(k, Append(list, t), names)
           /\ k = t => Followed(k, Append(list, t), names)
<1> DEFINE l == Append(list, t)
           n == Len(list)
<1>1. /\ DOMAIN l = 1 .. n + 1 /\ DOMAIN list = 1 .. n /\ n \in Nat
      /\ \A m \in 1 .. n : l[m] = list[m]
      /\ l[n + 1] = t
  BY AppendPlaces
<1> HIDE DEF l, n
<1>2. ASSUME t \in names, Followed(k, list, names) PROVE Followed(k, l, names)
  <2>1. PICK p \in DOMAIN list : list[p] = k /\ \A m \in DOMAIN list : m > p => list[m] \in names
    BY <1>2 DEF Followed
  <2>2. p \in DOMAIN l /\ l[p] = k
    BY <1>1, <2>1
  <2>3. ASSUME NEW m \in DOMAIN l, m > p PROVE l[m] \in names
    <3>1. CASE m = n + 1
      BY <1>1, <1>2, <3>1
    <3>2. CASE m \in 1 .. n
      BY <1>1, <2>1, <2>3, <3>2
    <3> QED
      BY <1>1, <3>1, <3>2
  <2> QED
    BY <2>2, <2>3 DEF Followed
<1>3. ASSUME k = t PROVE Followed(k, l, names)
  <2>1. n + 1 \in DOMAIN l /\ l[n + 1] = k /\ \A m \in DOMAIN l : ~ (m > n + 1)
    BY <1>1, <1>3
  <2> QED
    BY <2>1 DEF Followed
<1> QED
  BY <1>2, <1>3 DEF l

LEMMA DistinctAppend ==
    ASSUME NEW T, NEW list \in Seq(T), NEW t, t \notin ToSet(list), Distinct(list)
    PROVE  /\ Distinct(Append(list, t))
           /\ ToSet(Append(list, t)) \subseteq ToSet(list) \cup {t}
<1> DEFINE l == Append(list, t)
           n == Len(list)
<1>1. /\ DOMAIN l = 1 .. n + 1 /\ DOMAIN list = 1 .. n /\ n \in Nat
      /\ \A m \in 1 .. n : l[m] = list[m]
      /\ l[n + 1] = t
  BY AppendPlaces
<1> HIDE DEF l, n
<1>2. \A m \in 1 .. n : list[m] # t
  BY <1>1 DEF ToSet
<1>3. ASSUME NEW i \in DOMAIN l, NEW j \in DOMAIN l, l[i] = l[j] PROVE i = j
  <2>1. CASE i \in 1 .. n /\ j \in 1 .. n
    BY <1>1, <1>3, <2>1 DEF Distinct
  <2>2. CASE i = n + 1 \/ j = n + 1
    <3>1. i \in 1 .. n => l[i] # t
      BY <1>1, <1>2
    <3>2. j \in 1 .. n => l[j] # t
      BY <1>1, <1>2
    <3> QED
      BY <1>1, <1>3, <2>2, <3>1, <3>2
  <2> QED
    BY <1>1, <2>1, <2>2
<1>4. ASSUME NEW i \in DOMAIN l PROVE l[i] \in ToSet(list) \cup {t}
  BY <1>1 DEF ToSet
<1> QED
  BY <1>3, <1>4 DEF Distinct, ToSet, l

LEMMA DistinctRoom ==
    ASSUME NEW T, NEW list \in Seq(T), NEW max \in Nat \ {0}, Distinct(list)
    PROVE  /\ Distinct(Room(list, max))
           /\ ToSet(Room(list, max)) \subseteq ToSet(list)
<1>1. CASE Len(list) >= max
  <2>1. /\ Room(list, max) = Tail(list) /\ list # <<>> /\ Len(list) \in Nat
        /\ DOMAIN Tail(list) = 1 .. Len(list) - 1 /\ DOMAIN list = 1 .. Len(list)
        /\ \A k \in 1 .. Len(list) - 1 : Tail(list)[k] = list[k + 1]
    BY <1>1 DEF Room
  <2>2. \A k \in 1 .. Len(list) - 1 : k + 1 \in DOMAIN list
    BY <2>1
  <2>3. Distinct(Tail(list))
    <3> SUFFICES ASSUME NEW i \in DOMAIN Tail(list), NEW j \in DOMAIN Tail(list),
                        Tail(list)[i] = Tail(list)[j]
                 PROVE  i = j
      BY DEF Distinct
    <3>1. i + 1 = j + 1
      BY <2>1, <2>2 DEF Distinct
    <3> QED
      BY <2>1, <3>1
  <2>4. ToSet(Tail(list)) \subseteq ToSet(list)
    BY <2>1, <2>2 DEF ToSet
  <2> QED
    BY <2>1, <2>3, <2>4
<1>2. CASE ~ (Len(list) >= max)
  BY <1>2 DEF Room
<1> QED
  BY <1>1, <1>2

(* When the eldest makes room, the others have all come after it.          *)
LEMMA FollowedRoom ==
    ASSUME NEW T, NEW list \in Seq(T), NEW max \in Nat \ {0}, Len(list) <= max,
           NEW k, NEW names, Followed(k, list, names)
    PROVE  \/ Followed(k, Room(list, max), names)
           \/ Len(list) = max /\ \A m \in 2 .. max : list[m] \in names
<1>1. CASE Len(list) >= max
  <2>1. /\ Room(list, max) = Tail(list) /\ list # <<>> /\ Len(list) = max
        /\ DOMAIN Tail(list) = 1 .. Len(list) - 1 /\ DOMAIN list = 1 .. Len(list)
        /\ \A m \in 1 .. Len(list) - 1 : Tail(list)[m] = list[m + 1]
    BY <1>1 DEF Room
  <2>2. PICK i \in DOMAIN list : list[i] = k /\ \A m \in DOMAIN list : m > i => list[m] \in names
    BY DEF Followed
  <2>3. CASE i = 1
    BY <2>1, <2>2, <2>3
  <2>4. CASE i # 1
    <3>1. i - 1 \in DOMAIN Tail(list) /\ (i - 1) + 1 = i
      BY <2>1, <2>2, <2>4
    <3>2. Tail(list)[i - 1] = k
      BY <2>1, <2>2, <3>1
    <3>3. ASSUME NEW m \in DOMAIN Tail(list), m > i - 1 PROVE Tail(list)[m] \in names
      <4>1. m + 1 \in DOMAIN list /\ m + 1 > i
        BY <2>1, <3>1, <3>3
      <4> QED
        BY <2>1, <2>2, <4>1
    <3> QED
      BY <2>1, <3>1, <3>2, <3>3 DEF Followed
  <2> QED
    BY <2>3, <2>4
<1>2. CASE ~ (Len(list) >= max)
  BY <1>2 DEF Room
<1> QED
  BY <1>1, <1>2

LEMMA OthersEnough ==
    ASSUME NEW T, NEW list \in Seq(T), NEW max \in Nat \ {0}, Len(list) = max, Distinct(list),
           NEW D, IsFiniteSet(D), NEW id,
           \A m \in 2 .. max : \E j \in D : id[j] = list[m]
    PROVE  Cardinality(D) >= max - 1
<1> DEFINE f == [m \in 2 .. max |-> CHOOSE j \in D : id[j] = list[m]]
<1>1. \A m \in 2 .. max : f[m] \in D /\ id[f[m]] = list[m]
  OBVIOUS
<1>2. f \in [2 .. max -> D]
  BY <1>1
<1> HIDE DEF f
<1>3. \A m, n \in 2 .. max : f[m] = f[n] => m = n
  <2>1. 2 .. max \subseteq DOMAIN list
    OBVIOUS
  <2> QED
    BY <1>1, <2>1 DEF Distinct
<1>4. IsFiniteSet(2 .. max) /\ Cardinality(2 .. max) = max - 1
  BY FS_Interval
<1>5. Cardinality(2 .. max) <= Cardinality(D)
  BY <1>2, <1>3, <1>4, NoFewer
<1>6. Cardinality(D) \in Nat
  BY FS_CardinalityType
<1> QED
  BY <1>4, <1>5, <1>6

(* What was noted since.                                                   *)
LEMMA SinceGrows ==
    ASSUME NEW n \in Nat, NEW D \in SUBSET (1 .. n), NEW t
    PROVE  /\ IsFiniteSet(D) /\ IsFiniteSet(D \cup {t})
           /\ Cardinality(D) \in Nat /\ Cardinality(D \cup {t}) \in Nat
           /\ Cardinality(D \cup {t}) >= Cardinality(D)
           /\ t \notin D => Cardinality(D \cup {t}) = Cardinality(D) + 1
<1>1. IsFiniteSet(D)
  BY UpTo, FS_Subset
<1>2. Cardinality(D) \in Nat
  BY <1>1, FS_CardinalityType
<1>3. /\ IsFiniteSet(D \cup {t})
      /\ Cardinality(D \cup {t}) = IF t \in D THEN Cardinality(D) ELSE Cardinality(D) + 1
  BY <1>1, FS_AddElement
<1> QED
  BY <1>1, <1>2, <1>3

(* All but one token.                                                      *)
LEMMA AllButHolds ==
    ASSUME NEW list \in Seq(Nat), NEW token, Distinct(list)
    PROVE  /\ AllBut(list, token) \in Seq(Nat) /\ Len(AllBut(list, token)) <= Len(list)
           /\ token \in ToSet(list) => Len(AllBut(list, token)) <= Len(list) - 1
           /\ Distinct(AllBut(list, token))
           /\ ToSet(AllBut(list, token)) \subseteq ToSet(list) \ {token}
           /\ \A k, names : k # token /\ Followed(k, list, names)
                                => Followed(k, AllBut(list, token), names)
<1> DEFINE S == ToSet(list) \ {token}
<1>1. AllBut(list, token) = Retain(list, S)
  BY DEF AllBut
<1>2. AllBut(list, token) \in Seq(Nat) /\ Len(AllBut(list, token)) <= Len(list)
  BY AllButKeeps
<1>3. ASSUME token \in ToSet(list) PROVE Len(AllBut(list, token)) <= Len(list) - 1
  <2>1. PICK p \in DOMAIN list : list[p] = token
    BY <1>3 DEF ToSet
  <2>2. list[p] \notin S
    BY <2>1
  <2> HIDE DEF S
  <2> QED
    BY <1>1, <2>2, RetainLess
<1>4. ASSUME NEW k, NEW names, k # token, Followed(k, list, names)
      PROVE  Followed(k, AllBut(list, token), names)
  <2>1. k \in S
    BY <1>4 DEF Followed, ToSet
  <2> HIDE DEF S
  <2> QED
    BY <1>1, <1>4, <2>1, FollowedRetain
<1>5. Distinct(AllBut(list, token)) /\ ToSet(AllBut(list, token)) \subseteq S
  <2> HIDE DEF S
  <2>1. Distinct(Retain(list, S)) /\ ToSet(Retain(list, S)) \subseteq ToSet(list) \cap S
    BY DistinctRetain
  <2> QED
    BY <1>1, <2>1
<1> QED
  BY <1>2, <1>3, <1>4, <1>5

(* Token t moves, or comes, to the end of the list.                        *)
LEMMA MovedToEnd ==
    ASSUME NEW list \in Seq(Nat), NEW t \in Nat, Distinct(list)
    PROVE  LET l == Append(AllBut(list, t), t)
           IN  /\ l \in Seq(Nat) /\ Len(l) <= Len(list) + 1
               /\ t \in ToSet(list) => Len(l) <= Len(list)
               /\ Distinct(l) /\ ToSet(l) \subseteq ToSet(list) \cup {t}
               /\ \A names : Followed(t, l, names)
               /\ \A k, names : k # t /\ t \in names /\ Followed(k, list, names)
                                    => Followed(k, l, names)
<1> DEFINE r == AllBut(list, t)
<1>1. /\ r \in Seq(Nat) /\ Len(r) <= Len(list)
      /\ t \in ToSet(list) => Len(r) <= Len(list) - 1
      /\ Distinct(r) /\ ToSet(r) \subseteq ToSet(list) \ {t}
      /\ \A k, names : k # t /\ Followed(k, list, names) => Followed(k, r, names)
  BY AllButHolds
<1> HIDE DEF r
<1> DEFINE l == Append(r, t)
<1>2. l \in Seq(Nat) /\ Len(l) = Len(r) + 1
  BY <1>1
<1>3. Distinct(l) /\ ToSet(l) \subseteq ToSet(list) \cup {t}
  BY <1>1, DistinctAppend
<1>4. \A names : Followed(t, l, names)
  BY <1>1, FollowedAppend
<1>5. \A k, names : k # t /\ t \in names /\ Followed(k, list, names) => Followed(k, l, names)
  BY <1>1, FollowedAppend
<1>6. Len(l) <= Len(list) + 1 /\ (t \in ToSet(list) => Len(l) <= Len(list))
  BY <1>1, <1>2
<1> HIDE DEF l
<1>7. /\ l \in Seq(Nat) /\ Len(l) <= Len(list) + 1
      /\ t \in ToSet(list) => Len(l) <= Len(list)
      /\ Distinct(l) /\ ToSet(l) \subseteq ToSet(list) \cup {t}
      /\ \A names : Followed(t, l, names)
      /\ \A k, names : k # t /\ t \in names /\ Followed(k, list, names)
                           => Followed(k, l, names)
  BY <1>2, <1>3, <1>4, <1>5, <1>6
<1> QED
  BY <1>7 DEF l, r

(* What SessionInv says of token k.                                        *)
Lasts(k) ==
    /\ history.opened[k].id \in {None, k}
    /\ history.since[k] \subseteq DOMAIN history.opened
    /\ \/ history.opened[k].id = None
       \/ k \in history.over
       \/ Cardinality(history.since[k]) >= MaxSessions
       \/ Followed(k, sessions, Names(k))

Listed(t) == t # None => t \in DOMAIN history.opened /\ history.opened[t].id = t

LEMMA SessionMeans ==
    SessionInv <=> /\ Len(sessions) <= MaxSessions
                   /\ Distinct(sessions)
                   /\ \A t \in ToSet(sessions) : Listed(t)
                   /\ \A k \in DOMAIN history.opened : Lasts(k)
BY DEF SessionInv, Lasts, Listed

LEMMA UsedIs ==
    ASSUME AuthTyped, NEW k \in Nat, NEW j \in DOMAIN history.opened
    PROVE  /\ j # k /\ j \notin history.over => Used(k)[j] = history.since[j] \cup {k}
           /\ j = k => Used(k)[j] = {}
           /\ Used(k)[j] \subseteq history.since[j] \cup {k}
           /\ DOMAIN Used(k) = DOMAIN history.opened
<1>1. Used(k)[j] = IF j \in {k} \cup history.over THEN {} ELSE history.since[j] \cup {k}
  BY UsedTyped
<1>2. DOMAIN Used(k) = DOMAIN history.opened
  BY UsedTyped, OpenedTyped DEF Used
<1> QED
  BY <1>1, <1>2

LEMMA TokenSession ==
    ASSUME AuthTyped, SessionInv, NEW token \in DOMAIN history.opened,
           Use(token) \/ Logout(token)
    PROVE  SessionInv'
<1> DEFINE n == Len(history.opened)
           l == Touched(token)
<1>1. /\ DOMAIN history.opened = 1 .. n /\ n \in Nat /\ token \in Nat
      /\ sessions \in Seq(Nat) /\ MaxSessions \in Nat /\ Len(sessions) \in Nat
  BY OpenedTyped, AuthConstants DEF AuthTyped
<1>2. /\ token # None /\ token \in ToSet(sessions) /\ history.opened[token].id = token
  BY UseDoes, LogoutDoes, SessionMeans DEF Valid, Listed
<1>3. /\ l \in Seq(Nat) /\ Len(l) <= MaxSessions
      /\ Distinct(l) /\ ToSet(l) \subseteq ToSet(sessions) \cup {token}
      /\ \A names : Followed(token, l, names)
      /\ \A k, names : k # token /\ token \in names /\ Followed(k, sessions, names)
                           => Followed(k, l, names)
  <2>1. /\ l \in Seq(Nat) /\ Len(l) <= Len(sessions)
        /\ Distinct(l) /\ ToSet(l) \subseteq ToSet(sessions) \cup {token}
        /\ \A names : Followed(token, l, names)
        /\ \A k, names : k # token /\ token \in names /\ Followed(k, sessions, names)
                             => Followed(k, l, names)
    BY <1>1, <1>2, MovedToEnd, SessionMeans DEF Touched
  <2>2. Len(sessions) <= MaxSessions /\ Len(l) \in Nat
    BY <2>1, SessionMeans
  <2> HIDE DEF l
  <2> QED
    BY <1>1, <2>1, <2>2
<1> HIDE DEF n, l
<1>4. /\ history'.opened = history.opened
      /\ \/ sessions' = l /\ history'.since = Used(token) /\ history'.over = history.over
         \/ /\ sessions' = AllBut(l, token) /\ history'.since = [Used(token) EXCEPT ![token] = {}]
            /\ history'.over = history.over \cup {token}
  BY UseDoes, LogoutDoes DEF l
<1>5. /\ Len(sessions') <= MaxSessions /\ Distinct(sessions')
      /\ ToSet(sessions') \subseteq ToSet(sessions) \cup {token}
      /\ \A k, names : k # token /\ Followed(k, l, names) => Followed(k, sessions', names)
  <2>1. CASE sessions' = l
    BY <1>3, <2>1
  <2>2. CASE sessions' = AllBut(l, token)
    <3>1. /\ Len(AllBut(l, token)) <= Len(l) /\ Distinct(AllBut(l, token))
          /\ AllBut(l, token) \in Seq(Nat)
          /\ ToSet(AllBut(l, token)) \subseteq ToSet(l)
          /\ \A k, names : k # token /\ Followed(k, l, names)
                               => Followed(k, AllBut(l, token), names)
      BY <1>3, AllButHolds
    <3>2. Len(AllBut(l, token)) \in Nat /\ Len(l) \in Nat
      BY <1>3, <3>1
    <3> QED
      BY <1>1, <1>3, <2>2, <3>1, <3>2
  <2> QED
    BY <1>4, <2>1, <2>2
<1>6. \A t \in ToSet(sessions') : Listed(t)'
  BY <1>1, <1>2, <1>4, <1>5, SessionMeans DEF Listed
<1>7. ASSUME NEW k \in DOMAIN history.opened PROVE Lasts(k)'
  <2>0. /\ history.opened[k].id \in {None, k}
        /\ history.since[k] \subseteq DOMAIN history.opened
        /\ \/ history.opened[k].id = None
           \/ k \in history.over
           \/ Cardinality(history.since[k]) >= MaxSessions
           \/ Followed(k, sessions, Names(k))
    BY SessionMeans DEF Lasts
  <2>1. CASE k = token
    <3>1. history'.since[k] = {}
      BY <1>1, <1>4, <2>1, UsedIs
    <3>2. Followed(k, sessions', Names(k)') \/ k \in history'.over
      BY <1>3, <1>4, <2>1
    <3> QED
      BY <1>4, <2>0, <3>1, <3>2 DEF Lasts
  <2>2. CASE k # token
    <3>1. /\ history'.since[k] = Used(token)[k]
          /\ k \in history.over => k \in history'.over
      BY <1>1, <1>4, <2>2, UsedIs
    <3>2. history'.since[k] \subseteq DOMAIN history.opened
      BY <1>1, <2>0, <3>1, UsedIs
    <3>3. ASSUME k \notin history.over
          PROVE  history'.since[k] = history.since[k] \cup {token}
      BY <1>1, <2>2, <3>1, <3>3, UsedIs
    <3>4. ASSUME k \notin history.over, Cardinality(history.since[k]) >= MaxSessions
          PROVE  Cardinality(history'.since[k]) >= MaxSessions
      <4>1. history.since[k] \in SUBSET (1 .. n)
        BY <1>1, <2>0
      <4>2. /\ Cardinality(history.since[k] \cup {token}) >= Cardinality(history.since[k])
            /\ Cardinality(history.since[k]) \in Nat
            /\ Cardinality(history.since[k] \cup {token}) \in Nat
        BY <1>1, <4>1, SinceGrows
      <4>3. Cardinality(history'.since[k]) = Cardinality(history.since[k] \cup {token})
        BY <3>3, <3>4
      <4> QED
        BY <1>1, <3>4, <4>2, <4>3
    <3>5. ASSUME k \notin history.over, Followed(k, sessions, Names(k))
          PROVE  Followed(k, sessions', Names(k)')
      <4>1. /\ Names(k)' = {history.opened[j].id : j \in history.since[k] \cup {token}}
            /\ Names(k) = {history.opened[j].id : j \in history.since[k]}
        BY <1>4, <3>3, <3>5 DEF Names
      <4>2. Names(k) \subseteq Names(k)' /\ token \in Names(k)'
        BY <1>2, <4>1
      <4>3. Followed(k, sessions, Names(k)')
        BY <3>5, <4>2, FollowedMore
      <4> QED
        BY <1>3, <1>5, <2>2, <4>2, <4>3
    <3> QED
      BY <1>4, <2>0, <3>1, <3>2, <3>4, <3>5 DEF Lasts
  <2> QED
    BY <2>1, <2>2
<1>8. \A k \in DOMAIN history'.opened : Lasts(k)'
  BY <1>4, <1>7
<1>9. SessionInv' <=> /\ Len(sessions') <= MaxSessions
                      /\ Distinct(sessions')
                      /\ \A t \in ToSet(sessions') : Listed(t)'
                      /\ \A k \in DOMAIN history'.opened : Lasts(k)'
  BY DEF SessionInv, Lasts, Listed
<1> QED
  BY <1>5, <1>6, <1>8, <1>9

LEMMA WorksSession ==
    ASSUME AuthTyped, SessionInv, NEW a \in Addresses, NEW nonce \in Nat,
           NEW token \in {None, Len(history.opened) + 1}, Works(a, nonce, token)
    PROVE  SessionInv'
<1> DEFINE n == Len(history.opened)
           x == [id |-> token, nonce |-> nonce]
           room == Room(sessions, MaxSessions)
<1>1. /\ DOMAIN history.opened = 1 .. n /\ n \in Nat /\ token \in Nat
      /\ sessions \in Seq(Nat) /\ MaxSessions \in Nat \ {0}
      /\ Len(history.since) = n
  BY OpenedTyped, AuthConstants, HistoryTypes DEF AuthTyped, None
<1>2. /\ Len(sessions) <= MaxSessions /\ Distinct(sessions)
      /\ \A t \in ToSet(sessions) : Listed(t)
      /\ \A k \in 1 .. n : Lasts(k)
  BY <1>1, SessionMeans
<1>3. /\ DOMAIN history'.opened = 1 .. n + 1
      /\ \A k \in 1 .. n : history'.opened[k] = history.opened[k]
      /\ history'.opened[n + 1].id = token
  <2>1. history'.opened = Append(history.opened, x)
    BY DEF Works
  <2>2. x.id = token
    OBVIOUS
  <2> HIDE DEF x
  <2> QED
    BY <1>1, <2>1, <2>2, OpenedAppend
<1>4. /\ \A k \in 1 .. n : history'.since[k] = Used(n + 1)[k]
      /\ history'.since[n + 1] = {}
  <2>1. history'.since = Append(Used(n + 1), {})
    BY <1>1 DEF Works
  <2>2. Used(n + 1) \in Seq(SUBSET Nat) /\ Len(Used(n + 1)) = n
    <3>1. n + 1 \in Nat
      BY <1>1
    <3> QED
      BY <3>1, UsedTyped, Zenon
  <2> HIDE DEF n
  <2> QED
    BY <2>1, <2>2, AppendPlaces
<1>5. /\ room \in Seq(Nat) /\ Len(room) <= MaxSessions - 1 /\ Distinct(room)
      /\ ToSet(room) \subseteq ToSet(sessions)
  BY <1>1, <1>2, RoomKeeps, DistinctRoom
<1>6. sessions' = Append(AllBut(room, token), token) /\ history'.over = history.over
  BY DEF Works
<1> HIDE DEF room, x
<1>7. /\ Len(sessions') <= Len(room) + 1 /\ Len(sessions') \in Nat /\ Len(room) \in Nat
      /\ Distinct(sessions') /\ ToSet(sessions') \subseteq ToSet(room) \cup {token}
      /\ \A names : Followed(token, sessions', names)
      /\ \A k, names : k # token /\ token \in names /\ Followed(k, room, names)
                           => Followed(k, sessions', names)
  <2>1. LET l == Append(AllBut(room, token), token)
        IN  /\ l \in Seq(Nat) /\ Len(l) <= Len(room) + 1
            /\ Distinct(l) /\ ToSet(l) \subseteq ToSet(room) \cup {token}
            /\ \A names : Followed(token, l, names)
            /\ \A k, names : k # token /\ token \in names /\ Followed(k, room, names)
                                 => Followed(k, l, names)
    BY <1>1, <1>5, MovedToEnd
  <2>2. /\ sessions' \in Seq(Nat) /\ Len(sessions') <= Len(room) + 1
        /\ Distinct(sessions') /\ ToSet(sessions') \subseteq ToSet(room) \cup {token}
        /\ \A names : Followed(token, sessions', names)
        /\ \A k, names : k # token /\ token \in names /\ Followed(k, room, names)
                             => Followed(k, sessions', names)
    BY <1>6, <2>1, Zenon
  <2>3. Len(sessions') \in Nat /\ Len(room) \in Nat
    BY <1>5, <2>2
  <2> QED
    BY <2>2, <2>3
<1>8. Len(sessions') <= MaxSessions
  BY <1>1, <1>5, <1>7
<1>9. ASSUME NEW t \in ToSet(sessions') PROVE Listed(t)'
  <2>1. CASE t = token
    <3>1. t # None => t = n + 1
      BY <2>1
    <3> QED
      BY <1>1, <1>3, <2>1, <3>1 DEF Listed
  <2>2. CASE t \in ToSet(sessions)
    <3>1. t # None => t \in 1 .. n /\ history.opened[t].id = t
      BY <1>1, <1>2, <2>2 DEF Listed
    <3>2. t # None => t \in 1 .. n + 1 /\ history'.opened[t].id = t
      BY <1>1, <1>3, <3>1
    <3> QED
      BY <1>3, <3>2 DEF Listed
  <2> QED
    BY <1>5, <1>7, <1>9, <2>1, <2>2
<1>10. ASSUME NEW k, k = n + 1 PROVE Lasts(k)'
  <2>1. history'.opened[k].id = token /\ token \in {None, k} /\ history'.since[k] = {}
    BY <1>3, <1>4, <1>10
  <2>2. token # None => Followed(k, sessions', Names(k)')
    BY <1>7, <2>1
  <2>3. /\ history'.since[k] \subseteq DOMAIN history'.opened
        /\ history'.opened[k].id \in {None, k}
        /\ \/ history'.opened[k].id = None
           \/ Followed(k, sessions', Names(k)')
    BY <2>1, <2>2
  <2> QED
    BY <2>3, Zenon DEF Lasts
<1>11. ASSUME NEW k \in 1 .. n PROVE Lasts(k)'
  <2>0. /\ history.opened[k].id \in {None, k}
        /\ history.since[k] \subseteq 1 .. n
        /\ \/ history.opened[k].id = None
           \/ k \in history.over
           \/ Cardinality(history.since[k]) >= MaxSessions
           \/ Followed(k, sessions, Names(k))
    BY <1>1, <1>2 DEF Lasts
  <2>1. /\ k \in Nat /\ k # n + 1 /\ k # token /\ n + 1 \in Nat /\ n + 1 \notin 1 .. n
    BY <1>1 DEF None
  <2>2. history'.since[k] = Used(n + 1)[k] /\ history'.opened[k].id = history.opened[k].id
    BY <1>3, <1>4
  <2>3. history'.since[k] \subseteq DOMAIN history'.opened
    <3>1. history'.since[k] \subseteq history.since[k] \cup {n + 1}
      BY <1>1, <2>1, <2>2, UsedIs
    <3> QED
      BY <1>1, <1>3, <2>0, <3>1
  <2>4. ASSUME k \notin history.over
        PROVE  /\ history'.since[k] = history.since[k] \cup {n + 1}
               /\ Cardinality(history'.since[k]) = Cardinality(history.since[k]) + 1
               /\ Cardinality(history.since[k]) \in Nat
               /\ IsFiniteSet(history.since[k])
    <3>1. history'.since[k] = history.since[k] \cup {n + 1}
      BY <1>1, <2>1, <2>2, <2>4, UsedIs
    <3>2. history.since[k] \in SUBSET (1 .. n) /\ n + 1 \notin history.since[k]
      BY <2>0, <2>1
    <3> QED
      BY <1>1, <3>1, <3>2, SinceGrows
  <2>5. ASSUME k \notin history.over, Cardinality(history.since[k]) >= MaxSessions
        PROVE  Cardinality(history'.since[k]) >= MaxSessions
    BY <1>1, <2>4, <2>5
  <2>6. ASSUME k \notin history.over, Followed(k, sessions, Names(k))
        PROVE  \/ Followed(k, sessions', Names(k)')
               \/ Cardinality(history'.since[k]) >= MaxSessions
    <3>1. CASE Followed(k, room, Names(k))
      <4>1. \A j \in history.since[k] : history'.opened[j].id = history.opened[j].id
        BY <1>3, <2>0
      <4>2. Names(k)' = {history'.opened[j].id : j \in history.since[k] \cup {n + 1}}
        BY <2>4, <2>6 DEF Names
      <4>3. Names(k) \subseteq Names(k)' /\ token \in Names(k)'
        BY <1>3, <4>1, <4>2 DEF Names
      <4>4. Followed(k, room, Names(k)')
        BY <3>1, <4>3, FollowedMore
      <4> QED
        BY <1>7, <2>1, <4>3, <4>4
    <3>2. CASE Len(sessions) = MaxSessions /\ \A m \in 2 .. MaxSessions : sessions[m] \in Names(k)
      <4> DEFINE id == [j \in 1 .. n |-> history.opened[j].id]
      <4>1. \A m \in 2 .. MaxSessions : \E j \in history.since[k] : id[j] = sessions[m]
        BY <2>0, <3>2 DEF Names
      <4> HIDE DEF id
      <4>2. Cardinality(history.since[k]) >= MaxSessions - 1
        <5>1. IsFiniteSet(history.since[k])
          BY <2>4, <2>6
        <5>2. /\ sessions \in Seq(Nat) /\ MaxSessions \in Nat \ {0}
              /\ Len(sessions) = MaxSessions /\ Distinct(sessions)
          BY <1>1, <1>2, <3>2
        <5> QED
          BY <4>1, <5>1, <5>2, OthersEnough
      <4> QED
        BY <1>1, <2>4, <2>6, <4>2
    <3> QED
      BY <1>1, <1>2, <2>6, <3>1, <3>2, FollowedRoom DEF room
  <2>7. /\ history'.opened[k].id \in {None, k}
        /\ \/ history'.opened[k].id = None
           \/ k \in history'.over
           \/ Cardinality(history'.since[k]) >= MaxSessions
           \/ Followed(k, sessions', Names(k)')
    BY <1>6, <2>0, <2>2, <2>5, <2>6
  <2> QED
    BY <2>3, <2>7, Zenon DEF Lasts
<1>12. \A k \in DOMAIN history'.opened : Lasts(k)'
  BY <1>1, <1>3, <1>10, <1>11
<1>13. SessionInv' <=> /\ Len(sessions') <= MaxSessions
                       /\ Distinct(sessions')
                       /\ \A t \in ToSet(sessions') : Listed(t)'
                       /\ \A k \in DOMAIN history'.opened : Lasts(k)'
  BY DEF SessionInv, Lasts, Listed
<1> QED
  BY <1>7, <1>8, <1>9, <1>12, <1>13

LEMMA SessionStays ==
    ASSUME SessionInv, UNCHANGED <<sessions, history.opened, history.since, history.over>>
    PROVE  SessionInv'
BY DEF SessionInv, Names, Followed, Distinct

LEMMA SessionStep == AuthTyped /\ SessionInv /\ [Next]_vars => SessionInv'
<1> SUFFICES ASSUME AuthTyped, SessionInv, [Next]_vars PROVE SessionInv'
  OBVIOUS
<1>1. CASE UNCHANGED authVars
  BY <1>1, SessionStays DEF authVars
<1>2. CASE Challenge
  BY <1>2, ChallengeDoes, SessionStays
<1>3. ASSUME NEW token \in 1 .. Len(history.opened), Use(token) \/ Logout(token)
      PROVE  SessionInv'
  BY <1>3, TokenSession, OpenedTyped
<1>4. CASE Tick
  BY <1>4, TickDoes, SessionStays
<1>5. ASSUME NEW a \in Addresses, Login(a) PROVE SessionInv'
  <2>1. CASE LoginBarred(a)
    BY <2>1, SessionStays DEF LoginBarred
  <2>2. ASSUME NEW nonce \in 0 .. history.given, LoginBadNonce(a, nonce) PROVE SessionInv'
    BY <2>2, BadNonceDoes, SessionStays
  <2>3. ASSUME NEW nonce \in 0 .. history.given, LoginBadProof(a, nonce) PROVE SessionInv'
    BY <2>3, BadProofDoes, SessionStays
  <2>4. ASSUME NEW nonce \in 0 .. history.given, LoginWorks(a, nonce) PROVE SessionInv'
    <3>1. PICK token \in {None, Len(history.opened) + 1} : Works(a, nonce, token)
      BY <2>4, WorksDoes, Zenon
    <3>2. nonce \in Nat
      BY HistoryTypes
    <3> QED
      BY <3>1, <3>2, WorksSession
  <2> QED
    BY <1>5, <2>1, <2>2, <2>3, <2>4 DEF Login
<1> QED
  BY <1>1, <1>2, <1>3, <1>4, <1>5, ConsoleSteps

LEMMA SessionInit == Init => SessionInv
<1> SUFFICES ASSUME AuthInit PROVE SessionInv
  BY DEF Init
<1>1. sessions = <<>> /\ history.opened = <<>>
  BY DEF AuthInit
<1> QED
  BY <1>1, AuthConstants DEF SessionInv, Distinct, ToSet

LEMMA SessionAlways == Spec => []SessionInv
BY SessionInit, SessionStep, AuthTypedAlways, PTL DEF Spec

(* A token is good until it is logged out, or as many others as there is   *)
(* room for were used or given out since its last use (sessions of Auth    *)
(* in auth.rs).                                                            *)
THEOREM SessionsLastHolds == Spec => []SessionsLast
<1>1. SessionInv => SessionsLast
  BY DEF SessionInv, SessionsLast, Followed, ToSet
<1> QED
  BY <1>1, SessionAlways, PTL

-----------------------------------------------------------------------------
(* The bounds of the whole console.                                        *)
PlaceInv ==
    /\ sent <= MaxEvents
    /\ \A s \in Streams : stream[s].next >= 1 /\ stream[s].next <= sent + 1

LEMMA OnePlace ==
    ASSUME FeedInv, PlaceInv, NEW s \in Streams, sent' = sent,
           \A t \in Streams : t # s => stream'[t] = stream[t],
           stream'[s].next >= 1, stream'[s].next <= sent + 1
    PROVE  PlaceInv'
BY DEF PlaceInv

LEMMA PlaceForward ==
    ASSUME FeedInv, PlaceInv, NEW s \in Streams, F!Forward(s)
    PROVE  PlaceInv'
<1> DEFINE r == stream[s]
           old == F!Oldest
<1>1. /\ stream \in [Streams -> Rows] /\ r.next \in Nat /\ sent \in Nat
      /\ r.next >= 1 /\ r.next <= sent + 1
  BY DEF FeedInv, PlaceInv, Rows
<1>2. old \in Nat \ {0} /\ old <= sent + 1
  BY <1>1, OldestKept, FeedAssumption
<1>3. \A t \in Streams : t # s => stream'[t] = stream[t]
  BY <1>1 DEF F!Forward, F!Recv, F!Lagged, F!Next1, F!Written, F!WriteFails
<1>4. sent' = sent
  BY DEF F!Forward, F!Recv, F!Written, F!WriteFails
<1>5. r \in Rows
  BY <1>1
<1>6. stream'[s].next >= 1 /\ stream'[s].next <= sent + 1
  <2>1. CASE F!Lagged(s)
    <3>1. stream'[s].next = old
      BY <1>1, <1>5, <2>1 DEF F!Lagged, Rows
    <3> QED
      BY <1>1, <1>2, <3>1
  <2>2. CASE F!Next1(s)
    <3>1. stream'[s].next = r.next + 1 /\ r.next <= sent
      BY <1>1, <1>2, <1>5, <2>2 DEF F!Next1, Rows
    <3> QED
      BY <1>1, <3>1
  <2>3. CASE stream' = [stream EXCEPT ![s].state = "writing", ![s].frame = <<"keepalive">>]
    <3>1. stream'[s].next = r.next
      BY <1>1, <1>5, <2>3 DEF Rows
    <3> QED
      BY <1>1, <3>1
  <2>4. CASE F!Written(s)
    <3>1. stream'[s].next = r.next
      BY <1>1, <1>5, <2>4 DEF F!Written, Rows
    <3> QED
      BY <1>1, <3>1
  <2>5. CASE F!WriteFails(s)
    <3>1. stream'[s].next = 1
      BY <1>1, <2>5 DEF F!WriteFails, F!Fresh
    <3> QED
      BY <1>1, <3>1
  <2> QED
    BY <2>1, <2>2, <2>3, <2>4, <2>5 DEF F!Forward, F!Recv
<1> QED
  BY <1>3, <1>4, <1>6, OnePlace

LEMMA PlaceSubscribe ==
    ASSUME FeedInv, PlaceInv, NEW s \in Streams, F!Subscribe(s)
    PROVE  PlaceInv'
<1> DEFINE r == [F!Fresh EXCEPT !.state = "idle", !.start = sent, !.next = sent + 1]
<1>1. stream' = [stream EXCEPT ![s] = r] /\ sent' = sent
  BY DEF F!Subscribe
<1>2. r.next = sent + 1
  BY DEF F!Fresh
<1> HIDE DEF r
<1>3. stream \in [Streams -> Rows] /\ sent \in Nat
  BY DEF FeedInv
<1>4. stream'[s] = r /\ \A t \in Streams : t # s => stream'[t] = stream[t]
  BY <1>1, <1>3
<1>5. stream'[s].next >= 1 /\ stream'[s].next <= sent + 1
  BY <1>2, <1>3, <1>4
<1> QED
  BY <1>1, <1>4, <1>5, OnePlace

LEMMA PlaceStep == FeedInv /\ PlaceInv /\ [Next]_vars => PlaceInv'
<1> SUFFICES ASSUME FeedInv, PlaceInv, [Next]_vars PROVE PlaceInv'
  OBVIOUS
<1>1. CASE UNCHANGED <<sent, stream>>
  BY <1>1 DEF PlaceInv
<1>2. CASE F!Announce
  <2>1. sent' = sent + 1 /\ stream' = stream /\ sent < MaxEvents
    BY <1>2 DEF F!Announce
  <2>2. sent \in Nat /\ MaxEvents \in Nat /\ \A s \in Streams : stream[s].next \in Nat
    BY FeedAssumption DEF FeedInv, Rows, F!EventFeedAssumption
  <2> QED
    BY <2>1, <2>2 DEF PlaceInv
<1>3. ASSUME NEW s \in Streams, F!Forward(s) PROVE PlaceInv'
  BY <1>3, PlaceForward
<1>4. ASSUME NEW s \in Streams, F!Subscribe(s) PROVE PlaceInv'
  BY <1>4, PlaceSubscribe
<1> QED
  BY <1>1, <1>2, <1>3, <1>4 DEF Next, Public, Authorized, Watch, Feed, Time, vars

LEMMA PlaceInit == Init => PlaceInv
<1> SUFFICES ASSUME Init PROVE PlaceInv
  OBVIOUS
<1>1. sent = 0 /\ stream = [s \in Streams |-> F!Fresh]
  BY DEF Init, F!FeedInit
<1>2. F!Fresh.next = 1
  BY DEF F!Fresh
<1> QED
  BY <1>1, <1>2, FeedAssumption DEF PlaceInv, F!EventFeedAssumption

(* What the maps of the web login and the channel hold stays within their  *)
(* limits: the lists of nonces and of sessions never outgrow MAX_NONCES    *)
(* and MAX_SESSIONS, and nonces stay in their order of age.                *)
THEOREM TypesCorrect == Spec => []TypeOK
<1>1. AuthTyped /\ ThrottleInv /\ NonceInv /\ SessionInv => AuthTypeOK
  <2> SUFFICES ASSUME AuthTyped, ThrottleInv, NonceInv, SessionInv PROVE AuthTypeOK
    OBVIOUS
  <2>1. /\ now \in 0 .. MaxTime /\ Len(nonces) <= MaxNonces /\ Len(sessions) <= MaxSessions
        /\ \A i, j \in DOMAIN nonces : i < j => nonces[i].at <= nonces[j].at
    BY DEF AuthTyped, NonceInv, Aged, SessionInv
  <2>2. ASSUME NEW t \in ToSet(sessions) PROVE t \in 0 .. Len(history.opened)
    <3>1. t # None => t \in 1 .. Len(history.opened)
      BY OpenedTyped DEF SessionInv
    <3> QED
      BY <3>1, OpenedTyped DEF None
  <2>3. ASSUME NEW a \in Addresses PROVE failures[a].n \in Nat /\ failures[a].at \in 0 .. now
    <3>1. failures[a] \in FailRows /\ failures[a].at <= now /\ now \in Nat
      BY HistoryTypes DEF AuthTyped, ThrottleInv
    <3> QED
      BY <3>1 DEF FailRows
  <2> QED
    BY <2>1, <2>2, <2>3 DEF AuthTypeOK
<1>2. FeedInv /\ PlaceInv => /\ sent \in 0 .. MaxEvents
                             /\ \A s \in Streams : stream[s].next \in 1 .. sent + 1
  <2> SUFFICES ASSUME FeedInv, PlaceInv
               PROVE  /\ sent \in 0 .. MaxEvents
                      /\ \A s \in Streams : stream[s].next \in 1 .. sent + 1
    OBVIOUS
  <2>1. sent \in Nat /\ MaxEvents \in Nat /\ \A s \in Streams : stream[s].next \in Nat
    BY FeedAssumption DEF FeedInv, Rows, F!EventFeedAssumption
  <2> QED
    BY <2>1 DEF PlaceInv
<1>3. AuthTyped /\ ThrottleInv /\ NonceInv /\ SessionInv /\ FeedInv /\ PlaceInv => TypeOK
  BY <1>1, <1>2 DEF TypeOK
<1>4. Spec => []ThrottleInv
  BY ThrottleInit, ThrottleStep, AuthTypedAlways, PTL DEF Spec
<1>5. Spec => []PlaceInv
  BY PlaceInit, PlaceStep, FeedCorrect, PTL DEF Spec
<1> QED
  BY <1>3, <1>4, <1>5, AuthTypedAlways, NonceAlways, SessionAlways, FeedCorrect, PTL
=============================================================================
