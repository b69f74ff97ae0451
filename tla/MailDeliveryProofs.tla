-------------------------- MODULE MailDeliveryProofs --------------------------
(***************************************************************************)
(* Proofs about the messages on their way through MailPath, for any number *)
(* of connections, lines, messages, nodes and targets and any size of the  *)
(* channel: the intake stores the messages of a connection in the order    *)
(* the server accepted them, no message goes round, and what the mail      *)
(* client takes an attempt to have ended with is so at the server.         *)
(*                                                                         *)
(* A message carries the number of the line at which its body ended.  The  *)
(* session it is from has read further since, so the next one gets a       *)
(* higher number; and shelf, intake and channel, one after the other, hold *)
(* the messages of a connection by ascending number.                       *)
(***************************************************************************)
EXTENDS MailPathProofs

(* A session is past the message: it has read at least the line that       *)
(* number stands for, and one more if it is reading the next body.         *)
Past(s, msg) ==
    s.phase # "closed" => msg.line <= s.line /\ (s.phase = "data" => msg.line < s.line)

Before(a, b) == a.conn = b.conn => a.line < b.line

ByMail(r) == r.origin = ""

(* Every message is behind its session.                                    *)
BehindSessions ==
    /\ \A i \in DOMAIN sink : Past(ses[sink[i].conn], sink[i])
    /\ \A k \in DOMAIN taken : Past(ses[taken[k].conn], taken[k])
    /\ \A i \in DOMAIN shelf[Here] :
          ByMail(shelf[Here][i]) => Past(ses[shelf[Here][i].msg.conn], shelf[Here][i].msg)

(* What is on the channel is in order, and after what was taken off it.    *)
SinkOrdered ==
    /\ \A i, j \in DOMAIN sink : i < j => Before(sink[i], sink[j])
    /\ \A k \in DOMAIN taken, j \in DOMAIN sink : Before(taken[k], sink[j])

(* What is stored is in order, and before what is not yet.                 *)
ShelfOrdered ==
    \A i \in DOMAIN shelf[Here] : ByMail(shelf[Here][i]) =>
        /\ \A j \in DOMAIN shelf[Here] :
              ByMail(shelf[Here][j]) /\ i < j => Before(shelf[Here][i].msg, shelf[Here][j].msg)
        /\ \A k \in DOMAIN taken : Before(shelf[Here][i].msg, taken[k])
        /\ \A j \in DOMAIN sink : Before(shelf[Here][i].msg, sink[j])

OrderInv == BehindSessions /\ SinkOrdered /\ ShelfOrdered

-----------------------------------------------------------------------------
(* Sessions read on.                                                       *)

Advances(s, r) ==
    r.phase # "closed" =>
        /\ s.phase # "closed"
        /\ s.line <= r.line
        /\ r.phase = "data" => s.phase = "data" \/ s.line < r.line

Advanced(c) ==
    /\ \A d \in Conns \ {c} : ses'[d] = ses[d]
    /\ Advances(ses[c], ses'[c])

(* A step that ends the session, and one that reads a line.                *)
LEMMA OverAdvances ==
    ASSUME SessionInv, NEW c \in Conns, ses' = [ses EXCEPT ![c] = Over]
    PROVE  Advanced(c)
<1>1. ses'[c] = Over /\ \A d \in Conns \ {c} : ses'[d] = ses[d]
  BY DEF SessionInv
<1> QED
  BY <1>1, FreshSession DEF Advanced, Advances

LEMMA LineAdvances ==
    ASSUME SessionInv, NEW c \in Conns, NEW new, "line" \in DOMAIN new,
           new.line = ses[c].line, ses[c].phase \in Reading,
           ses' = [ses EXCEPT ![c] = Consumed(new)]
    PROVE  Advanced(c)
<1>1. ses'[c] = Consumed(new) /\ \A d \in Conns \ {c} : ses'[d] = ses[d]
  BY DEF SessionInv
<1>2. Consumed(new).line = ses[c].line + 1
  BY DEF Consumed
<1>3. ses[c].line \in Nat /\ ses[c].phase # "closed"
  BY DEF SessionInv, Session, Reading
<1> HIDE DEF Consumed
<1>4. ses[c].line <= Consumed(new).line /\ ses[c].line < Consumed(new).line
  BY <1>2, <1>3
<1> QED
  BY <1>1, <1>3, <1>4 DEF Advanced, Advances

(* The lines that are answered and no more.                                *)
LEMMA AnswersAdvance ==
    ASSUME SessionInv, NEW c \in Conns,
           \/ Hello(c) \/ Reset(c) \/ Nothing(c) \/ AuthAsks(c) \/ AuthAtOnce(c)
           \/ AuthAnswer(c) \/ Refuse530(c) \/ MailFrom(c) \/ RcptTo(c) \/ BadAddress(c)
           \/ Data(c)
    PROVE  Advanced(c) /\ sink' = sink
<1> DEFINE s == ses[c]
<1>1. s \in Session
  BY DEF SessionInv
<1>2. s.phase \in Reading /\ sink' = sink
  BY DEF Hello, Reset, Nothing, AuthAsks, AuthAtOnce, AuthAnswer, Refuse530, MailFrom, RcptTo,
     BadAddress, Data, Command, Reads, Reading
<1> SUFFICES Advanced(c)
  BY <1>2
<1>3. DOMAIN s = DOMAIN [from |-> 0, rcpt |-> 0, user |-> 0, phase |-> 0, tls |-> 0, policy |-> 0,
                         name |-> 0, size |-> 0, buf |-> 0, line |-> 0, began |-> 0, shown |-> 0]
  BY <1>1 DEF Session
<1>4. ASSUME NEW new, "line" \in DOMAIN new, new.line = s.line,
             ses' = [ses EXCEPT ![c] = Consumed(new)]
      PROVE  Advanced(c)
  BY <1>2, <1>4, LineAdvances
<1>5. ASSUME NEW code, NEW new, Answer(c, code, new), "line" \in DOMAIN new, new.line = s.line
      PROVE  Advanced(c)
  BY <1>4, <1>5 DEF Answer
<1>6. ASSUME NEW name, NEW pass, Conclude(c, name, pass) PROVE Advanced(c)
  <2> DEFINE q == [s EXCEPT !.phase = "command", !.name = "none",
                            !.shown = @ \cup {<<name, pass>>}]
             new == IF CredentialsOk(s.policy, name, pass) THEN [q EXCEPT !.user = name] ELSE q
  <2>1. \E code : Answer(c, code, new)
    BY <1>6 DEF Conclude
  <2>2. "line" \in DOMAIN q /\ q.line = s.line
    BY <1>3
  <2> HIDE DEF q
  <2>3. "line" \in DOMAIN new /\ new.line = s.line
    BY <2>2
  <2> HIDE DEF new
  <2> QED
    BY <1>5, <2>1, <2>3
<1>7. Answer(c, 500, s) \/ Answer(c, 530, s) \/ Answer(c, 501, s) \/ Answer(c, 452, s)
        => Advanced(c)
  BY <1>3, <1>5
<1>8. CASE Nothing(c) \/ Refuse530(c) \/ BadAddress(c)
  BY <1>7, <1>8 DEF Nothing, Refuse530, BadAddress
<1>9. CASE Hello(c) \/ Reset(c)
  <2> DEFINE q == ResetEnvelope(s)
             r == Begin(q)
  <2>1. ses' = [ses EXCEPT ![c] = Consumed(r)]
    BY <1>9 DEF Hello, Reset, Answer
  <2>2. "line" \in DOMAIN q /\ q.line = s.line
    BY <1>3 DEF ResetEnvelope
  <2> HIDE DEF q
  <2>3. "line" \in DOMAIN r /\ r.line = s.line
    BY <2>2 DEF Begin
  <2> HIDE DEF r
  <2> QED
    BY <1>4, <2>1, <2>3
<1>10. CASE MailFrom(c)
  <2> DEFINE q == [s EXCEPT !.from = s.line + 1, !.rcpt = {}]
  <2>1. Answer(c, 250, Begin(q))
    BY <1>10 DEF MailFrom
  <2>2. "line" \in DOMAIN q /\ q.line = s.line
    BY <1>3
  <2> HIDE DEF q
  <2>3. "line" \in DOMAIN Begin(q) /\ Begin(q).line = s.line
    BY <2>2 DEF Begin
  <2> QED
    BY <1>5, <2>1, <2>3
<1>11. CASE RcptTo(c)
  <2> DEFINE q == [s EXCEPT !.rcpt = @ \cup {s.line + 1}]
  <2>1. Answer(c, 452, s) \/ Answer(c, 250, q)
    BY <1>11 DEF RcptTo
  <2>2. "line" \in DOMAIN q /\ q.line = s.line
    BY <1>3
  <2> HIDE DEF q
  <2> QED
    BY <1>5, <1>7, <2>1, <2>2
<1>12. CASE Data(c)
  <2> DEFINE q == [s EXCEPT !.phase = "data", !.size = 0]
  <2>1. Answer(c, 354, q)
    BY <1>12 DEF Data
  <2>2. "line" \in DOMAIN q /\ q.line = s.line
    BY <1>3
  <2> HIDE DEF q
  <2> QED
    BY <1>5, <2>1, <2>2
<1>13. CASE AuthAtOnce(c)
  BY <1>6, <1>13 DEF AuthAtOnce
<1>14. CASE AuthAsks(c)
  <2> DEFINE q == [s EXCEPT !.phase = Asks[Text(c)],
                            !.name = IF Text(c) = "LOGIN right" THEN "right" ELSE "none"]
  <2>1. Answer(c, 334, q)
    BY <1>14 DEF AuthAsks
  <2>2. "line" \in DOMAIN q /\ q.line = s.line
    BY <1>3
  <2> HIDE DEF q
  <2> QED
    BY <1>5, <2>1, <2>2
<1>15. CASE AuthAnswer(c)
  <2> DEFINE p == [s EXCEPT !.phase = "command", !.name = "none"]
             q == [s EXCEPT !.phase = "pass", !.name = NameIn(Text(c))]
  <2>1. \/ \E name, pass : Conclude(c, name, pass)
        \/ Answer(c, 501, p)
        \/ Answer(c, 334, q)
    BY <1>15 DEF AuthAnswer
  <2>2. /\ "line" \in DOMAIN p /\ p.line = s.line
        /\ "line" \in DOMAIN q /\ q.line = s.line
    BY <1>3
  <2> HIDE DEF p, q
  <2> QED
    BY <1>5, <1>6, <2>1, <2>2
<1> QED
  BY <1>8, <1>9, <1>10, <1>11, <1>12, <1>13, <1>14, <1>15

(* The lines after which more happens, and the steps of the lobby.         *)
LEMMA OthersAdvance ==
    ASSUME SessionInv, NEW c \in Conns,
           \/ Quit(c) \/ StartTls(c) \/ BodyLine(c) \/ ReadError(c)
           \/ Accept(c) \/ HandshakeDone(c) \/ HandshakeFailed(c)
    PROVE  Advanced(c) /\ sink' = sink
<1> DEFINE s == ses[c]
<1>1. s \in Session /\ s.buf = <<>> /\ s.line \in Nat
  BY DEF SessionInv, Session
<1>2. sink' = sink
  BY DEF Quit, StartTls, BodyLine, ReadError, Closes, Accept, HandshakeDone, HandshakeFailed
<1> SUFFICES Advanced(c)
  BY <1>2
<1>3. DOMAIN s = DOMAIN [from |-> 0, rcpt |-> 0, user |-> 0, phase |-> 0, tls |-> 0, policy |-> 0,
                         name |-> 0, size |-> 0, buf |-> 0, line |-> 0, began |-> 0, shown |-> 0]
  BY <1>1 DEF Session
<1>4. ASSUME NEW r, ses' = [ses EXCEPT ![c] = r] PROVE ses'[c] = r /\ \A d \in Conns \ {c} : ses'[d] = ses[d]
  BY <1>4 DEF SessionInv
<1>5. CASE ses' = [ses EXCEPT ![c] = Over]
  BY <1>5, OverAdvances
<1>6. ASSUME s.phase \in Reading, NEW r, ses' = [ses EXCEPT ![c] = r], r.line = s.line + 1
      PROVE  Advanced(c)
  <2>1. s.line <= r.line /\ s.line < r.line
    BY <1>1, <1>6
  <2>2. ses'[c] = r /\ \A d \in Conns \ {c} : ses'[d] = ses[d]
    BY <1>4, <1>6
  <2> QED
    BY <1>6, <2>1, <2>2 DEF Advanced, Advances, Reading
<1>7. Consumed(s) \in Session /\ Consumed(s).line = s.line + 1
  BY <1>1, ConsumedSession
<1>8. CASE StartTls(c)
  <2>1. s.phase \in Reading
    BY <1>8 DEF StartTls, Command, Reads, Reading
  <2>2. CASE ses' = [ses EXCEPT ![c] = Consumed(s)]
    BY <1>6, <1>7, <2>1, <2>2
  <2>3. CASE ses' = [ses EXCEPT ![c] = [Consumed(@) EXCEPT !.phase = "handshake", !.buf = <<>>]]
    <3> DEFINE q == Consumed(s)
               r == [q EXCEPT !.phase = "handshake", !.buf = <<>>]
    <3>1. q \in Session /\ q.line = s.line + 1
      BY <1>7
    <3>2. ses' = [ses EXCEPT ![c] = r]
      BY <2>3
    <3> HIDE DEF q
    <3>3. r.line = s.line + 1
      BY <3>1 DEF Session
    <3> HIDE DEF r
    <3> QED
      BY <1>6, <2>1, <3>2, <3>3
  <2> QED
    BY <1>8, <2>2, <2>3 DEF StartTls, Answer, AheadDropped
<1>9. CASE BodyLine(c)
  <2> DEFINE q == Consumed(s)
             r == [q EXCEPT !.size = IF @ > MaxSize THEN @ ELSE @ + 1]
  <2>1. q \in Session /\ q.line = s.line + 1
    BY <1>7
  <2>2. ses' = [ses EXCEPT ![c] = r] /\ s.phase \in Reading
    BY <1>9 DEF BodyLine, Reads, Reading
  <2> HIDE DEF q
  <2>3. r.line = s.line + 1
    BY <2>1 DEF Session
  <2> HIDE DEF r
  <2> QED
    BY <1>6, <2>2, <2>3
<1>10. CASE Accept(c) /\ ses' # [ses EXCEPT ![c] = Over]
  <2> DEFINE phase == IF c \in Implicit THEN "handshake" ELSE "command"
             r == [s EXCEPT !.phase = phase, !.policy = policy]
  <2>1. ses' = [ses EXCEPT ![c] = r] /\ s.phase = "new"
    BY <1>10 DEF Accept, SessionInv, Session
  <2>2. phase \notin {"data", "closed"}
    OBVIOUS
  <2> HIDE DEF phase
  <2>3. r.line = s.line /\ r.phase = phase
    BY <1>3
  <2> HIDE DEF r
  <2> QED
    BY <1>1, <1>4, <2>1, <2>2, <2>3 DEF Advanced, Advances
<1>11. CASE HandshakeDone(c)
  <2> DEFINE q == StartOver(s)
             r == [q EXCEPT !.phase = "command", !.tls = TRUE, !.began = s.line, !.shown = {}]
  <2>1. ses' = [ses EXCEPT ![c] = r] /\ s.phase = "handshake"
    BY <1>11 DEF HandshakeDone
  <2>2. "line" \in DOMAIN q /\ "phase" \in DOMAIN q /\ q.line = s.line
    BY <1>3 DEF StartOver
  <2> HIDE DEF q
  <2>3. r.line = s.line /\ r.phase = "command"
    BY <2>2
  <2> HIDE DEF r
  <2> QED
    BY <1>1, <1>4, <2>1, <2>3 DEF Advanced, Advances
<1> QED
  BY <1>5, <1>8, <1>9, <1>10, <1>11 DEF Quit, ReadError, Closes, Accept, HandshakeFailed,
     HandshakeDone

(* A body ends: the session reads on, and the channel may get the message. *)
LEMMA DeliverAdvances ==
    ASSUME SessionInv, NEW c \in Conns, NEW new \in Session, NEW rest,
           new.line \in {ses[c].line, ses[c].line + 1}, ses[c].phase = "data",
           Deliver(c, new, rest)
    PROVE  /\ Advanced(c)
           /\ ses'[c].phase = "command"
           /\ ses[c].line <= ses'[c].line
           /\ sink' = sink \/ sink' = Append(sink, MessageOf(c))
<1> DEFINE q == ResetEnvelope(new)
           r == [q EXCEPT !.phase = "command", !.size = 0, !.began = new.line]
<1>1. ses' = [ses EXCEPT ![c] = r] /\ (sink' = sink \/ sink' = Append(sink, MessageOf(c)))
  BY DEF Deliver
<1>2. q \in Session /\ q.line = new.line
  BY DEF ResetEnvelope, Session
<1> HIDE DEF q
<1>3. r.phase = "command" /\ r.line = new.line
  BY <1>2 DEF Session
<1> HIDE DEF r
<1>4. ses[c].line \in Nat
  BY DEF SessionInv, Session
<1>5. ses[c].line <= r.line
  BY <1>3, <1>4
<1>6. ses'[c] = r /\ \A d \in Conns \ {c} : ses'[d] = ses[d]
  BY <1>1 DEF SessionInv
<1> QED
  BY <1>1, <1>3, <1>5, <1>6 DEF Advanced, Advances

-----------------------------------------------------------------------------
(* Messages stay in order.                                                 *)

LEMMA MessageTypes ==
    ASSUME MessagesInv
    PROVE  /\ \A i \in DOMAIN sink : sink[i] \in Message
           /\ \A k \in DOMAIN taken : taken[k] \in Message
           /\ \A i \in DOMAIN shelf[Here] : shelf[Here][i].msg \in Message
<1>1. sink \in Seq(GoodMessages) /\ taken \in Seq(GoodMessages) /\ shelf[Here] \in Seq(GoodRecords)
  BY IntakeConstants DEF MessagesInv
<1>2. GoodMessages \subseteq Message /\ \A r \in GoodRecords : r.msg \in Message
  BY DEF GoodMessages, GoodRecords
<1> QED
  BY <1>1, <1>2

LEMMA PastStays ==
    ASSUME SessionInv, SessionInv', NEW c \in Conns, Advanced(c),
           NEW m \in Message, Past(ses[m.conn], m)
    PROVE  Past(ses'[m.conn], m)
<1>1. m.conn \in Conns /\ m.line \in Nat
  BY DEF Message
<1>2. CASE m.conn # c
  BY <1>1, <1>2 DEF Advanced
<1>3. CASE m.conn = c
  <2>1. ses[c].line \in Nat /\ ses'[c].line \in Nat
    BY DEF SessionInv, Session
  <2>2. Advances(ses[c], ses'[c]) /\ Past(ses[c], m)
    BY <1>3 DEF Advanced
  <2> QED
    BY <1>1, <1>3, <2>1, <2>2 DEF Advances, Past
<1> QED
  BY <1>2, <1>3

LEMMA BehindStays ==
    ASSUME SessionInv, SessionInv', MessagesInv, BehindSessions, NEW c \in Conns, Advanced(c)
    PROVE  /\ \A i \in DOMAIN sink : Past(ses'[sink[i].conn], sink[i])
           /\ \A k \in DOMAIN taken : Past(ses'[taken[k].conn], taken[k])
           /\ \A i \in DOMAIN shelf[Here] :
                 ByMail(shelf[Here][i]) => Past(ses'[shelf[Here][i].msg.conn], shelf[Here][i].msg)
BY PastStays, MessageTypes DEF BehindSessions

(* What a longer sequence is made of.                                      *)
LEMMA Appended ==
    ASSUME NEW Set, NEW list \in Seq(Set), NEW last
    PROVE  LET t == Append(list, last)
           IN  /\ \A i \in DOMAIN t : t[i] = last \/ (i \in DOMAIN list /\ t[i] = list[i])
               /\ \A i, j \in DOMAIN t : i < j => i \in DOMAIN list /\ t[i] = list[i]
<1> DEFINE t == Append(list, last)
           n == Len(list)
<1>1. n \in Nat /\ DOMAIN list = 1 .. n
  OBVIOUS
<1>2. DOMAIN t = 1 .. n + 1 /\ t[n + 1] = last /\ \A i \in 1 .. n : t[i] = list[i]
  OBVIOUS
<1> HIDE DEF t, n
<1>3. \A i \in 1 .. n + 1 : i = n + 1 \/ i \in 1 .. n
  BY <1>1
<1>4. \A i, j \in 1 .. n + 1 : i < j => i \in 1 .. n
  BY <1>1
<1>5. \A i \in DOMAIN t : t[i] = last \/ (i \in DOMAIN list /\ t[i] = list[i])
  BY <1>1, <1>2, <1>3
<1>6. \A i, j \in DOMAIN t : i < j => i \in DOMAIN list /\ t[i] = list[i]
  BY <1>1, <1>2, <1>4
<1> QED
  BY <1>5, <1>6 DEF t

(* No message: sessions read on.                                           *)
LEMMA ReadingKeepsOrder ==
    ASSUME SessionInv, SessionInv', MessagesInv, OrderInv, NEW c \in Conns, Advanced(c),
           UNCHANGED <<sink, taken, shelf>>
    PROVE  OrderInv'
<1>1. BehindSessions'
  BY BehindStays DEF OrderInv, BehindSessions
<1> QED
  BY <1>1 DEF OrderInv, SinkOrdered, ShelfOrdered, Before

(* A message is put on the channel, behind all others.                     *)
LEMMA DeliveryKeepsOrder ==
    ASSUME SessionInv, SessionInv', MessagesInv, OrderInv, NEW c \in Conns, Advanced(c),
           sink' = Append(sink, MessageOf(c)), UNCHANGED <<taken, shelf>>,
           ses[c].phase = "data", ses'[c].phase = "command", ses[c].line <= ses'[c].line
    PROVE  OrderInv'
<1> DEFINE m == MessageOf(c)
<1>1. m.conn = c /\ m.line = ses[c].line
  BY DEF MessageOf
<1>2. Past(ses'[c], m)
  BY <1>1 DEF Past
<1>3. \A x : Past(ses[x.conn], x) => Before(x, m)
  BY <1>1 DEF Past, Before
<1> HIDE DEF m
<1>4. sink \in Seq(GoodMessages)
  BY DEF MessagesInv
<1>5. /\ \A i \in DOMAIN sink' : sink'[i] = m \/ (i \in DOMAIN sink /\ sink'[i] = sink[i])
      /\ \A i, j \in DOMAIN sink' : i < j => i \in DOMAIN sink /\ sink'[i] = sink[i]
  BY <1>4, Appended DEF m
<1>6. BehindSessions'
  <2>1. \A i \in DOMAIN sink' : Past(ses'[sink'[i].conn], sink'[i])
    BY <1>1, <1>2, <1>5, BehindStays DEF OrderInv
  <2> QED
    BY <2>1, BehindStays DEF OrderInv, BehindSessions
<1>7. SinkOrdered'
  <2>1. ASSUME NEW i \in DOMAIN sink', NEW j \in DOMAIN sink', i < j
        PROVE  Before(sink'[i], sink'[j])
    <3>1. i \in DOMAIN sink /\ sink'[i] = sink[i]
      BY <1>5, <2>1
    <3>2. Before(sink[i], m)
      BY <1>3, <3>1 DEF OrderInv, BehindSessions
    <3>3. j \in DOMAIN sink => Before(sink[i], sink[j])
      BY <2>1, <3>1 DEF OrderInv, SinkOrdered
    <3> QED
      BY <1>5, <3>1, <3>2, <3>3
  <2>2. ASSUME NEW k \in DOMAIN taken', NEW j \in DOMAIN sink' PROVE Before(taken'[k], sink'[j])
    <3>1. Before(taken[k], m)
      BY <1>3 DEF OrderInv, BehindSessions
    <3>2. j \in DOMAIN sink => Before(taken[k], sink[j])
      BY DEF OrderInv, SinkOrdered
    <3> QED
      BY <1>5, <3>1, <3>2
  <2> QED
    BY <2>1, <2>2 DEF SinkOrdered, Before
<1>8. ShelfOrdered'
  <2> SUFFICES ASSUME NEW i \in DOMAIN shelf[Here], ByMail(shelf[Here][i])
               PROVE  /\ \A j \in DOMAIN shelf[Here] : ByMail(shelf[Here][j]) /\ i < j =>
                            Before(shelf[Here][i].msg, shelf[Here][j].msg)
                      /\ \A k \in DOMAIN taken : Before(shelf[Here][i].msg, taken[k])
                      /\ \A j \in DOMAIN sink' : Before(shelf[Here][i].msg, sink'[j])
    BY DEF ShelfOrdered, ByMail, Before
  <2>1. Before(shelf[Here][i].msg, m)
    BY <1>3 DEF OrderInv, BehindSessions
  <2> QED
    BY <1>5, <2>1 DEF OrderInv, ShelfOrdered
<1> QED
  BY <1>6, <1>7, <1>8 DEF OrderInv

(* Whatever the server does with a connection.                             *)
LEMMA ServerKeepsOrder ==
    ASSUME SessionInv, SessionInv', MessagesInv, OrderInv, UNCHANGED <<taken, shelf>>,
           NEW c \in Conns,
           Dialog(c) \/ Accept(c) \/ HandshakeDone(c) \/ HandshakeFailed(c)
    PROVE  OrderInv'
<1>1. ASSUME NEW new \in Session, NEW rest, ses[c].phase = "data",
             new.line \in {ses[c].line, ses[c].line + 1}, Deliver(c, new, rest)
      PROVE  OrderInv'
  <2>1. /\ Advanced(c) /\ ses'[c].phase = "command" /\ ses[c].line <= ses'[c].line
        /\ sink' = sink \/ sink' = Append(sink, MessageOf(c))
    BY <1>1, DeliverAdvances
  <2>2. CASE sink' = sink
    BY <2>1, <2>2, ReadingKeepsOrder
  <2>3. CASE sink' = Append(sink, MessageOf(c))
    BY <1>1, <2>1, <2>3, DeliveryKeepsOrder
  <2> QED
    BY <2>1, <2>2, <2>3
<1>2. ses[c] \in Session /\ ses[c].buf = <<>>
  BY DEF SessionInv
<1>3. CASE FinalDot(c)
  <2>1. Consumed(ses[c]) \in Session /\ Consumed(ses[c]).line = ses[c].line + 1
    BY <1>2, ConsumedSession
  <2>2. \E rest : Deliver(c, Consumed(ses[c]), rest) /\ ses[c].phase = "data"
    BY <1>3 DEF FinalDot, Reads
  <2> QED
    BY <1>1, <2>1, <2>2
<1>4. CASE EndOfInput(c) \/ Timeout(c)
  <2>1. ASSUME NEW told, Closes(c, told) PROVE OrderInv'
    BY <2>1, OverAdvances, ReadingKeepsOrder DEF Closes
  <2>2. ASSUME NEW rest, ses[c].phase = "data", Deliver(c, ses[c], rest) PROVE OrderInv'
    BY <1>1, <1>2, <2>2
  <2> QED
    BY <1>4, <2>1, <2>2 DEF EndOfInput, Timeout
<1>5. CASE ~ (FinalDot(c) \/ EndOfInput(c) \/ Timeout(c))
  <2>1. Advanced(c) /\ sink' = sink
    BY <1>5, AnswersAdvance, OthersAdvance DEF Dialog
  <2> QED
    BY <2>1, ReadingKeepsOrder
<1> QED
  BY <1>3, <1>4, <1>5

-----------------------------------------------------------------------------
(* The intake.                                                             *)

(* A message is taken from the channel: it was the first there.            *)
LEMMA TakeKeepsOrder ==
    ASSUME MessagesInv, OrderInv, I!Take, UNCHANGED ses
    PROVE  OrderInv'
<1>1. /\ taken = <<>> /\ sink # <<>>
      /\ taken' = <<Head(sink)>> /\ sink' = Tail(sink) /\ shelf' = shelf
  BY DEF I!Take
<1>2. sink \in Seq(GoodMessages)
  BY DEF MessagesInv
<1>3. DOMAIN sink = 1 .. Len(sink) /\ Len(sink) \in Nat /\ 1 \in DOMAIN sink
  BY <1>1, <1>2
<1>4. /\ \A k \in DOMAIN taken' : taken'[k] = sink[1]
      /\ \A j \in DOMAIN sink' : j + 1 \in DOMAIN sink /\ 1 < j + 1 /\ sink'[j] = sink[j + 1]
      /\ \A i, j \in DOMAIN sink' : i < j => i + 1 < j + 1
  BY <1>1, <1>2, <1>3
<1>5. BehindSessions'
  BY <1>1, <1>3, <1>4 DEF OrderInv, BehindSessions
<1>6. SinkOrdered'
  <2>1. \A i, j \in DOMAIN sink : i < j => Before(sink[i], sink[j])
    BY DEF OrderInv, SinkOrdered
  <2>2. \A i, j \in DOMAIN sink' : i < j => Before(sink'[i], sink'[j])
    BY <1>4, <2>1
  <2>3. \A k \in DOMAIN taken', j \in DOMAIN sink' : Before(taken'[k], sink'[j])
    BY <1>3, <1>4, <2>1
  <2> QED
    BY <2>2, <2>3 DEF SinkOrdered, Before
<1>7. ShelfOrdered'
  <2> SUFFICES ASSUME NEW i \in DOMAIN shelf[Here], ByMail(shelf[Here][i])
               PROVE  /\ \A j \in DOMAIN shelf[Here] : ByMail(shelf[Here][j]) /\ i < j =>
                            Before(shelf[Here][i].msg, shelf[Here][j].msg)
                      /\ \A k \in DOMAIN taken' : Before(shelf[Here][i].msg, taken'[k])
                      /\ \A j \in DOMAIN sink' : Before(shelf[Here][i].msg, sink'[j])
    BY <1>1 DEF ShelfOrdered, ByMail, Before
  <2> QED
    BY <1>3, <1>4 DEF OrderInv, ShelfOrdered
<1> QED
  BY <1>5, <1>6, <1>7 DEF OrderInv

(* What leaves the intake's hand without a record leaves the rest in order. *)
LEMMA SetAsideKeepsOrder ==
    ASSUME OrderInv, taken' = <<>> \/ taken' = taken, UNCHANGED <<sink, shelf, ses>>
    PROVE  OrderInv'
<1>1. \A k \in DOMAIN taken' : k \in DOMAIN taken /\ taken'[k] = taken[k]
  OBVIOUS
<1> QED
  BY <1>1 DEF OrderInv, BehindSessions, SinkOrdered, ShelfOrdered, Before

LEMMA RecordAdded ==
    ASSUME MessagesInv, NEW msg, NEW origin, I!Stored(Here, msg, origin)
    PROVE  LET r == [msg |-> msg, origin |-> origin]
               s == shelf[Here]
               t == shelf'[Here]
           IN  /\ \A i \in DOMAIN t : t[i] = r \/ (i \in DOMAIN s /\ t[i] = s[i])
               /\ \A i, j \in DOMAIN t : i < j => i \in DOMAIN s /\ t[i] = s[i]
<1> DEFINE r == [msg |-> msg, origin |-> origin]
           s == shelf[Here]
           t == shelf'[Here]
<1>1. s \in Seq(GoodRecords) /\ Here \in Nodes /\ shelf \in [Nodes -> Seq(GoodRecords)]
  BY IntakeConstants DEF MessagesInv
<1>2. t = Append(s, r)
  BY <1>1 DEF I!Stored
<1> HIDE DEF r, s, t
<1>3. s \in Seq(GoodRecords)
  BY <1>1 DEF s
<1>4. /\ \A i \in DOMAIN t : t[i] = r \/ (i \in DOMAIN s /\ t[i] = s[i])
      /\ \A i, j \in DOMAIN t : i < j => i \in DOMAIN s /\ t[i] = s[i]
  BY <1>2, <1>3, Appended
<1> QED
  BY <1>4 DEF r, s, t

InHand(msg) == \E k \in DOMAIN taken : msg = taken[k]

(* A record is added: of the message in hand, or of one that was pushed.   *)
LEMMA StoredKeepsOrder ==
    ASSUME MessagesInv, OrderInv, UNCHANGED <<sink, ses>>,
           NEW n \in Nodes, NEW msg, NEW origin, I!Stored(n, msg, origin),
           \A k \in DOMAIN taken' : k \in DOMAIN taken /\ taken'[k] = taken[k],
           origin = "" => DOMAIN taken' = {} /\ InHand(msg)
    PROVE  OrderInv'
<1> DEFINE r == [msg |-> msg, origin |-> origin]
           s == shelf[Here]
           t == shelf'[Here]
<1>1. r.msg = msg /\ r.origin = origin
  OBVIOUS
<1> HIDE DEF r
<1>2. \A k \in DOMAIN taken' : k \in DOMAIN taken /\ taken'[k] = taken[k]
  OBVIOUS
<1>3. s \in Seq(GoodRecords) /\ Here \in Nodes /\ shelf \in [Nodes -> Seq(GoodRecords)]
  BY IntakeConstants DEF MessagesInv
<1>4. CASE n # Here
  <2>1. t = s
    BY <1>3, <1>4 DEF I!Stored
  <2> QED
    BY <1>2, <2>1 DEF OrderInv, BehindSessions, SinkOrdered, ShelfOrdered, Before
<1>5. CASE n = Here
  <2>2. /\ \A i \in DOMAIN t : t[i] = r \/ (i \in DOMAIN s /\ t[i] = s[i])
        /\ \A i, j \in DOMAIN t : i < j => i \in DOMAIN s /\ t[i] = s[i]
    BY <1>5, RecordAdded DEF r, s, t
  <2> HIDE DEF s, t
  <2>5. ByMail(r) => DOMAIN taken' = {} /\ InHand(msg)
    BY <1>1 DEF ByMail
  <2>6. ByMail(r) => /\ Past(ses[msg.conn], msg)
                     /\ \A i \in DOMAIN s : ByMail(s[i]) => Before(s[i].msg, msg)
                     /\ \A j \in DOMAIN sink : Before(msg, sink[j])
    BY <2>5 DEF InHand, OrderInv, BehindSessions, SinkOrdered, ShelfOrdered, s
  <2>7. BehindSessions'
    <3>1. \A i \in DOMAIN t : ByMail(t[i]) => Past(ses[t[i].msg.conn], t[i].msg)
      BY <1>1, <2>2, <2>6 DEF OrderInv, BehindSessions, s
    <3> QED
      BY <1>2, <3>1 DEF OrderInv, BehindSessions, ByMail, Past, t
  <2>8. SinkOrdered'
    BY <1>2 DEF OrderInv, SinkOrdered, Before
  <2>9. ShelfOrdered'
    <3> SUFFICES ASSUME NEW i \in DOMAIN t, ByMail(t[i])
                 PROVE  /\ \A j \in DOMAIN t : ByMail(t[j]) /\ i < j => Before(t[i].msg, t[j].msg)
                        /\ \A k \in DOMAIN taken' : Before(t[i].msg, taken'[k])
                        /\ \A j \in DOMAIN sink : Before(t[i].msg, sink[j])
      BY DEF ShelfOrdered, ByMail, Before, t
    <3>1. ASSUME NEW j \in DOMAIN t, ByMail(t[j]), i < j PROVE Before(t[i].msg, t[j].msg)
      <4>1. i \in DOMAIN s /\ t[i] = s[i]
        BY <2>2, <3>1
      <4>2. CASE j \in DOMAIN s /\ t[j] = s[j]
        BY <3>1, <4>1, <4>2 DEF OrderInv, ShelfOrdered, s
      <4>3. CASE t[j] = r
        BY <1>1, <2>6, <3>1, <4>1, <4>3
      <4> QED
        BY <2>2, <4>2, <4>3
    <3>2. CASE i \in DOMAIN s /\ t[i] = s[i]
      BY <1>2, <3>1, <3>2 DEF OrderInv, ShelfOrdered, s
    <3>3. CASE t[i] = r
      BY <1>1, <2>5, <2>6, <3>1, <3>3
    <3> QED
      BY <2>2, <3>2, <3>3
  <2> QED
    BY <2>7, <2>8, <2>9 DEF OrderInv
<1> QED
  BY <1>4, <1>5

LEMMA IntakeKeepsOrder ==
    ASSUME MessagesInv, OrderInv, I!IntakeNext, UNCHANGED ses
    PROVE  OrderInv'
<1>1. CASE I!Take
  BY <1>1, TakeKeepsOrder
<1>2. CASE I!Ingest
  <2>1. PICK k \in DOMAIN taken :
          /\ taken' = RemoveAt(taken, k)
          /\ I!Stored(Here, taken[k], "") \/ I!SetAside(Here, taken[k], "")
          /\ UNCHANGED sink
    BY <1>2 DEF I!Ingest, I!RemoveAt, RemoveAt
  <2>2. taken \in Seq(GoodMessages) /\ k = 1 /\ Len(taken) = 1
    <3>1. taken \in Seq(GoodMessages) /\ Len(taken) <= 1
      BY DEF MessagesInv
    <3>2. k \in DOMAIN taken
      BY <2>1
    <3>3. DOMAIN taken = 1 .. Len(taken) /\ Len(taken) \in Nat
      BY <3>1
    <3> HIDE DEF MessagesInv
    <3>4. k = 1 /\ Len(taken) = 1
      BY <3>1, <3>2, <3>3
    <3> QED
      BY <3>1, <3>4
  <2>3. taken' = <<>>
    <3>1. SubSeq(taken, 1, 0) = <<>> /\ SubSeq(taken, 2, 1) = <<>>
      BY <2>2
    <3>2. RemoveAt(taken, k) = <<>> \o <<>>
      BY <2>2, <3>1 DEF RemoveAt
    <3>3. RemoveAt(taken, k) = <<>>
      BY <3>2
    <3> QED
      BY <2>1, <3>3, Zenon
  <2>4. CASE I!Stored(Here, taken[k], "")
    <3>1. DOMAIN taken' = {}
      BY <2>3
    <3>2. InHand(taken[k])
      BY <2>1 DEF InHand
    <3> QED
      BY <2>1, <2>4, <3>1, <3>2, IntakeConstants, StoredKeepsOrder
  <2>5. CASE I!SetAside(Here, taken[k], "")
    BY <2>1, <2>3, <2>5, SetAsideKeepsOrder DEF I!SetAside
  <2> QED
    BY <2>1, <2>4, <2>5
<1>3. ASSUME NEW p \in pushes, I!PushArrives(p) PROVE OrderInv'
  <2> DEFINE msg == [p.msg EXCEPT !.user = "none", !.tls = FALSE]
  <2>1. p.node \in Nodes /\ I!Target(p) \in Nodes
    <3>1. pushUrl \in Targets /\ pushes \subseteq [node : Nodes, msg : Message, state : I!PushStates]
      BY DEF MessagesInv
    <3>2. p.node \in Nodes
      BY <3>1
    <3>3. I!Target(p) # "off"
      BY <1>3 DEF I!PushArrives
    <3> QED
      BY <3>1, <3>2, <3>3, IntakeConstants DEF I!Target
  <2>2. I!Origin(p.node) # ""
    BY <2>1, IntakeConstants
  <2>3. /\ I!Stored(I!Target(p), msg, I!Origin(p.node)) \/ I!SetAside(I!Target(p), msg, I!Origin(p.node))
        /\ UNCHANGED <<sink, taken>>
    BY <1>3 DEF I!PushArrives
  <2> HIDE DEF msg
  <2>4. CASE I!Stored(I!Target(p), msg, I!Origin(p.node))
    BY <2>1, <2>2, <2>3, <2>4, StoredKeepsOrder
  <2>5. CASE I!SetAside(I!Target(p), msg, I!Origin(p.node))
    BY <2>3, <2>5, SetAsideKeepsOrder DEF I!SetAside
  <2> QED
    BY <2>3, <2>4, <2>5
<1>4. CASE UNCHANGED <<sink, taken, shelf>>
  BY <1>4, SetAsideKeepsOrder
<1> QED
  BY <1>1, <1>2, <1>3, <1>4 DEF I!IntakeNext, I!SetPushUrl, I!PushNowhere, I!PushFails,
     I!PushRefused, I!PushAgain

-----------------------------------------------------------------------------
LEMMA OrderInit == Init => OrderInv
<1> SUFFICES ASSUME Init PROVE OrderInv
  OBVIOUS
<1>1. sink = <<>> /\ taken = <<>> /\ shelf[Here] = <<>>
  BY IntakeConstants DEF Init, ServerInit, I!IntakeInit
<1> QED
  BY <1>1 DEF OrderInv, BehindSessions, SinkOrdered, ShelfOrdered

LEMMA OrderStep == SessionInv /\ SessionInv' /\ MessagesInv /\ OrderInv /\ [Next]_vars => OrderInv'
<1> SUFFICES ASSUME SessionInv, SessionInv', MessagesInv, OrderInv, [Next]_vars PROVE OrderInv'
  OBVIOUS
<1>1. ASSUME UNCHANGED <<sink, ses, intakeOnly>> PROVE OrderInv'
  BY <1>1, SetAsideKeepsOrder DEF intakeOnly
<1>2. ASSUME UNCHANGED intakeOnly, NEW c \in Conns,
             \/ Dialog(c) \/ Accept(c) \/ HandshakeDone(c) \/ HandshakeFailed(c)
      PROVE  OrderInv'
  BY <1>2, ServerKeepsOrder DEF intakeOnly
<1>3. CASE UNCHANGED vars
  BY <1>1, <1>3 DEF vars, serverVars
<1>4. CASE Mailing
  BY <1>1, <1>4 DEF Mailing
<1>5. CASE Taking
  BY <1>5, IntakeKeepsOrder DEF Taking
<1>6. CASE SetUp
  BY <1>1, <1>6 DEF SetUp, SetRuntime
<1>7. ASSUME NEW c \in Conns, Serve(c) \/ Handshake(c) \/ Lobby(c) PROVE OrderInv'
  BY <1>2, <1>7 DEF Serve, Handshake, Lobby, C!Upgraded
<1>8. ASSUME NEW c \in Conns, Peer(c) PROVE OrderInv'
  BY <1>1, <1>8 DEF Peer, DeviceSends, HangsUp
<1> QED
  BY <1>3, <1>4, <1>5, <1>6, <1>7, <1>8 DEF Next

(* However many connections deliver at once, however full the channel is   *)
(* and whatever is pushed here meanwhile, the messages of one connection   *)
(* are stored in the order they were accepted (deliver of session.rs,      *)
(* Pipeline::run, ingest_from).                                            *)
THEOREM OrderTheorem == Spec => []StoredInOrder
<1>1. Init => OrderInv
  BY OrderInit
<1>2. SessionInv /\ SessionInv' /\ MessagesInv /\ OrderInv /\ [Next]_vars => OrderInv'
  BY OrderStep
<1>3. OrderInv => StoredInOrder
  BY DEF OrderInv, ShelfOrdered, StoredInOrder, ByMail, Before
<1> QED
  BY <1>1, <1>2, <1>3, SessionsCorrect, MessagesCorrect, PTL DEF Spec

-----------------------------------------------------------------------------
(***************************************************************************)
(* No forwarding loop.  A message is stored once as mailed; the push made  *)
(* of it goes through the states of the retry queue and ends when the far  *)
(* side's answer is heard.  So the copies that were pushed are as many as  *)
(* the answers that got lost, and one more once an answer was heard.       *)
(***************************************************************************)
Keys == Conns \X Nat

PushedCopies(key) == {x \in I!Copies(key) : shelf[x[1]][x[2]].origin # ""}
PushOf(key) == {p \in pushes : I!Key(p.msg) = key}

(* Mail comes in here, and only what came in by mail is pushed, once.      *)
PushesAreOfMail ==
    /\ \A n \in Nodes : \A i \in DOMAIN shelf[n] : ByMail(shelf[n][i]) => n = Here
    /\ \A p \in pushes :
          /\ p.node = Here
          /\ \E i \in DOMAIN shelf[Here] :
                ByMail(shelf[Here][i]) /\ I!Key(shelf[Here][i].msg) = I!Key(p.msg)
    /\ \A p, q \in pushes : I!Key(p.msg) = I!Key(q.msg) => p = q

Counted(key) ==
    /\ IsFiniteSet(PushedCopies(key))
    /\ IsFiniteSet(I!LostOf(key))
    /\ \A x \in I!LostOf(key) : x.nth \in Nat /\ x.nth < Cardinality(I!LostOf(key))
    /\ Cardinality(PushedCopies(key)) <= Cardinality(I!LostOf(key)) + 1
    /\ (\A p \in PushOf(key) : p.state # "sent") =>
          Cardinality(PushedCopies(key)) <= Cardinality(I!LostOf(key))

ForwardInv == PushesAreOfMail /\ \A key \in Keys : Counted(key)

(* Which copies are those that were pushed.                                *)
LEMMA CopiesHere ==
    ASSUME NEW s, NEW key, NEW x, NEW all, all = UNION {{n} \X DOMAIN s[n] : n \in Nodes}
    PROVE  x \in {y \in {z \in all : I!Key(s[z[1]][z[2]].msg) = key} : s[y[1]][y[2]].origin # ""}
             <=> \E m \in Nodes : \E i \in DOMAIN s[m] :
                     x = <<m, i>> /\ s[m][i].origin # "" /\ I!Key(s[m][i].msg) = key
<1> DEFINE Good(y) == I!Key(s[y[1]][y[2]].msg) = key /\ s[y[1]][y[2]].origin # ""
<1>1. x \in all <=> \E m \in Nodes : x \in {m} \X DOMAIN s[m]
  OBVIOUS
<1>2. \A m \in Nodes : x \in {m} \X DOMAIN s[m] <=> \E i \in DOMAIN s[m] : x = <<m, i>>
  OBVIOUS
<1>3. ASSUME NEW m \in Nodes, NEW i \in DOMAIN s[m], x = <<m, i>>
      PROVE  Good(x) <=> s[m][i].origin # "" /\ I!Key(s[m][i].msg) = key
  <2>1. x[1] = m /\ x[2] = i
    BY <1>3
  <2> QED
    BY <2>1
<1>4. x \in {y \in {z \in all : I!Key(s[z[1]][z[2]].msg) = key} : s[y[1]][y[2]].origin # ""}
        <=> x \in all /\ Good(x)
  OBVIOUS
<1> HIDE DEF Good
<1>5. ASSUME x \in all, Good(x)
      PROVE  \E m \in Nodes : \E i \in DOMAIN s[m] :
                 x = <<m, i>> /\ s[m][i].origin # "" /\ I!Key(s[m][i].msg) = key
  <2>1. PICK m \in Nodes : x \in {m} \X DOMAIN s[m]
    BY <1>1, <1>5
  <2>2. PICK i \in DOMAIN s[m] : x = <<m, i>>
    BY <1>2, <2>1
  <2> QED
    BY <1>3, <1>5, <2>2, Zenon
<1>6. ASSUME NEW m \in Nodes, NEW i \in DOMAIN s[m], x = <<m, i>>,
             s[m][i].origin # "", I!Key(s[m][i].msg) = key
      PROVE  x \in all /\ Good(x)
  <2>1. Good(x)
    BY <1>3, <1>6, Zenon
  <2>2. x \in all
    BY <1>1, <1>2, <1>6, Zenon
  <2> QED
    BY <2>1, <2>2
<1> QED
  BY <1>4, <1>5, <1>6, Zenon

(* A record is added: the pushed copies of its message are one more if it  *)
(* was pushed, those of other messages stay as they are.                   *)
LEMMA CopiesAfter ==
    ASSUME MessagesInv, NEW n \in Nodes, NEW msg, NEW origin, I!Stored(n, msg, origin), NEW key
    PROVE  PushedCopies(key)' =
               PushedCopies(key) \cup
               IF origin # "" /\ I!Key(msg) = key THEN {<<n, Len(shelf[n]) + 1>>} ELSE {}
<1> DEFINE r == [msg |-> msg, origin |-> origin]
           end == Len(shelf[n]) + 1
           more == IF origin # "" /\ I!Key(msg) = key THEN {<<n, end>>} ELSE {}
           Is(s, x) == \E m \in Nodes : \E i \in DOMAIN s[m] :
                           x = <<m, i>> /\ s[m][i].origin # "" /\ I!Key(s[m][i].msg) = key
<1>1. shelf \in [Nodes -> Seq(GoodRecords)] /\ shelf[n] \in Seq(GoodRecords)
  BY DEF MessagesInv
<1>2. r.msg = msg /\ r.origin = origin
  OBVIOUS
<1>3. shelf' = [shelf EXCEPT ![n] = Append(shelf[n], r)]
  BY DEF I!Stored
<1> HIDE DEF r
<1>4. \A x : x \in PushedCopies(key) <=> Is(shelf, x)
  BY CopiesHere DEF PushedCopies, I!Copies
<1>5. \A x : x \in PushedCopies(key)' <=> Is(shelf', x)
  BY CopiesHere DEF PushedCopies, I!Copies
<1>6. \A m \in Nodes \ {n} : shelf'[m] = shelf[m]
  BY <1>1, <1>3
<1>7. /\ DOMAIN shelf'[n] = DOMAIN shelf[n] \cup {end} /\ end \notin DOMAIN shelf[n]
      /\ \A i \in DOMAIN shelf[n] : shelf'[n][i] = shelf[n][i]
      /\ shelf'[n][end] = r
  <2>1. shelf'[n] = Append(shelf[n], r)
    BY <1>1, <1>3
  <2> DEFINE s == shelf[n]
  <2>2. s \in Seq(GoodRecords)
    BY <1>1
  <2> HIDE DEF s
  <2>3. Len(s) \in Nat /\ DOMAIN s = 1 .. Len(s) /\ DOMAIN Append(s, r) = 1 .. Len(s) + 1
        /\ Append(s, r)[Len(s) + 1] = r /\ \A i \in 1 .. Len(s) : Append(s, r)[i] = s[i]
    BY <2>2
  <2> QED
    BY <2>1, <2>3 DEF s
<1>8. ASSUME NEW x PROVE Is(shelf', x) <=> Is(shelf, x) \/ x \in more
  <2>1. ASSUME NEW m \in Nodes, NEW i \in DOMAIN shelf[m], x = <<m, i>>,
               shelf[m][i].origin # "", I!Key(shelf[m][i].msg) = key
        PROVE  Is(shelf', x)
    BY <1>6, <1>7, <2>1
  <2>2. ASSUME NEW m \in Nodes, NEW i \in DOMAIN shelf'[m], x = <<m, i>>,
               shelf'[m][i].origin # "", I!Key(shelf'[m][i].msg) = key
        PROVE  Is(shelf, x) \/ x \in more
    <3>1. CASE i \in DOMAIN shelf[m] /\ shelf'[m][i] = shelf[m][i]
      BY <2>2, <3>1
    <3>2. CASE m = n /\ i = end
      BY <1>2, <1>7, <2>2, <3>2
    <3> QED
      BY <1>6, <1>7, <2>2, <3>1, <3>2
  <2>3. ASSUME x \in more PROVE Is(shelf', x)
    BY <1>2, <1>7, <2>3
  <2> QED
    BY <2>1, <2>2, <2>3
<1> HIDE DEF Is, more
<1>9. PushedCopies(key)' = PushedCopies(key) \cup more
  BY <1>4, <1>5, <1>8
<1> QED
  BY <1>9 DEF more

LEMMA CopiesRest ==
    ASSUME NEW key, UNCHANGED shelf PROVE PushedCopies(key)' = PushedCopies(key)
BY DEF PushedCopies, I!Copies

LEMMA ForwardRests ==
    ASSUME ForwardInv, UNCHANGED <<shelf, pushes, lost>>
    PROVE  ForwardInv'
<1>1. PushesAreOfMail'
  BY DEF ForwardInv, PushesAreOfMail
<1>2. \A key \in Keys : PushedCopies(key)' = PushedCopies(key)
  BY CopiesRest
<1>3. \A key \in Keys : I!LostOf(key)' = I!LostOf(key) /\ PushOf(key)' = PushOf(key)
  BY DEF I!LostOf, PushOf
<1> QED
  BY <1>1, <1>2, <1>3 DEF ForwardInv, Counted

(* A push goes on to another state: it is still the one of its message.    *)
LEMMA PushGoesOn ==
    ASSUME MessagesInv, ForwardInv, NEW p \in pushes, NEW state, pushes' = I!Becomes(p, state)
    PROVE  /\ I!Key(p.msg) \in Keys
           /\ p \in PushOf(I!Key(p.msg)) /\ \A q \in PushOf(I!Key(p.msg)) : q = p
           /\ \A q \in PushOf(I!Key(p.msg))' : q.state = state
           /\ PushOf(I!Key(p.msg))' # {}
           /\ \A key \in Keys : key # I!Key(p.msg) => PushOf(key)' = PushOf(key)
           /\ \A q \in pushes' : \E o \in pushes : q.node = o.node /\ q.msg = o.msg
           /\ \A q, r \in pushes' : I!Key(q.msg) = I!Key(r.msg) => q = r
<1> DEFINE t == [p EXCEPT !.state = state]
<1>1. p \in [node : Nodes, msg : Message, state : I!PushStates]
  BY DEF MessagesInv
<1>2. t.node = p.node /\ t.msg = p.msg /\ t.state = state
  BY <1>1
<1>3. pushes' = (pushes \ {p}) \cup {t}
  BY DEF I!Becomes
<1> HIDE DEF t
<1>4. I!Key(p.msg) \in Keys
  BY <1>1 DEF I!Key, Keys, Message
<1>5. \A q \in pushes : I!Key(q.msg) = I!Key(p.msg) => q = p
  BY DEF ForwardInv, PushesAreOfMail
<1>6. PushOf(I!Key(p.msg))' = {t} /\ PushOf(I!Key(p.msg)) = {p}
  BY <1>2, <1>3, <1>5 DEF PushOf
<1>7. \A key \in Keys : key # I!Key(p.msg) => PushOf(key)' = PushOf(key)
  BY <1>2, <1>3 DEF PushOf
<1>8. \A q \in pushes' : \E o \in pushes : q.node = o.node /\ q.msg = o.msg
  BY <1>2, <1>3
<1>9. \A q, r \in pushes' : I!Key(q.msg) = I!Key(r.msg) => q = r
  BY <1>2, <1>3, <1>5 DEF ForwardInv, PushesAreOfMail
<1> QED
  BY <1>2, <1>4, <1>6, <1>7, <1>8, <1>9

LEMMA PushMoves ==
    ASSUME MessagesInv, ForwardInv, NEW p \in pushes, NEW state, pushes' = I!Becomes(p, state),
           p.state # "sent", UNCHANGED <<shelf, lost>>
    PROVE  ForwardInv'
<1>1. PushesAreOfMail'
  BY PushGoesOn DEF ForwardInv, PushesAreOfMail
<1>2. ASSUME NEW key \in Keys PROVE Counted(key)'
  <2>1. PushedCopies(key)' = PushedCopies(key) /\ I!LostOf(key)' = I!LostOf(key)
    BY CopiesRest DEF I!LostOf
  <2>2. Counted(key)
    BY DEF ForwardInv
  <2>3. CASE key = I!Key(p.msg)
    <3>1. \A q \in PushOf(key) : q.state # "sent"
      BY <2>3, PushGoesOn
    <3> QED
      BY <2>1, <2>2, <3>1 DEF Counted
  <2>4. CASE key # I!Key(p.msg)
    <3>1. PushOf(key)' = PushOf(key)
      BY <2>4, PushGoesOn
    <3> QED
      BY <2>1, <2>2, <3>1 DEF Counted
  <2> QED
    BY <2>3, <2>4
<1> QED
  BY <1>1, <1>2 DEF ForwardInv

LEMMA ShelvesGrow ==
    ASSUME MessagesInv, NEW n \in Nodes, NEW msg, NEW origin, I!Stored(n, msg, origin)
    PROVE  /\ \A m \in Nodes : \A i \in DOMAIN shelf[m] :
                  i \in DOMAIN shelf'[m] /\ shelf'[m][i] = shelf[m][i]
           /\ \A m \in Nodes : \A i \in DOMAIN shelf'[m] :
                  \/ i \in DOMAIN shelf[m] /\ shelf'[m][i] = shelf[m][i]
                  \/ m = n /\ shelf'[m][i].msg = msg /\ shelf'[m][i].origin = origin
           /\ \E i \in DOMAIN shelf'[n] : shelf'[n][i].msg = msg /\ shelf'[n][i].origin = origin
<1> DEFINE r == [msg |-> msg, origin |-> origin]
           s == shelf[n]
           end == Len(s) + 1
<1>1. shelf \in [Nodes -> Seq(GoodRecords)] /\ s \in Seq(GoodRecords)
  BY DEF MessagesInv
<1>2. r.msg = msg /\ r.origin = origin
  OBVIOUS
<1>3. shelf' = [shelf EXCEPT ![n] = Append(s, r)]
  BY DEF I!Stored
<1> HIDE DEF r
<1>4. shelf'[n] = Append(s, r) /\ \A m \in Nodes \ {n} : shelf'[m] = shelf[m]
  BY <1>1, <1>3
<1>5. s = shelf[n]
  OBVIOUS
<1> HIDE DEF s
<1>6. /\ DOMAIN Append(s, r) = DOMAIN s \cup {end}
      /\ \A i \in DOMAIN s : Append(s, r)[i] = s[i]
      /\ Append(s, r)[end] = r
  BY <1>1
<1> HIDE DEF end
<1> QED
  BY <1>2, <1>4, <1>5, <1>6

LEMMA OneMoreIsNoLess == \A a, b \in Nat : a <= b => a <= b + 1
OBVIOUS

LEMMA CountsUp ==
    ASSUME NEW A, NEW B, NEW x, B = A \/ B = A \cup {x}, NEW L, NEW l,
           IsFiniteSet(A), IsFiniteSet(L), Cardinality(A) <= Cardinality(L),
           \A y \in L : y.nth \in Nat /\ y.nth < Cardinality(L), l.nth = Cardinality(L)
    PROVE  /\ IsFiniteSet(B) /\ Cardinality(B) <= Cardinality(L) + 1
           /\ IsFiniteSet(L \cup {l}) /\ Cardinality(B) <= Cardinality(L \cup {l})
           /\ \A y \in L \cup {l} : y.nth \in Nat /\ y.nth < Cardinality(L \cup {l})
<1> DEFINE M == L \cup {l}
           c == Cardinality(A)
           d == Cardinality(B)
           k == Cardinality(L)
           m == Cardinality(M)
<1>1. c \in Nat /\ k \in Nat
  BY FS_CardinalityType
<1>2. l \notin L
  BY <1>1
<1>3. IsFiniteSet(M) /\ m = k + 1
  BY <1>2, FS_AddElement
<1>4. IsFiniteSet(B) /\ d \in {c, c + 1}
  BY FS_AddElement
<1>5. \A y \in L : y.nth \in Nat /\ y.nth < k
  OBVIOUS
<1>6. l.nth = k /\ c <= k
  OBVIOUS
<1> HIDE DEF c, d, k, m
<1>7. d <= k + 1 /\ d <= m
  BY <1>1, <1>3, <1>4, <1>6
<1>8. \A y \in M : y.nth \in Nat /\ y.nth < m
  BY <1>1, <1>3, <1>5, <1>6
<1> QED
  BY <1>3, <1>4, <1>7, <1>8 DEF d, k, m

ByPush(origin) == origin # ""

(* What arrives by a push adds no mail.                                    *)
LEMMA NoMailAdded ==
    ASSUME MessagesInv, PushesAreOfMail, NEW n \in Nodes, NEW msg, NEW origin, ByPush(origin),
           I!Stored(n, msg, origin) \/ shelf' = shelf
    PROVE  /\ \A i \in DOMAIN shelf[Here] :
                 i \in DOMAIN shelf'[Here] /\ shelf'[Here][i] = shelf[Here][i]
           /\ \A m \in Nodes : \A i \in DOMAIN shelf'[m] : ByMail(shelf'[m][i]) => m = Here
<1>1. CASE shelf' = shelf
  BY <1>1 DEF PushesAreOfMail
<1>2. CASE I!Stored(n, msg, origin)
  <2>1. \A m \in Nodes : \A i \in DOMAIN shelf'[m] :
           \/ i \in DOMAIN shelf[m] /\ shelf'[m][i] = shelf[m][i]
           \/ shelf'[m][i].origin = origin
    BY <1>2, ShelvesGrow
  <2>2. \A m \in Nodes : \A i \in DOMAIN shelf'[m] : ByMail(shelf'[m][i]) => m = Here
    BY <2>1 DEF PushesAreOfMail, ByMail, ByPush
  <2> QED
    BY <1>2, <2>2, ShelvesGrow, IntakeConstants
<1> QED
  BY <1>1, <1>2

LEMMA MailStays ==
    ASSUME PushesAreOfMail,
           \A i \in DOMAIN shelf[Here] :
              i \in DOMAIN shelf'[Here] /\ shelf'[Here][i] = shelf[Here][i],
           \A m \in Nodes : \A i \in DOMAIN shelf'[m] : ByMail(shelf'[m][i]) => m = Here,
           \A q \in pushes' : \E o \in pushes : q.node = o.node /\ q.msg = o.msg,
           \A q, r \in pushes' : I!Key(q.msg) = I!Key(r.msg) => q = r
    PROVE  PushesAreOfMail'
BY DEF PushesAreOfMail

LEMMA OthersCopies ==
    ASSUME MessagesInv, NEW n \in Nodes, NEW msg, NEW origin, NEW key, I!Key(msg) # key,
           I!Stored(n, msg, origin) \/ shelf' = shelf
    PROVE  PushedCopies(key)' = PushedCopies(key)
<1>1. CASE I!Stored(n, msg, origin)
  BY <1>1, CopiesAfter
<1> QED
  BY <1>1, CopiesRest

HeardOrLost(p) ==
    \/ pushes' = I!Becomes(p, "sent") /\ UNCHANGED lost
    \/ /\ pushes' = I!Becomes(p, "queued")
       /\ lost' = lost \cup {[key |-> I!Key(p.msg), nth |-> Cardinality(I!LostOf(I!Key(p.msg)))]}

(* The far side has done its part: one more copy if it stored the message, *)
(* and the push is over or one more answer is lost.                        *)
LEMMA ArrivalCounts ==
    ASSUME MessagesInv, ForwardInv, NEW p \in pushes, p.state = "sending",
           NEW n \in Nodes, NEW msg, NEW origin, origin # "", I!Key(msg) = I!Key(p.msg),
           I!Stored(n, msg, origin) \/ shelf' = shelf,
           HeardOrLost(p)
    PROVE  ForwardInv'
<1> DEFINE K == I!Key(p.msg)
           l == [key |-> K, nth |-> Cardinality(I!LostOf(K))]
           here == <<n, Len(shelf[n]) + 1>>
<1>1. /\ K \in Keys /\ p \in PushOf(K) /\ \A q \in PushOf(K) : q = p
      /\ PushOf(K)' # {}
      /\ \A key \in Keys : key # K => PushOf(key)' = PushOf(key)
      /\ \A q \in pushes' : \E o \in pushes : q.node = o.node /\ q.msg = o.msg
      /\ \A q, r \in pushes' : I!Key(q.msg) = I!Key(r.msg) => q = r
  BY PushGoesOn DEF HeardOrLost
<1>2. l.key = K /\ l.nth = Cardinality(I!LostOf(K))
  OBVIOUS
<1>3. \/ UNCHANGED lost /\ \A q \in PushOf(K)' : q.state = "sent"
      \/ lost' = lost \cup {l} /\ \A q \in PushOf(K)' : q.state = "queued"
  BY PushGoesOn DEF HeardOrLost
<1> HIDE DEF l
<1>4. PushesAreOfMail'
  <2>1. PushesAreOfMail
    BY DEF ForwardInv
  <2> QED
    BY <1>1, <2>1, NoMailAdded, MailStays DEF ByPush
<1>5. ASSUME NEW key \in Keys, key # K PROVE Counted(key)'
  <2>1. PushedCopies(key)' = PushedCopies(key)
    BY <1>5, OthersCopies
  <2>2. I!LostOf(key)' = I!LostOf(key)
    BY <1>2, <1>3, <1>5 DEF I!LostOf
  <2> QED
    BY <1>1, <1>5, <2>1, <2>2 DEF ForwardInv, Counted
<1>6. Counted(K)'
  <2>1. /\ IsFiniteSet(PushedCopies(K)) /\ IsFiniteSet(I!LostOf(K))
        /\ \A x \in I!LostOf(K) : x.nth \in Nat /\ x.nth < Cardinality(I!LostOf(K))
        /\ Cardinality(PushedCopies(K)) <= Cardinality(I!LostOf(K))
    BY <1>1 DEF ForwardInv, Counted
  <2>2. PushedCopies(K)' = PushedCopies(K) \/ PushedCopies(K)' = PushedCopies(K) \cup {here}
    <3>1. CASE I!Stored(n, msg, origin)
      BY <3>1, CopiesAfter
    <3> QED
      BY <3>1, CopiesRest
  <2> HIDE DEF here
  <2>3. /\ IsFiniteSet(PushedCopies(K)')
        /\ Cardinality(PushedCopies(K)') <= Cardinality(I!LostOf(K)) + 1
        /\ IsFiniteSet(I!LostOf(K) \cup {l})
        /\ Cardinality(PushedCopies(K)') <= Cardinality(I!LostOf(K) \cup {l})
        /\ \A y \in I!LostOf(K) \cup {l} :
              y.nth \in Nat /\ y.nth < Cardinality(I!LostOf(K) \cup {l})
    <3> HIDE DEF K
    <3> QED
      BY <1>2, <2>1, <2>2, CountsUp
  <2>4. CASE UNCHANGED lost /\ \A q \in PushOf(K)' : q.state = "sent"
    <3>1. I!LostOf(K)' = I!LostOf(K)
      BY <2>4 DEF I!LostOf
    <3>2. ~ \A q \in PushOf(K)' : q.state # "sent"
      BY <1>1, <2>4
    <3> HIDE DEF K
    <3> QED
      BY <2>1, <2>3, <3>1, <3>2 DEF Counted
  <2>5. CASE lost' = lost \cup {l}
    <3>1. I!LostOf(K)' = I!LostOf(K) \cup {l}
      BY <1>2, <2>5 DEF I!LostOf
    <3>2. IsFiniteSet(I!LostOf(K)') /\ Cardinality(I!LostOf(K)') \in Nat
      BY <2>3, <3>1, FS_CardinalityType
    <3>3. Cardinality(PushedCopies(K)') \in Nat
      BY <2>3, FS_CardinalityType
    <3> HIDE DEF K
    <3>4. Cardinality(PushedCopies(K)') <= Cardinality(I!LostOf(K)')
      BY <2>3, <3>1
    <3>5. Cardinality(PushedCopies(K)') <= Cardinality(I!LostOf(K)') + 1
      BY <3>2, <3>3, <3>4, OneMoreIsNoLess, Zenon
    <3> QED
      BY <2>3, <3>1, <3>4, <3>5 DEF Counted
  <2> QED
    BY <1>3, <2>4, <2>5
<1> QED
  BY <1>4, <1>5, <1>6 DEF ForwardInv

LEMMA MailedOrPushed ==
    ASSUME NEW r, NEW origin, r.origin = origin, ~ ByPush(origin) PROVE ByMail(r)
BY DEF ByPush, ByMail

LEMMA MailedShelf ==
    ASSUME MessagesInv, NEW msg, NEW origin, ~ ByPush(origin), I!Stored(Here, msg, origin)
    PROVE  /\ \A m \in Nodes : \A i \in DOMAIN shelf[m] :
                 i \in DOMAIN shelf'[m] /\ shelf'[m][i] = shelf[m][i]
           /\ \A m \in Nodes : \A i \in DOMAIN shelf'[m] :
                 (i \in DOMAIN shelf[m] /\ shelf'[m][i] = shelf[m][i]) \/ m = Here
           /\ \E i \in DOMAIN shelf'[Here] : shelf'[Here][i].msg = msg /\ ByMail(shelf'[Here][i])
<1>1. Here \in Nodes
  BY IntakeConstants
<1>2. \E i \in DOMAIN shelf'[Here] : shelf'[Here][i].msg = msg /\ shelf'[Here][i].origin = origin
  BY <1>1, ShelvesGrow
<1>3. \A i \in DOMAIN shelf'[Here] : shelf'[Here][i].origin = origin => ByMail(shelf'[Here][i])
  BY MailedOrPushed
<1>4. \A m \in Nodes : \A i \in DOMAIN shelf[m] :
         i \in DOMAIN shelf'[m] /\ shelf'[m][i] = shelf[m][i]
  BY <1>1, ShelvesGrow
<1>5. \A m \in Nodes : \A i \in DOMAIN shelf'[m] :
         (i \in DOMAIN shelf[m] /\ shelf'[m][i] = shelf[m][i]) \/ m = Here
  BY <1>1, ShelvesGrow
<1> QED
  BY <1>2, <1>3, <1>4, <1>5, Zenon

(* Nothing of the message in hand was pushed before.                       *)
LEMMA NothingPushedYet ==
    ASSUME MessagesInv, OrderInv, PushesAreOfMail, NEW k \in DOMAIN taken
    PROVE  \A q \in pushes : I!Key(q.msg) # I!Key(taken[k])
<1>1. \A i \in DOMAIN shelf[Here] :
         ByMail(shelf[Here][i]) => Before(shelf[Here][i].msg, taken[k])
  BY DEF OrderInv, ShelfOrdered
<1>2. taken[k] \in Message /\ \A i \in DOMAIN shelf[Here] : shelf[Here][i].msg \in Message
  <2>1. GoodMessages \subseteq Message /\ \A r \in GoodRecords : r.msg \in Message
    BY DEF GoodMessages, GoodRecords
  <2>2. taken \in Seq(GoodMessages) /\ shelf[Here] \in Seq(GoodRecords)
    BY IntakeConstants DEF MessagesInv
  <2>3. taken[k] \in GoodMessages
    BY <2>2
  <2>4. \A i \in DOMAIN shelf[Here] : shelf[Here][i] \in GoodRecords
    BY <2>2
  <2> QED
    BY <2>1, <2>3, <2>4
<1>3. \A a, b \in Message : Before(a, b) => I!Key(a) # I!Key(b)
  BY DEF Before, I!Key, Message
<1>4. \A i \in DOMAIN shelf[Here] :
         ByMail(shelf[Here][i]) => I!Key(shelf[Here][i].msg) # I!Key(taken[k])
  BY <1>1, <1>2, <1>3
<1> QED
  BY <1>4 DEF PushesAreOfMail

LEMMA MailPushed ==
    ASSUME PushesAreOfMail, NEW msg, NEW p, p.node = Here, p.msg = msg, NEW new, new \subseteq {p},
           pushes' = pushes \cup new,
           \A q \in pushes : I!Key(q.msg) # I!Key(msg),
           \A m \in Nodes : \A i \in DOMAIN shelf[m] :
              i \in DOMAIN shelf'[m] /\ shelf'[m][i] = shelf[m][i],
           \A m \in Nodes : \A i \in DOMAIN shelf'[m] :
              (i \in DOMAIN shelf[m] /\ shelf'[m][i] = shelf[m][i]) \/ m = Here,
           \E i \in DOMAIN shelf'[Here] : shelf'[Here][i].msg = msg /\ ByMail(shelf'[Here][i])
    PROVE  PushesAreOfMail'
<1>1. \A q \in pushes' : q \in pushes \/ q = p
  OBVIOUS
<1>2. ASSUME NEW q \in pushes'
      PROVE  q.node = Here /\ \E i \in DOMAIN shelf'[Here] :
                 ByMail(shelf'[Here][i]) /\ I!Key(shelf'[Here][i].msg) = I!Key(q.msg)
  <2>1. CASE q \in pushes
    <3>1. q.node = Here
      BY <2>1 DEF PushesAreOfMail
    <3>2. PICK i \in DOMAIN shelf[Here] :
             ByMail(shelf[Here][i]) /\ I!Key(shelf[Here][i].msg) = I!Key(q.msg)
      BY <2>1 DEF PushesAreOfMail
    <3>3. i \in DOMAIN shelf'[Here] /\ shelf'[Here][i] = shelf[Here][i]
      BY IntakeConstants
    <3> QED
      BY <3>1, <3>2, <3>3, Zenon
  <2>2. CASE q = p
    BY <2>2
  <2> QED
    BY <1>1, <2>1, <2>2
<1>3. \A q, r \in pushes' : I!Key(q.msg) = I!Key(r.msg) => q = r
  BY <1>1 DEF PushesAreOfMail
<1>4. \A m \in Nodes : \A i \in DOMAIN shelf'[m] : ByMail(shelf'[m][i]) => m = Here
  BY DEF PushesAreOfMail
<1> QED
  BY <1>2, <1>3, <1>4 DEF PushesAreOfMail

LEMMA MailedStay ==
    ASSUME MessagesInv, NEW msg, NEW origin, ~ ByPush(origin), I!Stored(Here, msg, origin), NEW key
    PROVE  PushedCopies(key)' = PushedCopies(key)
<1>1. Here \in Nodes /\ ~ (origin # "")
  BY IntakeConstants DEF ByPush
<1> QED
  BY <1>1, CopiesAfter

(* The message in hand is stored, and pushed if there is a target.         *)
LEMMA IngestCounts ==
    ASSUME MessagesInv, OrderInv, ForwardInv, NEW k \in DOMAIN taken,
           NEW origin, ~ ByPush(origin), I!Stored(Here, taken[k], origin), UNCHANGED lost,
           NEW p, p.node = Here, p.msg = taken[k], NEW new, new \subseteq {p},
           pushes' = pushes \cup new
    PROVE  ForwardInv'
<1> DEFINE K == I!Key(taken[k])
<1>1. PushesAreOfMail
  BY DEF ForwardInv
<1>2. \A q \in pushes : I!Key(q.msg) # K
  BY <1>1, NothingPushedYet
<1>3. PushesAreOfMail'
  BY <1>1, <1>2, MailedShelf, MailPushed
<1>4. ASSUME NEW key \in Keys PROVE Counted(key)'
  <2>1. PushedCopies(key)' = PushedCopies(key)
    BY MailedStay
  <2>2. I!LostOf(key)' = I!LostOf(key)
    BY DEF I!LostOf
  <2>3. key = K => \A q \in PushOf(key) : q.state # "sent"
    BY <1>2 DEF PushOf
  <2>4. PushOf(key) \subseteq PushOf(key)'
    BY DEF PushOf
  <2>5. key # K => PushOf(key)' = PushOf(key)
    BY DEF PushOf
  <2>6. key = K => PushOf(key) = {}
    BY <1>2 DEF PushOf
  <2>7. Counted(key)
    BY DEF ForwardInv
  <2> HIDE DEF K
  <2>8. (\A q \in PushOf(key)' : q.state # "sent") => \A q \in PushOf(key) : q.state # "sent"
    BY <2>4
  <2> QED
    BY <2>1, <2>2, <2>7, <2>8 DEF Counted
<1> QED
  BY <1>3, <1>4 DEF ForwardInv

LEMMA ForwardInit == Init => ForwardInv
<1> SUFFICES ASSUME Init PROVE ForwardInv
  OBVIOUS
<1>1. shelf = [n \in Nodes |-> <<>>] /\ pushes = {} /\ lost = {}
  BY DEF Init, I!IntakeInit
<1>2. \A n \in Nodes : DOMAIN shelf[n] = {}
  BY <1>1
<1>3. PushesAreOfMail
  BY <1>1, <1>2, IntakeConstants DEF PushesAreOfMail
<1>4. ASSUME NEW key \in Keys PROVE Counted(key)
  <2>1. PushedCopies(key) = {}
    BY <1>2 DEF PushedCopies, I!Copies
  <2>2. I!LostOf(key) = {}
    BY <1>1 DEF I!LostOf
  <2>3. IsFiniteSet({}) /\ Cardinality({}) = 0
    BY FS_EmptySet
  <2> QED
    BY <2>1, <2>2, <2>3 DEF Counted
<1> QED
  BY <1>3, <1>4 DEF ForwardInv

IsMail(msg) == I!Stored(Here, msg, "")
MailPushes(msg) == I!Pushed(Here, msg, "")

LEMMA IngestStep ==
    ASSUME I!Ingest
    PROVE  \/ UNCHANGED <<shelf, pushes, lost>>
           \/ \E k \in DOMAIN taken : /\ IsMail(taken[k])
                                      /\ pushes' = pushes \cup MailPushes(taken[k])
                                      /\ UNCHANGED lost
BY DEF I!Ingest, I!SetAside, IsMail, MailPushes

LEMMA MailIsNotPushed ==
    \E origin : ~ ByPush(origin) /\ \A msg : I!Stored(Here, msg, origin) <=> IsMail(msg)
BY DEF ByPush, IsMail

LEMMA OnePush ==
    ASSUME NEW msg
    PROVE  \E p : p.node = Here /\ p.msg = msg /\ MailPushes(msg) \subseteq {p}
<1> DEFINE p == [node |-> Here, msg |-> msg, state |-> "sending"]
<1>1. p.node = Here /\ p.msg = msg
  OBVIOUS
<1>2. MailPushes(msg) \subseteq {p}
  BY DEF MailPushes, I!Pushed
<1> HIDE DEF p
<1> QED
  BY <1>1, <1>2

LEMMA SameCount == \A S : I!Cardinality(S) = Cardinality(S)
BY DEF I!Cardinality, Cardinality

(* A message that was pushed here is not pushed on.                        *)
LEMMA ArrivesOnce ==
    ASSUME MessagesInv, NEW p \in pushes, I!PushArrives(p)
    PROVE  /\ p.state = "sending"
           /\ HeardOrLost(p)
           /\ \E n \in Nodes : \E msg : \E origin :
                 /\ origin # "" /\ I!Key(msg) = I!Key(p.msg)
                 /\ I!Stored(n, msg, origin) \/ shelf' = shelf
<1> DEFINE msg == [p.msg EXCEPT !.user = "none", !.tls = FALSE]
           n == I!Target(p)
           origin == I!Origin(p.node)
<1>1. pushUrl \in Targets /\ p.node \in Nodes /\ p.msg \in Message
  BY DEF MessagesInv
<1>2. n \in Nodes /\ origin # ""
  BY <1>1, IntakeConstants DEF I!Target, I!PushArrives
<1>3. I!Key(msg) = I!Key(p.msg)
  BY <1>1 DEF I!Key, Message
<1>4. I!Pushed(n, msg, origin) = {}
  BY <1>2 DEF I!Pushed
<1>5. p.state = "sending"
  BY DEF I!PushArrives
<1>6. I!Stored(n, msg, origin) \/ shelf' = shelf
  BY DEF I!PushArrives, I!SetAside
<1>7. \/ /\ pushes' = I!Becomes(p, "sent") \cup I!Pushed(n, msg, origin)
         /\ UNCHANGED lost
      \/ /\ pushes' = I!Becomes(p, "queued") \cup I!Pushed(n, msg, origin)
         /\ lost' = lost \cup {[key |-> I!Key(msg), nth |-> Cardinality(I!LostOf(I!Key(msg)))]}
  BY SameCount, Zenon DEF I!PushArrives
<1> HIDE DEF msg, n, origin
<1>8. HeardOrLost(p)
  BY <1>3, <1>4, <1>7 DEF HeardOrLost
<1> QED
  BY <1>2, <1>3, <1>5, <1>6, <1>8

LEMMA IntakeCounts == MessagesInv /\ OrderInv /\ ForwardInv /\ I!IntakeNext => ForwardInv'
<1> SUFFICES ASSUME MessagesInv, OrderInv, ForwardInv, I!IntakeNext PROVE ForwardInv'
  OBVIOUS
<1>1. CASE UNCHANGED <<shelf, pushes, lost>>
  BY <1>1, ForwardRests
<1>2. CASE I!Ingest
  <2>1. ASSUME NEW k \in DOMAIN taken, IsMail(taken[k]),
               pushes' = pushes \cup MailPushes(taken[k]), UNCHANGED lost
        PROVE  ForwardInv'
    <3>1. PICK origin : ~ ByPush(origin) /\ \A msg : I!Stored(Here, msg, origin) <=> IsMail(msg)
      BY MailIsNotPushed
    <3>2. I!Stored(Here, taken[k], origin)
      BY <2>1, <3>1
    <3>3. PICK p : p.node = Here /\ p.msg = taken[k] /\ MailPushes(taken[k]) \subseteq {p}
      BY OnePush
    <3> QED
      BY <2>1, <3>1, <3>2, <3>3, IngestCounts
  <2> QED
    BY <1>1, <1>2, <2>1, IngestStep
<1>3. ASSUME NEW p \in pushes,
             I!PushNowhere(p) \/ I!PushFails(p) \/ I!PushRefused(p) \/ I!PushAgain(p)
      PROVE  ForwardInv'
  <2>1. p.state # "sent" /\ UNCHANGED <<shelf, lost>> /\ \E state : pushes' = I!Becomes(p, state)
    BY <1>3 DEF I!PushNowhere, I!PushFails, I!PushRefused, I!PushAgain
  <2> QED
    BY <2>1, PushMoves
<1>4. ASSUME NEW p \in pushes, I!PushArrives(p) PROVE ForwardInv'
  BY <1>4, ArrivesOnce, ArrivalCounts
<1>5. CASE I!Take \/ I!SetPushUrl
  BY <1>1, <1>5 DEF I!Take, I!SetPushUrl
<1> QED
  BY <1>2, <1>3, <1>4, <1>5 DEF I!IntakeNext

LEMMA ForwardStep == MessagesInv /\ OrderInv /\ ForwardInv /\ [Next]_vars => ForwardInv'
<1> SUFFICES ASSUME MessagesInv, OrderInv, ForwardInv, [Next]_vars PROVE ForwardInv'
  OBVIOUS
<1>1. UNCHANGED intakeOnly => ForwardInv'
  BY ForwardRests DEF intakeOnly
<1>2. CASE Taking
  BY <1>2, IntakeCounts DEF Taking
<1>3. CASE ~ Taking
  <2>1. CASE UNCHANGED vars
    BY <1>1, <2>1 DEF vars
  <2>2. CASE Mailing \/ SetUp
    BY <1>1, <2>2 DEF Mailing, SetUp
  <2>3. ASSUME NEW c \in Conns, Serve(c) \/ Handshake(c) \/ Peer(c) \/ Lobby(c) PROVE ForwardInv'
    BY <1>1, <2>3 DEF Serve, Handshake, Peer, Lobby
  <2> QED
    BY <1>3, <2>1, <2>2, <2>3 DEF Next
<1> QED
  BY <1>2, <1>3

LEMMA OneAtMost ==
    ASSUME NEW S, \A x, y \in S : x = y PROVE IsFiniteSet(S) /\ Cardinality(S) <= 1
<1>1. CASE S = {}
  BY <1>1, FS_EmptySet
<1>2. ASSUME NEW x \in S PROVE IsFiniteSet(S) /\ Cardinality(S) <= 1
  <2>1. S = {x}
    OBVIOUS
  <2>2. IsFiniteSet({x}) /\ Cardinality({x}) = 1
    BY FS_Singleton, Zenon
  <2> QED
    BY <2>1, <2>2
<1> QED
  BY <1>1, <1>2

LEMMA TwoTogether ==
    ASSUME NEW M, \A x, y \in M : x = y, NEW P, IsFiniteSet(P), NEW l \in Nat,
           Cardinality(P) <= l + 1
    PROVE  Cardinality(M) <= 1 /\ Cardinality(M \cup P) <= 2 + l
<1>1. IsFiniteSet(M) /\ Cardinality(M) <= 1
  BY OneAtMost
<1>2. IsFiniteSet(M \cap P)
  BY <1>1, FS_Subset
<1>3. Cardinality(M) \in Nat /\ Cardinality(P) \in Nat /\ Cardinality(M \cap P) \in Nat
  BY <1>1, <1>2, FS_CardinalityType
<1>4. Cardinality(M \cup P) = Cardinality(M) + Cardinality(P) - Cardinality(M \cap P)
  BY <1>1, FS_Union
<1> QED
  BY <1>1, <1>3, <1>4

MailedCopies(key) == {x \in I!Copies(key) : ByMail(shelf[x[1]][x[2]])}

(* A message is on a shelf as mailed once: it has one number there.        *)
LEMMA MailedOnce ==
    ASSUME MessagesInv, OrderInv, PushesAreOfMail, NEW key
    PROVE  \A x, y \in MailedCopies(key) : x = y
<1> DEFINE s == shelf[Here]
           Mine(i) == ByMail(s[i]) /\ I!Key(s[i].msg) = key
<1>1. s \in Seq(GoodRecords)
  BY IntakeConstants DEF MessagesInv
<1>2. \A x \in MailedCopies(key) : \E i \in DOMAIN s : x = <<Here, i>> /\ Mine(i)
  <2> TAKE x \in MailedCopies(key)
  <2>1. /\ x \in UNION {{n} \X DOMAIN shelf[n] : n \in Nodes}
        /\ I!Key(shelf[x[1]][x[2]].msg) = key /\ ByMail(shelf[x[1]][x[2]])
    BY DEF MailedCopies, I!Copies
  <2>2. PICK n \in Nodes : x \in {n} \X DOMAIN shelf[n]
    BY <2>1
  <2>3. PICK i \in DOMAIN shelf[n] : x = <<n, i>>
    BY <2>2
  <2>4. x[1] = n /\ x[2] = i
    BY <2>3
  <2>5. n = Here
    BY <2>1, <2>4 DEF PushesAreOfMail
  <2> QED
    BY <2>1, <2>3, <2>4, <2>5
<1>3. \A r \in GoodRecords : r.msg \in Message
  BY DEF GoodRecords
<1>4. \A i \in DOMAIN s : s[i].msg \in Message
  BY <1>1, <1>3
<1>5. \A a, b \in Message : Before(a, b) => I!Key(a) # I!Key(b)
  BY DEF Before, I!Key, Message
<1>6. \A i, j \in DOMAIN s : Mine(i) /\ Mine(j) => ~ (i < j)
  <2>1. \A i, j \in DOMAIN s : ByMail(s[i]) /\ ByMail(s[j]) /\ i < j => Before(s[i].msg, s[j].msg)
    BY DEF OrderInv, ShelfOrdered
  <2> QED
    BY <1>4, <1>5, <2>1
<1>7. DOMAIN s \subseteq Nat
  BY <1>1
<1> HIDE DEF s, Mine
<1>8. \A i, j \in DOMAIN s : Mine(i) /\ Mine(j) => i = j
  BY <1>6, <1>7
<1> QED
  BY <1>2, <1>8

LEMMA NoLoop == MessagesInv /\ OrderInv /\ ForwardInv => NoForwardingLoop
<1> SUFFICES ASSUME MessagesInv, OrderInv, ForwardInv, NEW msg \in Accepted
             PROVE  LET copies == I!Copies(I!Key(msg))
                    IN  /\ Cardinality({x \in copies : shelf[x[1]][x[2]].origin = ""}) <= 1
                        /\ Cardinality(copies) <= 2 + Cardinality(I!LostOf(I!Key(msg)))
  BY DEF NoForwardingLoop
<1> DEFINE key == I!Key(msg)
<1>1. key \in Keys
  <2>1. msg \in Message
    BY AcceptedIsGood DEF GoodMessages
  <2> QED
    BY <2>1 DEF I!Key, Keys, Message
<1>2. MailedCopies(key) = {x \in I!Copies(key) : shelf[x[1]][x[2]].origin = ""}
  BY DEF MailedCopies, ByMail
<1>3. I!Copies(key) = MailedCopies(key) \cup PushedCopies(key)
  BY <1>2 DEF PushedCopies
<1> HIDE DEF key
<1>4. \A x, y \in MailedCopies(key) : x = y
  BY MailedOnce DEF ForwardInv
<1>5. /\ IsFiniteSet(PushedCopies(key)) /\ IsFiniteSet(I!LostOf(key))
      /\ Cardinality(PushedCopies(key)) <= Cardinality(I!LostOf(key)) + 1
  BY <1>1 DEF ForwardInv, Counted
<1>6. Cardinality(I!LostOf(key)) \in Nat
  BY <1>5, FS_CardinalityType
<1>7. /\ Cardinality(MailedCopies(key)) <= 1
      /\ Cardinality(MailedCopies(key) \cup PushedCopies(key)) <= 2 + Cardinality(I!LostOf(key))
  BY <1>4, <1>5, <1>6, TwoTogether
<1> QED
  BY <1>2, <1>3, <1>7 DEF key

(* Whatever the targets of the nodes are and however they change, whatever *)
(* is refused, retried or not heard: a message is stored once as mailed,   *)
(* and pushed once, and once more for each answer that got lost.           *)
THEOREM ForwardTheorem == Spec => []NoForwardingLoop
<1>1. Init => OrderInv /\ ForwardInv
  BY OrderInit, ForwardInit
<1>2. SessionInv /\ SessionInv' /\ MessagesInv /\ OrderInv /\ ForwardInv /\ [Next]_vars
         => OrderInv' /\ ForwardInv'
  BY OrderStep, ForwardStep
<1> QED
  BY <1>1, <1>2, NoLoop, SessionsCorrect, MessagesCorrect, PTL DEF Spec

-----------------------------------------------------------------------------
(***************************************************************************)
(* What an attempt ends with is true.  A connection of the mail client on  *)
(* which DATA was not said, or not taken, never makes a message; and client *)
(* and server agree, answer by answer, how many recipients there are when  *)
(* DATA is said and which answer is the verdict on the message.            *)
(***************************************************************************)

(* What the server accepted on a connection: nothing, or a message for     *)
(* everybody.                                                              *)
NoneOf(c) == \A msg \in Accepted : msg.conn # c
ForAll(c) == \E msg \in Accepted : msg.conn = c /\ Cardinality(msg.rcpt) = Recipients

(* Nothing was accepted on it, and nothing on the way can change that.     *)
NoData(c) == \A l \in ToSet(net[c].wire) : l.text # "DATA"
Silent(c) == ses[c].phase # "data" /\ NoData(c) /\ NoneOf(c)

-----------------------------------------------------------------------------
(* What the server's answers are.  A line was read and answered by `code`; *)
(* the session is now in `phase` and has the recipients `rcpt`.            *)
Reply(c, code, phase, rcpt) ==
    /\ ses'[c].phase = phase /\ ses'[c].rcpt = rcpt
    /\ sink' = sink
    /\ net'[c].wire = Tail(net[c].wire)
    /\ net'[c].gone = net[c].gone
    /\ net[c].gone = "no" =>
          \E s \in BOOLEAN :
             net'[c].replies = Append(net[c].replies, [code |-> code, starttls |-> s])

LEMMA ToldIs ==
    ASSUME NetTyped, NEW c \in Mailers, NEW code \in Nat, NEW s \in BOOLEAN
    PROVE  /\ ToldMore(c, code, s) \in NetRows
           /\ ToldMore(c, code, s).wire = net[c].wire
           /\ ToldMore(c, code, s).gone = net[c].gone
           /\ net[c].gone = "no" => ToldMore(c, code, s).replies
                                      = Append(net[c].replies, [code |-> code, starttls |-> s])
<1>1. net[c] \in NetRows /\ c \in Conns
  BY ClientConstants DEF NetTyped
<1>2. ToldMore(c, code, s) \in NetRows /\ ToldMore(c, code, s).wire = net[c].wire
  BY <1>1, ToldRow
<1> DEFINE list == Append(net[c].replies, [code |-> code, starttls |-> s])
           n == [net[c] EXCEPT !.replies = list]
<1>3. ToldMore(c, code, s) = IF net[c].gone = "no" THEN n ELSE net[c]
  BY DEF ToldMore
<1> HIDE DEF list
<1>4. n.gone = net[c].gone /\ n.replies = list
  BY <1>1 DEF NetRows
<1> QED
  BY <1>2, <1>3, <1>4 DEF list

LEMMA ToldPlain ==
    ASSUME NetTyped, NEW c \in Mailers, NEW code \in Nat
    PROVE  /\ Told(c, code) \in NetRows
           /\ Told(c, code).wire = net[c].wire
           /\ Told(c, code).gone = net[c].gone
           /\ net[c].gone = "no" => Told(c, code).replies
                                      = Append(net[c].replies, [code |-> code, starttls |-> FALSE])
<1> DEFINE t == Told(c, code)
<1>1. FALSE \in BOOLEAN
  OBVIOUS
<1> QED
  BY <1>1, ToldIs DEF Told

LEMMA UnreadIs ==
    ASSUME SessionInv, NEW c \in Conns, NEW n \in NetRows
    PROVE  /\ Unread(c, n).wire = Tail(n.wire)
           /\ Unread(c, n).gone = n.gone
           /\ Unread(c, n).replies = n.replies
<1>1. ses[c].buf = <<>>
  BY DEF SessionInv
<1> DEFINE w == Tail(n.wire)
<1>2. Unread(c, n) = [n EXCEPT !.wire = w]
  BY <1>1 DEF Unread
<1> HIDE DEF w
<1>3. /\ [n EXCEPT !.wire = w].wire = w
      /\ [n EXCEPT !.wire = w].gone = n.gone
      /\ [n EXCEPT !.wire = w].replies = n.replies
  BY DEF NetRows
<1> QED
  BY <1>2, <1>3 DEF w

LEMMA AnswerReplies ==
    ASSUME SessionInv, WireInv, NEW c \in Mailers, NEW code \in Nat, NEW new,
           {"phase", "rcpt"} \subseteq DOMAIN new, Answer(c, code, new), sink' = sink
    PROVE  Reply(c, code, new.phase, new.rcpt)
<1>1. c \in Conns /\ NetTyped /\ ses \in [Conns -> Session] /\ net \in [Conns -> NetRows]
  BY ClientConstants DEF WireInv, NetTyped, SessionInv
<1> DEFINE t == Told(c, code)
           n == Unread(c, t)
           r == Consumed(new)
<1>2. ses'[c] = r /\ net'[c] = n
  BY <1>1 DEF Answer
<1>3. r.phase = new.phase /\ r.rcpt = new.rcpt
  BY DEF Consumed
<1>4. FALSE \in BOOLEAN
  OBVIOUS
<1>5. /\ t \in NetRows /\ t.wire = net[c].wire /\ t.gone = net[c].gone
      /\ net[c].gone = "no" => t.replies = Append(net[c].replies, [code |-> code, starttls |-> FALSE])
  BY <1>1, <1>4, ToldIs DEF Told
<1> HIDE DEF t
<1>6. n.wire = Tail(t.wire) /\ n.gone = t.gone /\ n.replies = t.replies
  BY <1>1, <1>5, UnreadIs
<1> HIDE DEF n, r
<1> QED
  BY <1>2, <1>3, <1>4, <1>5, <1>6 DEF Reply

(* Which answer a line gets, and what it does to phase and recipients.     *)
LEMMA CommandReplies ==
    ASSUME SessionInv, WireInv, NEW c \in Mailers
    PROVE  /\ Hello(c) \/ Reset(c) \/ MailFrom(c) => Reply(c, 250, "command", {})
           /\ Nothing(c) \/ Refuse530(c) \/ BadAddress(c) =>
                 \E code \in {500, 501, 530} : Reply(c, code, "command", ses[c].rcpt)
           /\ RcptTo(c) =>
                 \/ Reply(c, 452, "command", ses[c].rcpt)
                 \/ Reply(c, 250, "command", ses[c].rcpt \cup {ses[c].line + 1})
           /\ Data(c) => Reply(c, 354, "data", ses[c].rcpt)
<1> DEFINE s == ses[c]
<1>1. c \in Conns /\ NetTyped /\ s \in Session /\ ses \in [Conns -> Session]
      /\ net \in [Conns -> NetRows]
  BY ClientConstants DEF WireInv, NetTyped, SessionInv
<1>2. DOMAIN s = DOMAIN [from |-> 0, rcpt |-> 0, user |-> 0, phase |-> 0, tls |-> 0, policy |-> 0,
                         name |-> 0, size |-> 0, buf |-> 0, line |-> 0, began |-> 0, shown |-> 0]
  BY <1>1 DEF Session
<1>3. ASSUME NEW code \in Nat, NEW new, Answer(c, code, new), sink' = sink,
             {"phase", "rcpt"} \subseteq DOMAIN new
      PROVE  Reply(c, code, new.phase, new.rcpt)
  BY <1>3, AnswerReplies
<1>4. ASSUME NEW code \in {500, 501, 530, 452}, Answer(c, code, s), sink' = sink,
             s.phase = "command"
      PROVE  Reply(c, code, "command", s.rcpt)
  <2>1. {"phase", "rcpt"} \subseteq DOMAIN s /\ code \in Nat
    BY <1>2
  <2> HIDE DEF s
  <2> QED
    BY <1>3, <1>4, <2>1
<1>5. ASSUME Hello(c) PROVE Reply(c, 250, "command", {})
  <2> DEFINE q == ResetEnvelope(s)
             b == Begin(q)
             r == Consumed(b)
             t == ToldMore(c, 250, Offered(c))
             n == Unread(c, t)
  <2>1. ses'[c] = r /\ net'[c] = n /\ s.phase = "command" /\ sink' = sink
    BY <1>1, <1>5 DEF Hello, Command, Reads
  <2>2. {"phase", "rcpt"} \subseteq DOMAIN q /\ q.phase = s.phase /\ q.rcpt = {}
    BY <1>2 DEF ResetEnvelope
  <2> HIDE DEF q
  <2>3. {"phase", "rcpt"} \subseteq DOMAIN b /\ b.phase = s.phase /\ b.rcpt = {}
    BY <2>2 DEF Begin
  <2> HIDE DEF b
  <2>4. r.phase = s.phase /\ r.rcpt = {}
    BY <2>3 DEF Consumed
  <2>5. Offered(c) \in BOOLEAN
    BY <1>1, ServerAssumption DEF Offered, Session
  <2>6. /\ t \in NetRows /\ t.wire = net[c].wire /\ t.gone = net[c].gone
        /\ net[c].gone = "no" =>
              t.replies = Append(net[c].replies, [code |-> 250, starttls |-> Offered(c)])
    BY <1>1, <2>5, ToldIs
  <2> HIDE DEF t
  <2>7. n.wire = Tail(t.wire) /\ n.gone = t.gone /\ n.replies = t.replies
    BY <1>1, <2>6, UnreadIs
  <2> HIDE DEF n, r
  <2> QED
    BY <2>1, <2>4, <2>5, <2>6, <2>7 DEF Reply
<1>6. ASSUME Reset(c) PROVE Reply(c, 250, "command", {})
  <2> DEFINE q == ResetEnvelope(s)
             b == Begin(q)
  <2>1. Answer(c, 250, b) /\ s.phase = "command" /\ sink' = sink
    BY <1>6 DEF Reset, Command, Reads
  <2>2. {"phase", "rcpt"} \subseteq DOMAIN q /\ q.phase = s.phase /\ q.rcpt = {}
    BY <1>2 DEF ResetEnvelope
  <2> HIDE DEF q
  <2>3. {"phase", "rcpt"} \subseteq DOMAIN b /\ b.phase = s.phase /\ b.rcpt = {}
    BY <2>2 DEF Begin
  <2> HIDE DEF b
  <2>4. Reply(c, 250, b.phase, b.rcpt)
    BY <1>3, <2>1, <2>3
  <2> QED
    BY <2>1, <2>3, <2>4
<1>7. ASSUME MailFrom(c) PROVE Reply(c, 250, "command", {})
  <2> DEFINE q == [s EXCEPT !.from = s.line + 1, !.rcpt = {}]
             b == Begin(q)
  <2>1. Answer(c, 250, b) /\ s.phase = "command" /\ sink' = sink
    BY <1>7 DEF MailFrom, Command, Reads
  <2>2. {"phase", "rcpt"} \subseteq DOMAIN q /\ q.phase = s.phase /\ q.rcpt = {}
    BY <1>2
  <2> HIDE DEF q
  <2>3. {"phase", "rcpt"} \subseteq DOMAIN b /\ b.phase = s.phase /\ b.rcpt = {}
    BY <2>2 DEF Begin
  <2> HIDE DEF b
  <2>4. Reply(c, 250, b.phase, b.rcpt)
    BY <1>3, <2>1, <2>3
  <2> QED
    BY <2>1, <2>3, <2>4
<1>8. ASSUME Nothing(c) \/ Refuse530(c) \/ BadAddress(c)
      PROVE  \E code \in {500, 501, 530} : Reply(c, code, "command", s.rcpt)
  <2>1. PICK code \in {500, 501, 530} : Answer(c, code, s) /\ sink' = sink /\ s.phase = "command"
    BY <1>8 DEF Nothing, Refuse530, BadAddress, Command, Reads
  <2> QED
    BY <1>4, <2>1
<1>9. ASSUME RcptTo(c)
      PROVE  \/ Reply(c, 452, "command", s.rcpt)
             \/ Reply(c, 250, "command", s.rcpt \cup {s.line + 1})
  <2> DEFINE q == [s EXCEPT !.rcpt = @ \cup {s.line + 1}]
  <2>1. /\ s.phase = "command" /\ sink' = sink
        /\ Answer(c, 452, s) \/ Answer(c, 250, q)
    BY <1>9 DEF RcptTo, Command, Reads
  <2>2. {"phase", "rcpt"} \subseteq DOMAIN q /\ q.phase = s.phase /\ q.rcpt = s.rcpt \cup {s.line + 1}
    BY <1>2
  <2> HIDE DEF q
  <2>3. CASE Answer(c, 452, s)
    BY <1>4, <2>1, <2>3
  <2>4. CASE Answer(c, 250, q)
    <3>1. Reply(c, 250, q.phase, q.rcpt)
      BY <1>3, <2>1, <2>2, <2>4
    <3> QED
      BY <2>1, <2>2, <3>1
  <2> QED
    BY <2>1, <2>3, <2>4
<1>10. ASSUME Data(c) PROVE Reply(c, 354, "data", s.rcpt)
  <2> DEFINE q == [s EXCEPT !.phase = "data", !.size = 0]
  <2>1. Answer(c, 354, q) /\ sink' = sink
    BY <1>10 DEF Data
  <2>2. {"phase", "rcpt"} \subseteq DOMAIN q /\ q.phase = "data" /\ q.rcpt = s.rcpt
    BY <1>2
  <2> HIDE DEF q
  <2>3. Reply(c, 354, q.phase, q.rcpt)
    BY <1>3, <2>1, <2>2
  <2> QED
    BY <2>2, <2>3
<1> QED
  BY <1>5, <1>6, <1>7, <1>8, <1>9, <1>10

AuthPhases == {"command", "plain", "name", "pass", "cram"}

LEMMA AuthReplies ==
    ASSUME SessionInv, WireInv, NEW c \in Mailers
    PROVE  /\ AuthAtOnce(c) =>
                 \E code \in {235, 535} : Reply(c, code, "command", ses[c].rcpt)
           /\ AuthAsks(c) \/ AuthAnswer(c) =>
                 \E code \in {235, 535, 501, 334}, phase \in AuthPhases :
                    Reply(c, code, phase, ses[c].rcpt)
<1> DEFINE s == ses[c]
<1>1. s \in Session
  BY ClientConstants DEF SessionInv
<1>2. DOMAIN s = DOMAIN [from |-> 0, rcpt |-> 0, user |-> 0, phase |-> 0, tls |-> 0, policy |-> 0,
                         name |-> 0, size |-> 0, buf |-> 0, line |-> 0, began |-> 0, shown |-> 0]
  BY <1>1 DEF Session
<1>3. ASSUME NEW code \in {235, 535, 501, 334}, NEW new, Answer(c, code, new), sink' = sink,
             {"phase", "rcpt"} \subseteq DOMAIN new
      PROVE  Reply(c, code, new.phase, new.rcpt)
  BY <1>3, AnswerReplies
<1>4. ASSUME NEW name, NEW pass, Conclude(c, name, pass), sink' = sink
      PROVE  \E code \in {235, 535} : Reply(c, code, "command", s.rcpt)
  <2> DEFINE q == [s EXCEPT !.phase = "command", !.name = "none",
                            !.shown = @ \cup {<<name, pass>>}]
             ok == CredentialsOk(s.policy, name, pass)
             new == IF ok THEN [q EXCEPT !.user = name] ELSE q
             code == IF ok THEN 235 ELSE 535
  <2>1. Answer(c, code, new)
    BY <1>4 DEF Conclude
  <2>2. {"phase", "rcpt"} \subseteq DOMAIN q /\ q.phase = "command" /\ q.rcpt = s.rcpt
    BY <1>2
  <2> HIDE DEF q
  <2>3. {"phase", "rcpt"} \subseteq DOMAIN new /\ new.phase = "command" /\ new.rcpt = s.rcpt
    BY <2>2
  <2> HIDE DEF new
  <2>4. code \in {235, 535}
    OBVIOUS
  <2> HIDE DEF code, ok
  <2>5. Reply(c, code, new.phase, new.rcpt)
    BY <1>3, <1>4, <2>1, <2>3, <2>4
  <2> QED
    BY <2>3, <2>4, <2>5
<1>5. ASSUME AuthAtOnce(c) PROVE \E code \in {235, 535} : Reply(c, code, "command", s.rcpt)
  BY <1>4, <1>5 DEF AuthAtOnce
<1>6. ASSUME AuthAsks(c) PROVE \E phase \in AuthPhases : Reply(c, 334, phase, s.rcpt)
  <2> DEFINE phase == Asks[Text(c)]
             q == [s EXCEPT !.phase = phase,
                            !.name = IF Text(c) = "LOGIN right" THEN "right" ELSE "none"]
  <2>1. Answer(c, 334, q) /\ sink' = sink
    BY <1>6 DEF AuthAsks
  <2>2. phase \in AuthPhases
    BY <1>6 DEF AuthAsks, Command, Asks, AuthPhases
  <2> HIDE DEF phase
  <2>3. {"phase", "rcpt"} \subseteq DOMAIN q /\ q.phase = phase /\ q.rcpt = s.rcpt
    BY <1>2
  <2> HIDE DEF q
  <2>4. Reply(c, 334, q.phase, q.rcpt)
    BY <1>3, <2>1, <2>3
  <2> QED
    BY <2>2, <2>3, <2>4
<1>7. ASSUME AuthAnswer(c)
      PROVE  \E code \in {235, 535, 501, 334}, phase \in AuthPhases : Reply(c, code, phase, s.rcpt)
  <2> DEFINE p == [s EXCEPT !.phase = "command", !.name = "none"]
             q == [s EXCEPT !.phase = "pass", !.name = NameIn(Text(c))]
  <2>1. /\ \/ \E name, pass : Conclude(c, name, pass)
           \/ Answer(c, 501, p)
           \/ Answer(c, 334, q)
        /\ sink' = sink
    BY <1>7 DEF AuthAnswer
  <2>2. /\ {"phase", "rcpt"} \subseteq DOMAIN p /\ p.phase = "command" /\ p.rcpt = s.rcpt
        /\ {"phase", "rcpt"} \subseteq DOMAIN q /\ q.phase = "pass" /\ q.rcpt = s.rcpt
    BY <1>2
  <2>3. "command" \in AuthPhases /\ "pass" \in AuthPhases
    BY DEF AuthPhases
  <2> HIDE DEF p, q
  <2>4. ASSUME NEW name, NEW pass, Conclude(c, name, pass)
        PROVE  \E code \in {235, 535, 501, 334}, phase \in AuthPhases :
                  Reply(c, code, phase, s.rcpt)
    BY <1>4, <2>1, <2>3, <2>4
  <2>5. ASSUME Answer(c, 501, p)
        PROVE  Reply(c, 501, "command", s.rcpt)
    <3>1. Reply(c, 501, p.phase, p.rcpt)
      BY <1>3, <2>1, <2>2, <2>5
    <3> QED
      BY <2>2, <3>1
  <2>6. ASSUME Answer(c, 334, q)
        PROVE  Reply(c, 334, "pass", s.rcpt)
    <3>1. Reply(c, 334, q.phase, q.rcpt)
      BY <1>3, <2>1, <2>2, <2>6
    <3> QED
      BY <2>2, <3>1
  <2> QED
    BY <2>1, <2>3, <2>4, <2>5, <2>6
<1> QED
  BY <1>5, <1>6, <1>7

(* The steps with more to them: TLS is granted; a line of a body is read;  *)
(* a message is judged; the session ends; it begins.                       *)
Gets(c, code) ==
    net[c].gone = "no" =>
        \E s \in BOOLEAN :
           net'[c].replies = Append(net[c].replies, [code |-> code, starttls |-> s])

GrantsTls(c) ==
    /\ ses'[c].phase = "handshake"
    /\ sink' = sink
    /\ ToSet(net'[c].wire) \subseteq ToSet(net[c].wire)
    /\ Len(net[c].wire) = 1 => net'[c].wire = <<>>
    /\ net'[c].gone = net[c].gone
    /\ Gets(c, 220)

ReadsOn(c) ==
    /\ ses'[c].phase = "data" /\ ses'[c].rcpt = ses[c].rcpt
    /\ sink' = sink
    /\ net'[c].wire = Tail(net[c].wire)
    /\ net'[c].gone = net[c].gone
    /\ net'[c].replies = net[c].replies

Judges(c) ==
    /\ ses'[c].phase = "command"
    /\ sink' = IF Verdict(c) = 250 THEN Append(sink, MessageOf(c)) ELSE sink
    /\ net'[c].wire \in {net[c].wire, Tail(net[c].wire)}
    /\ net'[c].gone = net[c].gone
    /\ Gets(c, Verdict(c))

Finishes(c) ==
    /\ ses'[c].phase = "closed"
    /\ sink' = sink
    /\ net'[c].wire = <<>> /\ net'[c].gone = "no"
    /\ net'[c].replies = net[c].replies \/ \E code \in {221, 421} : Gets(c, code)

Starts(c) ==
    /\ sink' = sink
    /\ net'[c].wire = net[c].wire /\ net'[c].gone = net[c].gone
    /\ \/ ses'[c].phase = "handshake" /\ net'[c].replies = net[c].replies
       \/ ses'[c].phase = "command" /\ Gets(c, 220)

LEMMA StartTlsReplies ==
    ASSUME SessionInv, WireInv, NEW c \in Mailers, StartTls(c)
    PROVE  \/ GrantsTls(c)
           \/ \E code \in {454, 503} : Reply(c, code, "command", ses[c].rcpt)
<1> DEFINE s == ses[c]
<1>1. /\ c \in Conns /\ NetTyped /\ s \in Session /\ ses \in [Conns -> Session]
      /\ net \in [Conns -> NetRows] /\ net[c] \in NetRows
      /\ Input(c) = net[c].wire /\ net[c].wire \in Seq(Lines)
      /\ s.buf = <<>> /\ s.phase = "command" /\ sink' = sink /\ net[c].wire # <<>>
  BY ClientConstants, InputIsWire DEF WireInv, NetTyped, SessionInv, StartTls, Command, Reads
<1>2. CASE ~ Offered(c)
  <2>1. PICK code \in {454, 503} : Answer(c, code, s)
    BY <1>2 DEF StartTls
  <2>2. {"phase", "rcpt"} \subseteq DOMAIN s /\ code \in Nat
    BY <1>1 DEF Session
  <2>3. Reply(c, code, s.phase, s.rcpt)
    BY <1>1, <2>1, <2>2, AnswerReplies
  <2> QED
    BY <1>1, <2>3
<1>3. CASE Offered(c)
  <2>1. PICK k \in 1 .. Len(net[c].wire) :
          /\ ses' = [ses EXCEPT ![c] = [Consumed(@) EXCEPT !.phase = "handshake",
                                           !.buf = AheadDropped(SubSeq(Input(c), 2, k))]]
          /\ net' = [net EXCEPT ![c] = [Told(c, 220) EXCEPT
                                           !.wire = SubSeq(Input(c), k + 1, Len(Input(c)))]]
    BY <1>1, <1>3 DEF StartTls
  <2> DEFINE q == Consumed(s)
             buf == AheadDropped(SubSeq(Input(c), 2, k))
             r == [q EXCEPT !.phase = "handshake", !.buf = buf]
             t == Told(c, 220)
             w == SubSeq(net[c].wire, k + 1, Len(net[c].wire))
             n == [t EXCEPT !.wire = w]
  <2>2. ses'[c] = r
    BY <1>1, <2>1
  <2>3. net'[c] = n
    BY <1>1, <2>1
  <2>4. q \in Session
    BY <1>1, ConsumedSession
  <2> HIDE DEF q, buf
  <2>5. r.phase = "handshake"
    BY <2>4 DEF Session
  <2> HIDE DEF r
  <2>6. /\ t \in NetRows /\ t.gone = net[c].gone
        /\ net[c].gone = "no" =>
              t.replies = Append(net[c].replies, [code |-> 220, starttls |-> FALSE])
    <3>1. FALSE \in BOOLEAN /\ 220 \in Nat
      OBVIOUS
    <3> QED
      BY <1>1, <3>1, ToldIs DEF Told
  <2>7. w \in Seq(Lines) /\ ToSet(w) \subseteq ToSet(net[c].wire)
        /\ (Len(net[c].wire) = 1 => w = <<>>)
    <3> DEFINE v == net[c].wire
    <3>1. v \in Seq(Lines) /\ k \in 1 .. Len(v)
      BY <1>1
    <3> HIDE DEF v
    <3>2. k \in Nat /\ 1 <= k /\ k <= Len(v) /\ Len(v) \in Nat
      BY <3>1
    <3> DEFINE u == SubSeq(v, k + 1, Len(v))
    <3>3. /\ u \in Seq(Lines) /\ Len(u) = Len(v) - k
          /\ \A i \in 1 .. Len(u) : u[i] = v[k + i] /\ k + i \in 1 .. Len(v)
      BY <3>1, <3>2
    <3> HIDE DEF u
    <3>4. DOMAIN u = 1 .. Len(u) /\ DOMAIN v = 1 .. Len(v)
      BY <3>1, <3>3
    <3>5. ToSet(u) \subseteq ToSet(v)
      BY <3>3, <3>4 DEF ToSet
    <3>6. Len(v) = 1 => u = <<>>
      BY <3>2, <3>3
    <3> QED
      BY <3>3, <3>5, <3>6 DEF u, v
  <2> HIDE DEF t, w
  <2>8. n.wire = w /\ n.gone = t.gone /\ n.replies = t.replies
    BY <2>6 DEF NetRows
  <2> HIDE DEF n
  <2>9. Gets(c, 220)
    <3>1. FALSE \in BOOLEAN
      OBVIOUS
    <3> QED
      BY <2>3, <2>6, <2>8, <3>1 DEF Gets
  <2> QED
    BY <1>1, <2>2, <2>3, <2>5, <2>6, <2>7, <2>8, <2>9 DEF GrantsTls
<1> QED
  BY <1>2, <1>3

LEMMA BodyReplies ==
    ASSUME SessionInv, WireInv, NEW c \in Mailers, BodyLine(c)
    PROVE  ReadsOn(c)
<1> DEFINE s == ses[c]
           q == Consumed(s)
           size == IF q.size > MaxSize THEN q.size ELSE q.size + 1
           r == [q EXCEPT !.size = size]
           n == Unread(c, net[c])
<1>1. /\ c \in Conns /\ s \in Session /\ ses \in [Conns -> Session]
      /\ net \in [Conns -> NetRows] /\ net[c] \in NetRows
      /\ s.buf = <<>> /\ s.phase = "data" /\ sink' = sink
  BY ClientConstants DEF WireInv, NetTyped, SessionInv, BodyLine, Reads
<1>2. q \in Session /\ q.phase = "data" /\ q.rcpt = s.rcpt
  <2>1. q \in Session
    BY <1>1, ConsumedSession
  <2>2. q.phase = s.phase /\ q.rcpt = s.rcpt
    BY <1>1 DEF Consumed, Session
  <2> QED
    BY <1>1, <2>1, <2>2
<1>3. ses'[c] = r
  BY <1>1, <1>2 DEF BodyLine, Session
<1>4. net'[c] = n
  BY <1>1 DEF BodyLine
<1> HIDE DEF q, size
<1>5. r.phase = "data" /\ r.rcpt = s.rcpt
  BY <1>2 DEF Session
<1>6. n.wire = Tail(net[c].wire) /\ n.gone = net[c].gone /\ n.replies = net[c].replies
  BY <1>1, UnreadIs
<1> HIDE DEF r, n
<1> QED
  BY <1>1, <1>3, <1>4, <1>5, <1>6 DEF ReadsOn

LEMMA VerdictIs ==
    \A c : Verdict(c) \in {250, 451, 552} /\ (Verdict(c) = 250 => Len(sink) < SinkSize)
BY DEF Verdict

LEMMA DeliverJudges ==
    ASSUME SessionInv, WireInv, NEW c \in Mailers, NEW new \in Session, NEW n,
           n = Told(c, Verdict(c)) \/ n = Unread(c, Told(c, Verdict(c))), Deliver(c, new, n)
    PROVE  Judges(c)
<1> DEFINE q == ResetEnvelope(new)
           r == [q EXCEPT !.phase = "command", !.size = 0, !.began = new.line]
           code == Verdict(c)
           t == Told(c, code)
<1>1. /\ c \in Conns /\ ses \in [Conns -> Session] /\ NetTyped
      /\ net \in [Conns -> NetRows] /\ net[c] \in NetRows
  BY ClientConstants DEF WireInv, NetTyped, SessionInv
<1>2. ses'[c] = r /\ net'[c] = n
  BY <1>1 DEF Deliver
<1>3. q \in Session
  BY DEF ResetEnvelope, Session
<1> HIDE DEF q
<1>4. r.phase = "command"
  BY <1>3 DEF Session
<1> HIDE DEF r
<1>5. sink' = IF code = 250 THEN Append(sink, MessageOf(c)) ELSE sink
  BY VerdictIs DEF Deliver
<1>6. code \in Nat /\ FALSE \in BOOLEAN
  BY VerdictIs
<1> HIDE DEF code
<1>7. /\ t \in NetRows /\ t.wire = net[c].wire /\ t.gone = net[c].gone
      /\ net[c].gone = "no" => t.replies = Append(net[c].replies, [code |-> code, starttls |-> FALSE])
  BY <1>1, <1>6, ToldIs DEF Told
<1>8. n = t \/ n = Unread(c, t)
  BY DEF code
<1> HIDE DEF t
<1>9. n.wire \in {t.wire, Tail(t.wire)} /\ n.gone = t.gone /\ n.replies = t.replies
  BY <1>1, <1>7, <1>8, UnreadIs
<1>10. Gets(c, code)
  BY <1>2, <1>6, <1>7, <1>9 DEF Gets
<1> QED
  BY <1>2, <1>4, <1>5, <1>7, <1>9, <1>10 DEF Judges, code

LEMMA OverReplies ==
    ASSUME SessionInv, WireInv, NEW c \in Mailers, sink' = sink,
           ses' = [ses EXCEPT ![c] = Over], NEW told,
           net' = [net EXCEPT ![c] = Dropped(told)],
           told = net[c] \/ told = Told(c, 221) \/ told = Told(c, 421)
    PROVE  Finishes(c)
<1>1. /\ c \in Conns /\ ses \in [Conns -> Session] /\ NetTyped
      /\ net \in [Conns -> NetRows] /\ net[c] \in NetRows
  BY ClientConstants DEF WireInv, NetTyped, SessionInv
<1> DEFINE n == Dropped(told)
<1>2. ses'[c].phase = "closed" /\ net'[c] = n
  BY <1>1, FreshSession
<1>3. FALSE \in BOOLEAN /\ 221 \in Nat /\ 421 \in Nat
  OBVIOUS
<1>4. ASSUME NEW code \in {221, 421}
      PROVE  /\ Told(c, code) \in NetRows
             /\ net[c].gone = "no" => Told(c, code).replies
                                        = Append(net[c].replies, [code |-> code, starttls |-> FALSE])
  <2>1. code \in Nat
    BY <1>3
  <2> QED
    BY <1>1, <2>1, ToldPlain
<1>5. told \in NetRows
  BY <1>1, <1>4
<1>6. n.wire = <<>> /\ n.gone = "no" /\ n.replies = told.replies
  BY <1>5 DEF Dropped, NetRows
<1> HIDE DEF n
<1>7. ASSUME NEW code \in {221, 421}, told = Told(c, code) PROVE Gets(c, code)
  BY <1>2, <1>3, <1>4, <1>6, <1>7 DEF Gets
<1>8. told = net[c] \/ \E code \in {221, 421} : told = Told(c, code)
  OBVIOUS
<1>9. told = net[c] \/ \E code \in {221, 421} : Gets(c, code)
  BY <1>7, <1>8
<1> QED
  BY <1>2, <1>6, <1>9 DEF Finishes

LEMMA EndsReply ==
    ASSUME SessionInv, WireInv, NEW c \in Mailers, FinalDot(c) \/ EndOfInput(c) \/ Timeout(c)
    PROVE  \/ Judges(c) /\ ses[c].phase = "data"
           \/ Finishes(c) /\ ses[c].phase \notin {"data", "closed"}
<1> DEFINE s == ses[c]
<1>1. /\ c \in Conns /\ s \in Session /\ s.buf = <<>> /\ s.phase \in Reading
  BY ClientConstants DEF SessionInv, FinalDot, EndOfInput, Timeout, Reads, Drained, Reading
<1>2. CASE s.phase = "data"
  <2>1. Consumed(s) \in Session
    BY <1>1, ConsumedSession
  <2>2. \E new \in Session : \E n :
           /\ n = Told(c, Verdict(c)) \/ n = Unread(c, Told(c, Verdict(c)))
           /\ Deliver(c, new, n)
    BY <1>1, <1>2, <2>1 DEF FinalDot, EndOfInput, Timeout
  <2>3. Judges(c)
    BY <2>2, DeliverJudges
  <2> QED
    BY <1>2, <2>3
<1>3. CASE s.phase # "data"
  <2>1. \E told : told \in {net[c], Told(c, 421)} /\ Closes(c, told)
    BY <1>3 DEF FinalDot, EndOfInput, Timeout, Reads
  <2>2. PICK told : told \in {net[c], Told(c, 421)} /\ Closes(c, told)
    BY <2>1
  <2>3. /\ sink' = sink /\ ses' = [ses EXCEPT ![c] = Over]
        /\ net' = [net EXCEPT ![c] = Dropped(told)]
    BY <2>2 DEF Closes
  <2>4. Finishes(c)
    BY <2>2, <2>3, OverReplies
  <2> QED
    BY <1>1, <1>3, <2>4 DEF Reading
<1> QED
  BY <1>2, <1>3

LEMMA AcceptReplies ==
    ASSUME SessionInv, WireInv, NEW c \in Mailers, Accept(c)
    PROVE  Starts(c) \/ Finishes(c)
<1>1. /\ c \in Conns /\ NetTyped /\ ses[c] \in Session /\ ses \in [Conns -> Session]
      /\ net \in [Conns -> NetRows] /\ sink' = sink
  BY ClientConstants DEF WireInv, NetTyped, SessionInv, Accept
<1>2. CASE Cardinality(Serving) < MaxConns
  <2> DEFINE phase == IF c \in Implicit THEN "handshake" ELSE "command"
             q == [ses[c] EXCEPT !.phase = phase]
             r == [q EXCEPT !.policy = policy]
             n == IF c \in Implicit THEN net[c] ELSE Told(c, 220)
  <2>1. ses' = [ses EXCEPT ![c] = r]
    BY <1>1, <1>2 DEF Accept
  <2>2. net' = [net EXCEPT ![c] = n]
    BY <1>1, <1>2 DEF Accept
  <2>3. "phase" \in DOMAIN q /\ q.phase = phase
    BY <1>1 DEF Session
  <2> HIDE DEF q
  <2>4. r.phase = phase
    BY <2>3
  <2> HIDE DEF r
  <2>5. 220 \in Nat /\ FALSE \in BOOLEAN
    OBVIOUS
  <2>6. /\ Told(c, 220).wire = net[c].wire
        /\ Told(c, 220).gone = net[c].gone
        /\ net[c].gone = "no" =>
              Told(c, 220).replies = Append(net[c].replies, [code |-> 220, starttls |-> FALSE])
    BY <1>1, <2>5, ToldPlain
  <2>7. ses'[c].phase = phase /\ net'[c] = n
    BY <1>1, <2>1, <2>2, <2>4
  <2>8. CASE c \in Implicit
    BY <1>1, <2>7, <2>8 DEF Starts
  <2>9. CASE c \notin Implicit
    <3>1. Gets(c, 220)
      BY <2>5, <2>6, <2>7, <2>9 DEF Gets
    <3> QED
      BY <1>1, <2>6, <2>7, <2>9, <3>1 DEF Starts
  <2> QED
    BY <2>8, <2>9
<1>3. CASE ~ (Cardinality(Serving) < MaxConns)
  <2>1. ses' = [ses EXCEPT ![c] = Over] /\ net' = [net EXCEPT ![c] = Dropped(Told(c, 421))]
    BY <1>3 DEF Accept
  <2> QED
    BY <1>1, <2>1, OverReplies
<1> QED
  BY <1>2, <1>3

(* What the dialog makes of line t in session s.                           *)
Rules(s, t, code, phase, rcpt) ==
    /\ phase = "data" \/ code = 354 => t = "DATA" /\ phase = "data" /\ code = 354 /\ rcpt = s.rcpt
    /\ phase \in Reading /\ code # 220
    /\ s.phase = "command" =>
          /\ t = "HELLO" => code = 250
          /\ t = "MAIL" /\ code = 250 => rcpt = {}
          /\ t = "RCPT" /\ code = 250 => rcpt = s.rcpt \cup {s.line + 1}
          /\ t \in {"HELLO", "STARTTLS", "PLAIN right", "PLAIN wrong", "MAIL", "RCPT", "DATA"}
             /\ code # 354 => phase = "command"

Turns(c) ==
    \E code, phase, rcpt :
        /\ Reply(c, code, phase, rcpt)
        /\ Rules(ses[c], net[c].wire[1].text, code, phase, rcpt)

LEMMA LinesAreAnswered ==
    ASSUME SessionInv, WireInv, NEW c \in Mailers,
           \/ Hello(c) \/ Reset(c) \/ Nothing(c) \/ AuthAsks(c) \/ AuthAtOnce(c) \/ AuthAnswer(c)
           \/ Refuse530(c) \/ MailFrom(c) \/ RcptTo(c) \/ BadAddress(c) \/ Data(c)
    PROVE  Turns(c) /\ ses[c].phase \in Reading \ {"data"} /\ net[c].wire # <<>>
<1> DEFINE s == ses[c]
           t == net[c].wire[1].text
<1>1. c \in Conns /\ Input(c) = net[c].wire /\ net[c].wire \in Seq(Lines)
  BY ClientConstants, InputIsWire
<1>2. ses[c].phase \in Reading \ {"data"} /\ net[c].wire # <<>>
  BY <1>1 DEF Hello, Reset, Nothing, AuthAsks, AuthAtOnce, AuthAnswer, Refuse530, MailFrom, RcptTo,
     BadAddress, Data, Command, Reads, Reading
<1>3. Text(c) = t
  BY <1>1, <1>2 DEF Text
<1> DEFINE Says(code, rcpt) == Reply(c, code, "command", rcpt)
<1>11. /\ Hello(c) \/ Reset(c) \/ MailFrom(c) => Says(250, {})
       /\ Nothing(c) \/ Refuse530(c) \/ BadAddress(c) =>
             \E code \in {500, 501, 530} : Says(code, ses[c].rcpt)
       /\ RcptTo(c) => \/ Says(452, ses[c].rcpt)
                       \/ Says(250, ses[c].rcpt \cup {ses[c].line + 1})
       /\ Data(c) => Reply(c, 354, "data", ses[c].rcpt)
  BY CommandReplies
<1>4. ASSUME NEW code, NEW phase, NEW rcpt, Reply(c, code, phase, rcpt),
             Rules(s, t, code, phase, rcpt)
      PROVE  Turns(c)
  BY <1>4 DEF Turns
<1>5. CASE Hello(c) \/ Reset(c) \/ MailFrom(c)
  <2>1. Reply(c, 250, "command", {})
    BY <1>5, <1>11
  <2>2. Rules(s, t, 250, "command", {})
    BY <1>3, <1>5 DEF Hello, Reset, MailFrom, Command, Rules, Reading
  <2> QED
    BY <1>2, <1>4, <2>1, <2>2
<1>6. CASE Nothing(c) \/ Refuse530(c) \/ BadAddress(c)
  <2>1. PICK code \in {500, 501, 530} : Reply(c, code, "command", s.rcpt)
    BY <1>6, <1>11
  <2>2. t # "HELLO"
    BY <1>3, <1>6 DEF Nothing, Refuse530, BadAddress, Command, Commands
  <2>3. Rules(s, t, code, "command", s.rcpt)
    BY <2>2 DEF Rules, Reading
  <2> QED
    BY <1>2, <1>4, <2>1, <2>3
<1>7. CASE RcptTo(c)
  <2>1. t = "RCPT"
    BY <1>3, <1>7 DEF RcptTo, Command
  <2>2. /\ Rules(s, t, 452, "command", s.rcpt)
        /\ Rules(s, t, 250, "command", s.rcpt \cup {s.line + 1})
    BY <2>1 DEF Rules, Reading
  <2> QED
    BY <1>2, <1>4, <1>7, <1>11, <2>2
<1>8. CASE Data(c)
  <2>1. t = "DATA"
    BY <1>3, <1>8 DEF Data, Command
  <2>2. Rules(s, t, 354, "data", s.rcpt)
    BY <2>1 DEF Rules, Reading
  <2>3. Reply(c, 354, "data", s.rcpt)
    BY <1>8, <1>11
  <2> QED
    BY <1>2, <1>4, <2>2, <2>3
<1>9. CASE AuthAtOnce(c)
  <2>1. t \in {"PLAIN right", "PLAIN wrong"}
    BY <1>3, <1>9 DEF AuthAtOnce, Command
  <2>2. PICK code \in {235, 535} : Reply(c, code, "command", s.rcpt)
    BY <1>9, AuthReplies
  <2>3. code # 354 /\ code # 220 /\ code # 250
    BY <2>2
  <2>4. Rules(s, t, code, "command", s.rcpt)
    BY <2>1, <2>3 DEF Rules, Reading
  <2> QED
    BY <1>2, <1>4, <2>2, <2>4
<1>10. CASE AuthAsks(c) \/ AuthAnswer(c)
  <2>1. PICK code \in {235, 535, 501, 334}, phase \in AuthPhases : Reply(c, code, phase, s.rcpt)
    BY <1>10, AuthReplies
  <2>2. s.phase # "command" \/ t \in {"PLAIN", "LOGIN", "LOGIN right", "CRAM"}
    BY <1>3, <1>10 DEF AuthAsks, AuthAnswer, Command, Asks
  <2>3. code # 354 /\ code # 220 /\ code # 250 /\ phase # "data" /\ phase \in Reading
    BY <2>1 DEF AuthPhases, Reading
  <2>4. Rules(s, t, code, phase, s.rcpt)
    BY <2>2, <2>3 DEF Rules
  <2> QED
    BY <1>2, <1>4, <2>1, <2>4
<1> QED
  BY <1>5, <1>6, <1>7, <1>8, <1>9, <1>10

(* Whatever the server does with a connection of the mail client, the      *)
(* handshake aside.                                                        *)
Does(c) ==
    LET phase == ses[c].phase
        wire  == net[c].wire
    IN  \/ /\ Finishes(c)
           /\ phase # "closed" /\ (phase = "new" => net[c].up)
           /\ phase = "data" => net[c].gone = "reset"
        \/ Starts(c) /\ phase = "new" /\ net[c].up
        \/ Judges(c) /\ phase = "data"
        \/ ReadsOn(c) /\ phase = "data" /\ wire # <<>>
        \/ /\ GrantsTls(c)
           /\ phase = "command" /\ wire # <<>> /\ wire[1].text = "STARTTLS"
        \/ Turns(c) /\ phase \in Reading \ {"data"} /\ wire # <<>>

LEMMA ServerDoes ==
    ASSUME SessionInv, WireInv, NEW c \in Mailers, Serve(c) \/ Lobby(c)
    PROVE  Does(c)
<1>1. /\ c \in Conns /\ Input(c) = net[c].wire /\ net[c].wire \in Seq(Lines)
  BY ClientConstants, InputIsWire
<1>2. CASE \/ Hello(c) \/ Reset(c) \/ Nothing(c) \/ AuthAsks(c) \/ AuthAtOnce(c) \/ AuthAnswer(c)
           \/ Refuse530(c) \/ MailFrom(c) \/ RcptTo(c) \/ BadAddress(c) \/ Data(c)
  <2>1. Turns(c) /\ ses[c].phase \in Reading \ {"data"} /\ net[c].wire # <<>>
    BY <1>2, LinesAreAnswered
  <2> QED
    BY <2>1 DEF Does
<1>3. CASE StartTls(c)
  <2>4. ses[c].phase = "command" /\ Input(c) # <<>> /\ Text(c) = "STARTTLS"
    BY <1>3 DEF StartTls, Command, Reads
  <2>1. ses[c].phase = "command" /\ net[c].wire # <<>> /\ net[c].wire[1].text = "STARTTLS"
    BY <1>1, <2>4 DEF Text
  <2>2. CASE GrantsTls(c)
    BY <2>1, <2>2 DEF Does
  <2>3. CASE \E code \in {454, 503} : Reply(c, code, "command", ses[c].rcpt)
    <3>1. PICK code \in {454, 503} : Reply(c, code, "command", ses[c].rcpt)
      BY <2>3
    <3>2. Rules(ses[c], net[c].wire[1].text, code, "command", ses[c].rcpt)
      BY <2>1 DEF Rules, Reading
    <3>3. Turns(c)
      BY <3>1, <3>2 DEF Turns
    <3> QED
      BY <2>1, <3>3 DEF Does, Reading
  <2> QED
    BY <1>3, <2>2, <2>3, StartTlsReplies
<1>4. CASE BodyLine(c)
  <2>1. ReadsOn(c) /\ ses[c].phase = "data" /\ net[c].wire # <<>>
    BY <1>1, <1>4, BodyReplies DEF BodyLine, Reads
  <2> QED
    BY <2>1 DEF Does
<1>5. CASE FinalDot(c) \/ EndOfInput(c) \/ Timeout(c)
  <2>1. \/ Judges(c) /\ ses[c].phase = "data"
        \/ Finishes(c) /\ ses[c].phase \notin {"data", "closed"}
    BY <1>5, EndsReply
  <2>2. ses[c].phase # "new"
    BY <1>5 DEF FinalDot, EndOfInput, Timeout, Reads, Drained, Reading
  <2> QED
    BY <2>1, <2>2 DEF Does
<1>6. CASE Accept(c)
  <2>1. ses[c].phase = "new" /\ net[c].up
    BY <1>6 DEF Accept
  <2>2. Starts(c) \/ Finishes(c)
    BY <1>6, AcceptReplies
  <2> QED
    BY <2>1, <2>2 DEF Does
<1>7. CASE Quit(c) \/ ReadError(c) \/ HandshakeFailed(c)
  <2>1. PICK told : /\ told = net[c] \/ told = Told(c, 221) \/ told = Told(c, 421)
                    /\ ses' = [ses EXCEPT ![c] = Over]
                    /\ net' = [net EXCEPT ![c] = Dropped(told)]
                    /\ sink' = sink
    BY <1>7 DEF Quit, ReadError, HandshakeFailed, Closes
  <2>2. Finishes(c)
    BY <2>1, OverReplies
  <2>3. /\ ses[c].phase # "closed" /\ ses[c].phase # "new"
        /\ ses[c].phase = "data" => net[c].gone = "reset"
    BY <1>7 DEF Quit, ReadError, HandshakeFailed, Command, Reads, Drained, Reading
  <2> QED
    BY <2>2, <2>3 DEF Does
<1> QED
  BY <1>2, <1>3, <1>4, <1>5, <1>6, <1>7 DEF Serve, Lobby, Dialog

(* ... and the handshake.                                                  *)
LEMMA HandshakeReplies ==
    ASSUME SessionInv, WireInv, NEW c \in Mailers, HandshakeDone(c)
    PROVE  /\ ses[c].phase = "handshake" /\ ses'[c].phase = "command"
           /\ net[c].wire = <<>> /\ net'[c].wire = <<>> /\ net'[c].gone = net[c].gone
           /\ net'[c].replies = net[c].replies \/ Gets(c, 220)
           /\ sink' = sink
<1>1. /\ c \in Conns /\ NetTyped /\ ses[c] \in Session /\ ses \in [Conns -> Session]
      /\ net \in [Conns -> NetRows] /\ sink' = sink
      /\ ses[c].phase = "handshake" /\ net[c].wire = <<>>
  BY ClientConstants DEF WireInv, NetTyped, SessionInv, HandshakeDone
<1> DEFINE n == IF c \in Implicit THEN Told(c, 220) ELSE net[c]
           q == StartOver(ses[c])
           r == [q EXCEPT !.phase = "command", !.tls = TRUE, !.began = ses[c].line, !.shown = {}]
<1>2. net' = [net EXCEPT ![c] = n] /\ ses' = [ses EXCEPT ![c] = r]
  BY <1>1 DEF HandshakeDone
<1>3. net'[c] = n /\ ses'[c] = r
  BY <1>1, <1>2
<1>4. "phase" \in DOMAIN q
  BY <1>1 DEF StartOver, Session
<1> HIDE DEF q
<1>5. r.phase = "command"
  BY <1>4
<1> HIDE DEF r
<1>6. 220 \in Nat /\ FALSE \in BOOLEAN
  OBVIOUS
<1>7. /\ Told(c, 220).wire = net[c].wire
      /\ Told(c, 220).gone = net[c].gone
      /\ net[c].gone = "no" =>
            Told(c, 220).replies = Append(net[c].replies, [code |-> 220, starttls |-> FALSE])
  BY <1>1, <1>6, ToldPlain
<1>8. CASE c \in Implicit
  <2>1. Gets(c, 220)
    BY <1>3, <1>6, <1>7, <1>8 DEF Gets
  <2> QED
    BY <1>1, <1>3, <1>5, <1>7, <1>8, <2>1
<1>9. CASE c \notin Implicit
  BY <1>1, <1>3, <1>5, <1>9
<1> QED
  BY <1>8, <1>9

-----------------------------------------------------------------------------
(* What was accepted stays accepted.                                       *)

LEMMA MailIsKept ==
    ASSUME UNCHANGED <<sink, taken, shelf, aside>>
    PROVE  Accepted' = Accepted
BY DEF Accepted

LEMMA AppendedSet ==
    ASSUME NEW S, NEW seq \in Seq(S), NEW e \in S
    PROVE  ToSet(Append(seq, e)) = ToSet(seq) \cup {e}
<1> DEFINE app == Append(seq, e)
<1>1. /\ app \in Seq(S) /\ Len(app) = Len(seq) + 1
      /\ \A i \in 1 .. Len(seq) : app[i] = seq[i]
      /\ app[Len(seq) + 1] = e
  BY AppendProperties
<1> HIDE DEF app
<1>2. DOMAIN app = 1 .. Len(seq) + 1 /\ DOMAIN seq = 1 .. Len(seq) /\ Len(seq) \in Nat
  BY <1>1
<1>3. ASSUME NEW i \in 1 .. Len(seq) + 1 PROVE app[i] \in ToSet(seq) \cup {e}
  <2>1. i \in 1 .. Len(seq) \/ i = Len(seq) + 1
    BY <1>2
  <2> QED
    BY <1>1, <1>2, <2>1 DEF ToSet
<1>4. ASSUME NEW i \in 1 .. Len(seq) PROVE seq[i] \in ToSet(app)
  <2>1. i \in 1 .. Len(seq) + 1
    BY <1>2
  <2> QED
    BY <1>1, <1>2, <2>1 DEF ToSet
<1>5. Len(seq) + 1 \in DOMAIN app /\ app[Len(seq) + 1] = e
  BY <1>1, <1>2
<1>6. ToSet(app) = ToSet(seq) \cup {e}
  BY <1>2, <1>3, <1>4, <1>5 DEF ToSet
<1> QED
  BY <1>6 DEF app

LEMMA MailIsAdded ==
    ASSUME MessagesInv, NEW m \in GoodMessages, sink' = Append(sink, m),
           UNCHANGED <<taken, shelf, aside>>
    PROVE  Accepted' = Accepted \cup {m}
<1>1. sink \in Seq(GoodMessages)
  BY DEF MessagesInv
<1>2. ToSet(sink') = ToSet(sink) \cup {m}
  BY <1>1, AppendedSet
<1> QED
  BY <1>2 DEF Accepted

(* The intake moves what was accepted, and loses none of it.               *)
LEMMA IntakeKeepsMail == MessagesInv /\ I!IntakeNext => Accepted' = Accepted
<1> SUFFICES ASSUME MessagesInv, I!IntakeNext PROVE Accepted' = Accepted
  OBVIOUS
<1> DEFINE S == ToSet(sink)
           T == ToSet(taken)
           H == {r.msg : r \in {x \in ToSet(shelf[Here]) : x.origin = ""}}
           A == {x.msg : x \in {y \in aside : y.node = Here /\ y.origin = ""}}
<1>1. Accepted = S \cup T \cup H \cup A /\ Accepted' = S' \cup T' \cup H' \cup A'
  BY DEF Accepted
<1>2. /\ sink \in Seq(GoodMessages) /\ taken \in Seq(GoodMessages) /\ Len(taken) <= 1
      /\ shelf \in [Nodes -> Seq(GoodRecords)] /\ Here \in Nodes
      /\ GoodMessages \subseteq Message
  BY IntakeConstants DEF MessagesInv, GoodMessages
<1>3. ASSUME NEW n \in Nodes, NEW msg \in Message, NEW origin \in Origins, n # Here \/ origin # "",
             I!Stored(n, msg, origin) \/ I!SetAside(n, msg, origin)
      PROVE  H' = H /\ A' = A
  <2> DEFINE r == [msg |-> msg, origin |-> origin]
             x == [node |-> n, msg |-> msg, origin |-> origin]
  <2>1. CASE I!Stored(n, msg, origin)
    <3>1. shelf' = [shelf EXCEPT ![n] = Append(@, r)] /\ A' = A
      BY <2>1 DEF I!Stored
    <3>2. CASE n # Here
      BY <1>2, <3>1, <3>2
    <3>3. CASE n = Here /\ origin # ""
      <4>1. r.origin # "" /\ r \in GoodRecords
        BY <3>3 DEF GoodRecords
      <4> HIDE DEF r
      <4>2. shelf'[Here] = Append(shelf[Here], r) /\ shelf[Here] \in Seq(GoodRecords)
        BY <1>2, <3>1, <3>3
      <4> DEFINE s == shelf[Here]
      <4>5. s \in Seq(GoodRecords)
        BY <4>2
      <4> HIDE DEF s
      <4>6. ToSet(Append(s, r)) = ToSet(s) \cup {r}
        <5>1. \A e \in GoodRecords : ToSet(Append(s, e)) = ToSet(s) \cup {e}
          BY <4>5, AppendedSet, Zenon
        <5> QED
          BY <4>1, <5>1
      <4>3. ToSet(shelf'[Here]) = ToSet(shelf[Here]) \cup {r}
        BY <4>2, <4>6 DEF s
      <4> QED
        BY <3>1, <4>1, <4>3
    <3> QED
      BY <1>3, <3>2, <3>3
  <2>2. CASE I!SetAside(n, msg, origin)
    <3>1. aside' = aside \cup {x} /\ H' = H
      BY <2>2 DEF I!SetAside
    <3>2. ~ (x.node = Here /\ x.origin = "")
      BY <1>3
    <3> HIDE DEF x
    <3> QED
      BY <3>1, <3>2
  <2> QED
    BY <1>3, <2>1, <2>2
<1>4. ASSUME NEW msg \in GoodMessages,
             I!Stored(Here, msg, "") \/ I!SetAside(Here, msg, "")
      PROVE  H' \cup A' = H \cup A \cup {msg}
  <2> DEFINE r == [msg |-> msg, origin |-> ""]
             x == [node |-> Here, msg |-> msg, origin |-> ""]
  <2>1. CASE I!Stored(Here, msg, "")
    <3>1. shelf' = [shelf EXCEPT ![Here] = Append(@, r)] /\ A' = A
      BY <2>1 DEF I!Stored
    <3>2. r.origin = "" /\ r.msg = msg /\ r \in GoodRecords
      BY <1>2, IntakeConstants DEF GoodRecords, Origins
    <3> HIDE DEF r
    <3>3. shelf'[Here] = Append(shelf[Here], r) /\ shelf[Here] \in Seq(GoodRecords)
      BY <1>2, <3>1
    <3> DEFINE s == shelf[Here]
    <3>6. s \in Seq(GoodRecords)
      BY <3>3
    <3> HIDE DEF s
    <3>7. ToSet(Append(s, r)) = ToSet(s) \cup {r}
      <4>1. \A e \in GoodRecords : ToSet(Append(s, e)) = ToSet(s) \cup {e}
        BY <3>6, AppendedSet, Zenon
      <4> QED
        BY <3>2, <4>1
    <3>4. ToSet(shelf'[Here]) = ToSet(shelf[Here]) \cup {r}
      BY <3>3, <3>7 DEF s
    <3>5. H' = H \cup {msg}
      BY <3>2, <3>4
    <3> QED
      BY <3>1, <3>5
  <2>2. CASE I!SetAside(Here, msg, "")
    <3>1. aside' = aside \cup {x} /\ H' = H
      BY <2>2 DEF I!SetAside
    <3>2. x.node = Here /\ x.origin = "" /\ x.msg = msg
      OBVIOUS
    <3> HIDE DEF x
    <3>3. A' = A \cup {msg}
      BY <3>1, <3>2
    <3> QED
      BY <3>1, <3>3
  <2> QED
    BY <1>4, <2>1, <2>2
<1>5. CASE I!Take
  <2>1. /\ taken = <<>> /\ sink # <<>> /\ taken' = <<Head(sink)>> /\ sink' = Tail(sink)
        /\ UNCHANGED <<shelf, aside>>
    BY <1>5 DEF I!Take
  <2>2. S = {Head(sink)} \cup ToSet(Tail(sink))
    <3>1. /\ Len(sink) \in Nat \ {0} /\ DOMAIN sink = 1 .. Len(sink) /\ Head(sink) = sink[1]
          /\ DOMAIN Tail(sink) = 1 .. Len(sink) - 1
          /\ \A i \in 1 .. Len(sink) - 1 : Tail(sink)[i] = sink[i + 1]
      BY <1>2, <2>1
    <3>2. ASSUME NEW i \in 1 .. Len(sink) PROVE sink[i] \in {Head(sink)} \cup ToSet(Tail(sink))
      <4>1. i = 1 \/ (i - 1 \in 1 .. Len(sink) - 1 /\ (i - 1) + 1 = i)
        BY <3>1
      <4> QED
        BY <3>1, <4>1 DEF ToSet
    <3>3. ASSUME NEW i \in 1 .. Len(sink) - 1 PROVE Tail(sink)[i] \in S
      <4>1. i + 1 \in 1 .. Len(sink)
        BY <3>1
      <4> QED
        BY <3>1, <4>1 DEF ToSet
    <3>4. Head(sink) \in S
      BY <3>1 DEF ToSet
    <3> QED
      BY <3>1, <3>2, <3>3, <3>4 DEF ToSet
  <2>3. T = {} /\ T' = {Head(sink)}
    BY <2>1 DEF ToSet
  <2> QED
    BY <1>1, <2>1, <2>2, <2>3
<1>6. CASE I!Ingest
  <2>1. PICK k \in DOMAIN taken :
          /\ taken' = RemoveAt(taken, k)
          /\ I!Stored(Here, taken[k], "") \/ I!SetAside(Here, taken[k], "")
          /\ UNCHANGED sink
    BY <1>6 DEF I!Ingest, I!RemoveAt, RemoveAt
  <2>7. DOMAIN taken = 1 .. Len(taken) /\ Len(taken) \in Nat /\ k \in 1 .. Len(taken)
    BY <1>2
  <2>2. taken[k] \in GoodMessages /\ k = 1 /\ Len(taken) = 1
    BY <1>2, <2>7
  <2>6. DOMAIN taken = {k}
    BY <1>2, <2>2
  <2>3. RemoveAt(taken, k) = <<>>
    <3>1. SubSeq(taken, 1, 0) = <<>> /\ SubSeq(taken, 2, 1) = <<>>
      BY <1>2
    <3>2. RemoveAt(taken, k) = <<>> \o <<>>
      BY <2>2, <3>1 DEF RemoveAt
    <3> QED
      BY <3>2
  <2>4. T = {taken[k]} /\ T' = {}
    <3>1. taken' = <<>>
      BY <2>1, <2>3
    <3>2. T = {taken[k]}
      BY <2>6 DEF ToSet
    <3>3. T' = {}
      BY <3>1 DEF ToSet
    <3> QED
      BY <3>2, <3>3
  <2>5. H' \cup A' = H \cup A \cup {taken[k]}
    BY <1>4, <2>1, <2>2
  <2> QED
    BY <1>1, <2>1, <2>4, <2>5
<1>7. ASSUME NEW p \in pushes, I!PushArrives(p) PROVE Accepted' = Accepted
  <2> DEFINE msg == [p.msg EXCEPT !.user = "none", !.tls = FALSE]
             n == I!Target(p)
             origin == I!Origin(p.node)
  <2>1. /\ I!Stored(n, msg, origin) \/ I!SetAside(n, msg, origin)
        /\ UNCHANGED <<sink, taken>>
    BY <1>7 DEF I!PushArrives
  <2>2. p.node \in Nodes /\ p.msg \in Message /\ pushUrl \in Targets
    BY DEF MessagesInv
  <2>3. n \in Nodes /\ origin # "" /\ origin \in Origins
    BY <1>7, <2>2, IntakeConstants DEF I!Target, I!PushArrives, Origins
  <2>4. msg \in Message
    BY <2>2 DEF Message
  <2> HIDE DEF msg, n, origin
  <2>5. H' = H /\ A' = A
    BY <1>3, <2>1, <2>3, <2>4
  <2> QED
    BY <1>1, <2>1, <2>5
<1>8. CASE UNCHANGED <<sink, taken, shelf, aside>>
  BY <1>8, MailIsKept
<1> QED
  BY <1>5, <1>6, <1>7, <1>8 DEF I!IntakeNext, I!SetPushUrl, I!PushNowhere, I!PushFails,
     I!PushRefused, I!PushAgain

-----------------------------------------------------------------------------
(* Who said what last.  `first` is the answer the client reads next.       *)
First(c) == net[c].replies[1].code
Waits(c, phases) ==
    ses[c].phase \in phases /\ net[c].wire = <<>> /\ net[c].replies = <<>>
Shut(c) == ses[c].phase = "closed" /\ net[c].wire = <<>>
Polite(c) == \A x \in ToSet(net[c].replies) : x.code # 354

(* A line of the client is on its way, and nothing else ...                *)
Sayings == [hello |-> {"HELLO"}, starttls |-> {"STARTTLS"},
            auth |-> {"PLAIN right", "PLAIN wrong"}, from |-> {"MAIL"}, rcpt |-> {"RCPT"}]

Rcpts(c) == Cardinality(ses[c].rcpt)

Says(c, texts) ==
    /\ ses[c].phase = "command" /\ net[c].replies = <<>>
    /\ Len(net[c].wire) = 1 /\ net[c].wire[1].text \in texts

Asked(c) ==
    /\ mail.step \in DOMAIN Sayings /\ Says(c, Sayings[mail.step])
    /\ mail.step = "rcpt" => Rcpts(c) + 1 = mail.to

(* ... or the server's answer to it is.                                    *)
Heard(c) == ses[c].phase = "command" /\ net[c].wire = <<>> /\ Len(net[c].replies) = 1

Answered(c) ==
    /\ Heard(c)
    /\ mail.step \in {"connecting", "tls", "greeting"} \cup DOMAIN Sayings
    /\ mail.step = "hello" => First(c) = 250
    /\ mail.step = "starttls" => First(c) # 220
    /\ mail.step \in {"from", "rcpt"} /\ First(c) = 250 => Rcpts(c) = mail.to

(* Up to DATA: it is the client's turn or the server's, never both.  (A    *)
(* second greeting in place of an answer is nothing the client goes on     *)
(* from.)                                                                  *)
InTurn(c) ==
    \/ Shut(c)
    \/ mail.step \in {"connecting", "tls", "greeting"} /\ Waits(c, {"new", "handshake"})
    \/ mail.step \in {"greeting", "upgraded"} /\ Waits(c, {"command"})
    \/ /\ mail.step \in {"upgraded", "hello"}
       /\ net[c].replies # <<>> /\ First(c) = 220
    \/ /\ mail.step = "starttls"
       /\ ses[c].phase = "handshake" /\ net[c].wire = <<>> /\ Len(net[c].replies) = 1
    \/ Asked(c)
    \/ Answered(c)

Opening == {"connecting", "tls", "greeting", "upgraded", "hello", "helo", "starttls", "auth", "from"}

(* DATA: a session that has everybody is asked, agrees, and judges.        *)
Everybody(c) == Rcpts(c) = Recipients /\ NoneOf(c)

Judged(c, x) ==
    /\ ses[c].phase # "data" /\ NoData(c)
    /\ x.code = 250 => ForAll(c)
    /\ x.code # 250 => NoneOf(c)

AtData(c) ==
    \/ Silent(c) /\ Polite(c) /\ (Shut(c) \/ Heard(c))
    \/ Says(c, {"DATA"}) /\ Everybody(c)
    \/ /\ ses[c].phase = "data" /\ net[c].wire = <<>>
       /\ Len(net[c].replies) = 1 /\ First(c) = 354 /\ Everybody(c)
    \/ Len(net[c].replies) > 1 /\ First(c) = 354 /\ Judged(c, net[c].replies[2])

AtBody(c) ==
    \/ ses[c].phase = "data" /\ NoData(c) /\ net[c].replies = <<>> /\ Everybody(c)
    \/ net[c].replies # <<>> /\ Judged(c, net[c].replies[1])

Talk(c) ==
    /\ net[c].gone = "no"
    /\ mail.step \in Opening => mail.to = 0
    /\ mail.step \in Opening \cup {"rcpt"} => Silent(c) /\ Polite(c) /\ InTurn(c)
    /\ mail.step = "data" => AtData(c)
    /\ mail.step \in {"dot", "body"} => AtBody(c)
    /\ mail.step = "quit" => ForAll(c)

(* The attempts: over, under way, and still to come.                       *)
Trying == mail.step \notin {"idle", "failed", "done"}
Tried == {C!ConnOf(k) : k \in 1 .. mail.try}

Untouched(c) ==
    /\ ses[c].phase = "new" /\ ~ net[c].up
    /\ net[c].wire = <<>> /\ net[c].replies = <<>> /\ net[c].gone = "no"
    /\ NoneOf(c)

Open == {"none", "timeout", "io", "protocol"}

Outcome(c, result) ==
    /\ result = "yes" => ForAll(c)
    /\ result \notin Open \cup {"yes"} => Silent(c)

AttemptInv ==
    /\ mail.step = "idle" => mail.to = 0
    /\ \A c \in Mailers \ Tried : Untouched(c)
    /\ \A k \in DOMAIN mail.result :
          k > mail.try \/ (k = mail.try /\ Trying) => mail.result[k] = "none"
    /\ \A c \in Mailers : \A k \in 1 .. mail.try :
          c = C!ConnOf(k) => Outcome(c, mail.result[k])
    /\ \A c \in Mailers : Trying /\ c = C!Conn => Talk(c)

-----------------------------------------------------------------------------
(* A step of somebody else: nothing happens on the connection, and what    *)
(* was accepted on it is what it was.                                      *)
Rests(c) ==
    /\ ses'[c] = ses[c] /\ net'[c] = net[c]
    /\ Accepted \subseteq Accepted' /\ (NoneOf(c) => NoneOf(c)')

LEMMA ForAllStays ==
    ASSUME NEW c, Accepted \subseteq Accepted', ForAll(c)
    PROVE  ForAll(c)'
BY DEF ForAll

LEMMA RestsKeeps ==
    ASSUME NEW c, Rests(c)
    PROVE  /\ ForAll(c) => ForAll(c)'
           /\ Silent(c) => Silent(c)'
           /\ Untouched(c) => Untouched(c)'
           /\ \A result : Outcome(c, result) => Outcome(c, result)'
           /\ UNCHANGED mail /\ Talk(c) => Talk(c)'
<1>1. (ForAll(c) => ForAll(c)') /\ (NoneOf(c) => NoneOf(c)')
  BY ForAllStays DEF Rests
<1>2. (Silent(c) => Silent(c)') /\ (Untouched(c) => Untouched(c)')
  BY <1>1 DEF Rests, Silent, NoData, Untouched
<1>3. \A result : Outcome(c, result) => Outcome(c, result)'
  BY <1>1, <1>2 DEF Outcome
<1>4. ASSUME UNCHANGED mail, Talk(c) PROVE Talk(c)'
  <2>1. Polite(c)' = Polite(c) /\ Shut(c)' = Shut(c) /\ Heard(c)' = Heard(c) /\ First(c)' = First(c)
        /\ Rcpts(c)' = Rcpts(c) /\ NoData(c)' = NoData(c)
    BY DEF Rests, Polite, Shut, Heard, First, Rcpts, NoData
  <2>2. /\ \A texts : Says(c, texts)' = Says(c, texts)
        /\ \A phases : Waits(c, phases)' = Waits(c, phases)
    BY DEF Rests, Says, Waits
  <2>3. InTurn(c)' = InTurn(c)
    BY <1>4, <2>1, <2>2 DEF Rests, InTurn, Asked, Answered
  <2>4. Everybody(c) => Everybody(c)'
    BY <1>1, <2>1 DEF Everybody
  <2>5. \A x : Judged(c, x) => Judged(c, x)'
    BY <1>1, <2>1 DEF Rests, Judged
  <2>6. AtData(c) => AtData(c)'
    BY <1>2, <2>1, <2>2, <2>4, <2>5 DEF Rests, AtData
  <2>7. AtBody(c) => AtBody(c)'
    BY <2>1, <2>4, <2>5 DEF Rests, AtBody
  <2>8. net'[c].gone = net[c].gone
    BY DEF Rests
  <2> QED
    BY <1>1, <1>2, <1>4, <2>1, <2>3, <2>6, <2>7, <2>8 DEF Talk
<1> QED
  BY <1>1, <1>2, <1>3, <1>4

-----------------------------------------------------------------------------
(* The server's steps.  Only the connection served changes, and what is    *)
(* accepted is at most its message, if 250 is the answer to a body.        *)
Takes(c) == Accepted' = Accepted \cup {MessageOf(c)} /\ sink' # sink

LEMMA ServerAccepts ==
    ASSUME SessionInv, MessagesInv, UNCHANGED intakeOnly, NEW c \in Conns,
           \/ Dialog(c) \/ Accept(c) \/ HandshakeDone(c) \/ HandshakeFailed(c)
    PROVE  \/ sink' = sink /\ Accepted' = Accepted
           \/ ses[c].phase = "data" /\ Verdict(c) = 250 /\ Takes(c)
<1>0. UNCHANGED <<taken, shelf, aside>>
  BY DEF intakeOnly
<1>1. CASE sink' = sink
  BY <1>0, <1>1, MailIsKept
<1>2. ASSUME NEW new, NEW rest, ses[c].phase = "data", Deliver(c, new, rest), sink' # sink
      PROVE  Verdict(c) = 250 /\ Takes(c)
  <2>1. Verdict(c) = 250 /\ Len(sink) < SinkSize /\ sink' = Append(sink, MessageOf(c))
    BY <1>2 DEF Deliver
  <2>2. ses[c].size <= MaxSize
    BY <2>1, Limits DEF Verdict, SessionInv, Session
  <2>3. MessageOf(c) \in GoodMessages
    BY <1>2, <2>2, MessageIsGood
  <2> DEFINE m == MessageOf(c)
  <2>4. m \in GoodMessages /\ sink' = Append(sink, m)
    BY <2>1, <2>3
  <2> HIDE DEF m
  <2>5. Accepted' = Accepted \cup {m}
    BY <1>0, <2>4, MailIsAdded
  <2> QED
    BY <1>2, <2>1, <2>5 DEF m, Takes
<1>3. CASE (FinalDot(c) \/ EndOfInput(c) \/ Timeout(c)) /\ sink' # sink
  <2>1. \E new, rest : ses[c].phase = "data" /\ Deliver(c, new, rest)
    BY <1>3 DEF FinalDot, EndOfInput, Timeout, Closes, Reads
  <2> QED
    BY <1>2, <1>3, <2>1
<1>4. CASE ~ (FinalDot(c) \/ EndOfInput(c) \/ Timeout(c))
  <2>1. sink' = sink
    BY <1>4 DEF Dialog, Accept, HandshakeDone, HandshakeFailed, Hello, Reset, Nothing, Quit,
       StartTls, AuthAsks, AuthAtOnce, AuthAnswer, Refuse530, MailFrom, RcptTo, BadAddress, Data,
       BodyLine, ReadError, Closes
  <2> QED
    BY <1>1, <2>1
<1> QED
  BY <1>1, <1>3, <1>4

LEMMA OthersRest ==
    ASSUME NEW c \in Conns, NEW d \in Conns \ {c}, ses'[d] = ses[d], net'[d] = net[d],
           Accepted' = Accepted \/ Takes(c)
    PROVE  Rests(d)
<1>1. MessageOf(c).conn # d
  BY DEF MessageOf
<1> QED
  BY <1>1 DEF Rests, NoneOf, Takes

LEMMA ServerLeavesOthers ==
    ASSUME SessionInv, SessionInv', WireInv, MessagesInv, NEW c \in Conns, Serve(c) \/ Lobby(c),
           NEW d \in Conns \ {c}
    PROVE  Rests(d)
<1>1. \/ Hello(c) \/ Quit(c) \/ StartTls(c) \/ BodyLine(c) \/ FinalDot(c) \/ EndOfInput(c)
      \/ Timeout(c) \/ ReadError(c) \/ Accept(c) \/ HandshakeFailed(c)
      \/ Reset(c) \/ Nothing(c) \/ AuthAsks(c) \/ AuthAtOnce(c) \/ AuthAnswer(c)
      \/ Refuse530(c) \/ MailFrom(c) \/ RcptTo(c) \/ BadAddress(c) \/ Data(c)
  BY DEF Serve, Lobby, Dialog
<1>2. \E r, n : GoesOn(c, r, n)
  BY <1>1, HelloMoves, StartTlsMoves, BodyLineMoves, FinalDotMoves, EndsMove, AcceptMoves,
     AnswersMove
<1>3. ses'[d] = ses[d] /\ net'[d] = net[d]
  BY <1>2 DEF GoesOn, WireInv, NetTyped, SessionInv
<1>4. Accepted' = Accepted \/ Takes(c)
  BY <1>1, ServerAccepts DEF Serve, Lobby, Dialog
<1> QED
  BY <1>3, <1>4, OthersRest

LEMMA HandshakeLeavesOthers ==
    ASSUME SessionInv, WireInv, MessagesInv, NEW c \in Conns, HandshakeDone(c),
           UNCHANGED intakeOnly, NEW d \in Conns \ {c}
    PROVE  Rests(d)
<1>1. ses'[d] = ses[d] /\ net'[d] = net[d]
  BY DEF HandshakeDone, WireInv, NetTyped, SessionInv
<1>2. Accepted' = Accepted \/ Takes(c)
  BY ServerAccepts
<1> QED
  BY <1>1, <1>2, OthersRest

(* What the server's steps on a connection of the mail client do to the    *)
(* mail.                                                                   *)
LEMMA ServerSettles ==
    ASSUME SessionInv, WireInv, MessagesInv, NEW c \in Mailers, Serve(c) \/ Lobby(c)
    PROVE  /\ Accepted \subseteq Accepted'
           /\ sink' = sink => Accepted' = Accepted
           /\ Judges(c) /\ Verdict(c) # 250 => Accepted' = Accepted
           /\ Judges(c) /\ Verdict(c) = 250 => Takes(c)
<1>1. c \in Conns
  BY ClientConstants
<1>2. \/ sink' = sink /\ Accepted' = Accepted
      \/ ses[c].phase = "data" /\ Verdict(c) = 250 /\ Takes(c)
  BY <1>1, ServerAccepts DEF Serve, Lobby
<1>3. Append(sink, MessageOf(c)) # sink
  <2>1. sink \in Seq(GoodMessages)
    BY DEF MessagesInv
  <2> DEFINE m == MessageOf(c)
  <2> HIDE DEF m
  <2>2. Len(Append(sink, m)) = Len(sink) + 1 /\ Len(sink) \in Nat
    BY <2>1
  <2>3. Append(sink, m) # sink
    BY <2>2
  <2> QED
    BY <2>3 DEF m
<1> QED
  BY <1>2, <1>3 DEF Takes, Judges

-----------------------------------------------------------------------------
(* What an answer does to those that wait to be read.                      *)
LEMMA Gotten ==
    ASSUME NetTyped, NEW c \in Mailers, net[c].gone = "no", NEW code, Gets(c, code)
    PROVE  /\ Len(net'[c].replies) = Len(net[c].replies) + 1 /\ net'[c].replies # <<>>
           /\ net[c].replies = <<>> => net'[c].replies[1].code = code
           /\ net[c].replies # <<>> => net'[c].replies[1] = net[c].replies[1]
           /\ Len(net[c].replies) = 1 => net'[c].replies[2].code = code
           /\ Len(net[c].replies) > 1 => net'[c].replies[2] = net[c].replies[2]
           /\ Polite(c) /\ code # 354 => Polite(c)'
<1>1. PICK s \in BOOLEAN :
        net'[c].replies = Append(net[c].replies, [code |-> code, starttls |-> s])
  BY DEF Gets
<1> DEFINE a == [code |-> code, starttls |-> s]
           list == net[c].replies
           more == net'[c].replies
<1>2. list \in Seq(Replies) /\ more = Append(list, a) /\ a.code = code
  BY <1>1, ClientConstants DEF NetTyped, NetRows
<1> HIDE DEF a, list, more
<1>3. /\ Len(more) = Len(list) + 1 /\ Len(list) \in Nat
      /\ \A i \in 1 .. Len(list) : more[i] = list[i]
      /\ more[Len(list) + 1] = a /\ DOMAIN more = 1 .. Len(more)
      /\ DOMAIN list = 1 .. Len(list)
      /\ (list = <<>> <=> Len(list) = 0)
  <2>1. list \in Seq(Replies \cup {a}) /\ a \in Replies \cup {a}
    BY <1>2
  <2> QED
    BY <1>2, <2>1, AppendProperties
<1>4. \A i \in 1 .. Len(more) : more[i] = a \/ (i \in 1 .. Len(list) /\ more[i] = list[i])
  <2> SUFFICES ASSUME NEW i \in 1 .. Len(more)
               PROVE  more[i] = a \/ (i \in 1 .. Len(list) /\ more[i] = list[i])
    OBVIOUS
  <2>1. i = Len(list) + 1 \/ i \in 1 .. Len(list)
    BY <1>3
  <2> QED
    BY <1>3, <2>1
<1>5. Polite(c) /\ code # 354 => Polite(c)'
  <2> SUFFICES ASSUME \A x \in ToSet(list) : x.code # 354, code # 354, NEW i \in 1 .. Len(more)
               PROVE  more[i].code # 354
    BY <1>3 DEF Polite, ToSet, list, more
  <2>1. \A k \in 1 .. Len(list) : list[k].code # 354
    BY <1>3 DEF ToSet
  <2> QED
    BY <1>2, <1>4, <2>1
<1>6. /\ more # <<>>
      /\ list = <<>> => more[1].code = code
      /\ list # <<>> => more[1] = list[1]
      /\ Len(list) = 1 => more[2].code = code
      /\ Len(list) > 1 => more[2] = list[2]
  <2>1. list # <<>> => 1 \in 1 .. Len(list)
    BY <1>3
  <2>2. Len(list) > 1 => 2 \in 1 .. Len(list)
    BY <1>3
  <2>3. Len(more) # 0
    BY <1>3
  <2>4. list = <<>> => Len(list) + 1 = 1
    BY <1>3
  <2>5. Len(list) = 1 => Len(list) + 1 = 2
    BY <1>3
  <2> QED
    BY <1>2, <1>3, <2>1, <2>2, <2>3, <2>4, <2>5
<1> QED
  BY <1>3, <1>5, <1>6 DEF list, more

(* Less is on the wire after a line was read.                              *)
LEMMA LessOnWire ==
    ASSUME NEW w \in Seq(Lines), NEW v \in {w, Tail(w)}
    PROVE  /\ ToSet(v) \subseteq ToSet(w)
           /\ w = <<>> => v = <<>>
           /\ v = Tail(w) /\ Len(w) = 1 => v = <<>>
           /\ w # <<>> => w[1] \in ToSet(w)
<1>1. CASE w = <<>>
  <2>1. Tail(<<>>) = <<>>
    OBVIOUS
  <2>2. Tail(w) = w
    BY <1>1, <2>1
  <2>3. v = w
    BY <2>2
  <2>4. Len(w) # 1
    BY <1>1
  <2> QED
    BY <1>1, <2>3, <2>4
<1>2. CASE w # <<>>
  <2>1. /\ DOMAIN w = 1 .. Len(w) /\ Len(w) \in Nat /\ 1 \in 1 .. Len(w)
        /\ DOMAIN Tail(w) = 1 .. Len(w) - 1
        /\ \A i \in 1 .. Len(w) - 1 : Tail(w)[i] = w[i + 1] /\ i + 1 \in 1 .. Len(w)
    BY <1>2
  <2>2. ToSet(Tail(w)) \subseteq ToSet(w)
    BY <2>1 DEF ToSet
  <2>3. w[1] \in ToSet(w)
    BY <2>1 DEF ToSet
  <2>4. Len(w) = 1 => Tail(w) = <<>>
    <3>1. Tail(w) \in Seq(Lines) /\ Len(Tail(w)) = Len(w) - 1
      BY <1>2
    <3> DEFINE tail == Tail(w)
    <3>2. tail \in Seq(Lines) /\ (Len(w) = 1 => Len(tail) = 0)
      BY <3>1
    <3> HIDE DEF tail
    <3>3. Len(w) = 1 => tail = <<>>
      BY <3>2
    <3> QED
      BY <3>3 DEF tail
  <2> QED
    BY <1>2, <2>2, <2>3, <2>4
<1> QED
  BY <1>1, <1>2

-----------------------------------------------------------------------------
(* While no DATA is on the way the server's steps come to nothing.         *)
Quiet(c) == ses[c].phase # "data" /\ NoData(c)

Heads(c) ==
    /\ net'[c].gone = "no"
    /\ net[c].replies # <<>> => /\ net'[c].replies # <<>>
                                /\ net'[c].replies[1] = net[c].replies[1]
    /\ Len(net[c].replies) > 1 => /\ Len(net'[c].replies) > 1
                                  /\ net'[c].replies[2] = net[c].replies[2]
    /\ Polite(c) => Polite(c)'

LEMMA HeadsStay ==
    ASSUME NetTyped, NEW c \in Mailers, net[c].gone = "no", net'[c].gone = "no",
           net'[c].replies = net[c].replies \/ \E code : code # 354 /\ Gets(c, code)
    PROVE  Heads(c)
<1>1. CASE net'[c].replies = net[c].replies
  BY <1>1 DEF Heads, Polite
<1>2. ASSUME NEW code, code # 354, Gets(c, code) PROVE Heads(c)
  <2>1. Len(net[c].replies) \in Nat
    BY ClientConstants DEF NetTyped, NetRows
  <2>2. /\ Len(net'[c].replies) = Len(net[c].replies) + 1 /\ net'[c].replies # <<>>
        /\ net[c].replies # <<>> => net'[c].replies[1] = net[c].replies[1]
        /\ Len(net[c].replies) > 1 => net'[c].replies[2] = net[c].replies[2]
        /\ Polite(c) => Polite(c)'
    BY <1>2, Gotten
  <2>3. Len(net[c].replies) > 1 => Len(net'[c].replies) > 1
    BY <2>1, <2>2
  <2> QED
    BY <2>2, <2>3 DEF Heads
<1> QED
  BY <1>1, <1>2

LEMMA QuietKept ==
    ASSUME SessionInv, WireInv, NEW c \in Mailers, Does(c), Quiet(c)
    PROVE  /\ Quiet(c)' /\ sink' = sink
           /\ net[c].gone = "no" => Heads(c)
<1> DEFINE w == net[c].wire
           phase == ses'[c].phase
<1>1. w \in Seq(Lines) /\ NetTyped
  BY ClientConstants DEF WireInv, NetTyped, NetRows
<1>2. ses[c].phase # "data" /\ \A l \in ToSet(w) : l.text # "DATA"
  BY DEF Quiet, NoData
<1>3. /\ ToSet(Tail(w)) \subseteq ToSet(w)
      /\ w # <<>> => w[1].text # "DATA"
  <2>1. Tail(w) \in {w, Tail(w)}
    OBVIOUS
  <2>2. ToSet(Tail(w)) \subseteq ToSet(w) /\ (w # <<>> => w[1] \in ToSet(w))
    BY <1>1, <2>1, LessOnWire
  <2> QED
    BY <1>2, <2>2
<1>4. ToSet(<<>>) = {}
  BY DEF ToSet
<1>5. CASE Finishes(c)
  <2>1. phase = "closed" /\ sink' = sink /\ net'[c].wire = <<>> /\ net'[c].gone = "no"
        /\ (net'[c].replies = net[c].replies \/ \E code \in {221, 421} : Gets(c, code))
    BY <1>5 DEF Finishes
  <2>2. net'[c].replies = net[c].replies \/ \E code : code # 354 /\ Gets(c, code)
    BY <2>1
  <2> QED
    BY <1>1, <1>4, <2>1, <2>2, HeadsStay DEF Quiet, NoData
<1>6. CASE Starts(c)
  <2>1. /\ phase # "data" /\ sink' = sink /\ net'[c].wire = w /\ net'[c].gone = net[c].gone
        /\ net'[c].replies = net[c].replies \/ Gets(c, 220)
    BY <1>6 DEF Starts
  <2>2. net'[c].replies = net[c].replies \/ \E code : code # 354 /\ Gets(c, code)
    BY <2>1
  <2> QED
    BY <1>1, <1>2, <2>1, <2>2, HeadsStay DEF Quiet, NoData
<1>7. CASE GrantsTls(c)
  <2>1. /\ phase # "data" /\ sink' = sink /\ ToSet(net'[c].wire) \subseteq ToSet(w)
        /\ net'[c].gone = net[c].gone /\ Gets(c, 220)
    BY <1>7 DEF GrantsTls
  <2>2. \E code : code # 354 /\ Gets(c, code)
    BY <2>1
  <2> QED
    BY <1>1, <1>2, <2>1, <2>2, HeadsStay DEF Quiet, NoData
<1>8. CASE Turns(c) /\ w # <<>>
  <2>1. PICK code, to, rcpt : Reply(c, code, to, rcpt) /\ Rules(ses[c], w[1].text, code, to, rcpt)
    BY <1>8 DEF Turns
  <2>2. code # 354 /\ to # "data"
    BY <1>3, <1>8, <2>1 DEF Rules
  <2>3. /\ phase = to /\ sink' = sink /\ net'[c].wire = Tail(w) /\ net'[c].gone = net[c].gone
        /\ Gets(c, code)
    BY <2>1 DEF Reply, Gets
  <2>4. \E x : x # 354 /\ Gets(c, x)
    BY <2>2, <2>3
  <2>5. net[c].gone = "no" => Heads(c)
    BY <1>1, <2>3, <2>4, HeadsStay
  <2> QED
    BY <1>2, <1>3, <2>2, <2>3, <2>5 DEF Quiet, NoData
<1> QED
  BY <1>2, <1>5, <1>6, <1>7, <1>8 DEF Does

LEMMA GotFirst ==
    ASSUME NetTyped, NEW c \in Mailers, net[c].gone = "no", net[c].replies = <<>>,
           NEW code, Gets(c, code)
    PROVE  Len(net'[c].replies) = 1 /\ net'[c].replies # <<>> /\ First(c)' = code
<1>1. /\ Len(net'[c].replies) = Len(net[c].replies) + 1 /\ net'[c].replies # <<>>
      /\ net[c].replies = <<>> => net'[c].replies[1].code = code
  BY Gotten
<1>2. Len(net[c].replies) = 0
  OBVIOUS
<1> QED
  BY <1>1, <1>2 DEF First

(* The server answers a line, and says no more until it reads the next.    *)
LEMMA RcptsOf ==
    ASSUME SessionInv, NEW c \in Conns
    PROVE  /\ IsFiniteSet(ses[c].rcpt) /\ Rcpts(c) \in Nat
           /\ Cardinality(ses[c].rcpt \cup {ses[c].line + 1}) = Rcpts(c) + 1
<1>1. Enclosed(ses[c]) /\ ses[c].line \in Nat /\ ses[c].rcpt \subseteq Nat
  BY DEF SessionInv, Session
<1>2. IsFiniteSet(ses[c].rcpt)
  BY <1>1 DEF Enclosed, Few
<1>3. \A l \in ses[c].rcpt : l <= ses[c].line /\ l \in Nat
  BY <1>1 DEF Enclosed, Envelope
<1>4. ses[c].line + 1 \notin ses[c].rcpt
  <2>1. ~ (ses[c].line + 1 <= ses[c].line)
    BY <1>1
  <2> QED
    BY <1>3, <2>1
<1>5. Cardinality(ses[c].rcpt) \in Nat
  BY <1>2, FS_CardinalityType
<1>6. Cardinality(ses[c].rcpt \cup {ses[c].line + 1}) = Cardinality(ses[c].rcpt) + 1
  BY <1>2, <1>4, FS_AddElement
<1> QED
  BY <1>2, <1>5, <1>6 DEF Rcpts

LEMMA AskedIsAnswered ==
    ASSUME SessionInv, WireInv, NEW c \in Mailers, Does(c), ~ Finishes(c), UNCHANGED mail,
           net[c].gone = "no", mail.step \in Opening => mail.to = 0, Asked(c), NoData(c)
    PROVE  InTurn(c)'
<1> DEFINE s == ses[c]
           w == net[c].wire
           t == w[1].text
           step == mail.step
<1>1. /\ s.phase = "command" /\ net[c].replies = <<>> /\ Len(w) = 1
      /\ step \in DOMAIN Sayings /\ t \in Sayings[step]
      /\ step = "rcpt" => Rcpts(c) + 1 = mail.to
  BY DEF Asked, Says
<1>2. w \in Seq(Lines) /\ w # <<>> /\ NetTyped /\ c \in Conns
  BY <1>1, ClientConstants DEF WireInv, NetTyped, NetRows
<1>3. step \in {"hello", "starttls", "auth", "from", "rcpt"}
  BY <1>1 DEF Sayings
<1>4. /\ step = "hello" => t = "HELLO"
      /\ step = "starttls" => t = "STARTTLS"
      /\ step = "auth" => t \in {"PLAIN right", "PLAIN wrong"}
      /\ step = "from" => t = "MAIL"
      /\ step = "rcpt" => t = "RCPT"
  <2>1. /\ Sayings["hello"] = {"HELLO"} /\ Sayings["starttls"] = {"STARTTLS"}
        /\ Sayings["auth"] = {"PLAIN right", "PLAIN wrong"}
        /\ Sayings["from"] = {"MAIL"} /\ Sayings["rcpt"] = {"RCPT"}
    BY DEF Sayings
  <2> QED
    BY <1>1, <2>1
<1> HIDE DEF t
<1>5. (GrantsTls(c) /\ t = "STARTTLS") \/ Turns(c)
  BY <1>1, <1>2 DEF Does, t
<1>7. CASE GrantsTls(c) /\ t = "STARTTLS"
  <2>1. step = "starttls"
    BY <1>3, <1>4, <1>7
  <2>2. ses'[c].phase = "handshake" /\ net'[c].wire = <<>> /\ Gets(c, 220)
    BY <1>1, <1>7 DEF GrantsTls
  <2>3. Len(net'[c].replies) = 1
    BY <1>1, <1>2, <2>2, GotFirst
  <2> QED
    BY <2>1, <2>2, <2>3 DEF InTurn
<1>8. CASE Turns(c)
  <2>1. PICK code, phase, rcpt : Reply(c, code, phase, rcpt) /\ Rules(s, t, code, phase, rcpt)
    BY <1>8 DEF Turns, t
  <2>2. Gets(c, code) /\ net'[c].wire = Tail(w) /\ ses'[c].phase = phase /\ ses'[c].rcpt = rcpt
    BY <2>1 DEF Reply, Gets
  <2>3. Len(net'[c].replies) = 1 /\ First(c)' = code
    BY <1>1, <1>2, <2>2, GotFirst
  <2>4. net'[c].wire = <<>>
    <3>1. Tail(w) \in {w, Tail(w)}
      OBVIOUS
    <3> QED
      BY <1>1, <1>2, <2>2, <3>1, LessOnWire
  <2>5. t \in {"HELLO", "STARTTLS", "PLAIN right", "PLAIN wrong", "MAIL", "RCPT"}
    BY <1>3, <1>4
  <2>6. phase = "command" /\ code # 220
    BY <1>1, <2>1, <2>5 DEF Rules
  <2>7. step = "hello" => code = 250
    BY <1>1, <1>4, <2>1 DEF Rules
  <2>8. step \in {"from", "rcpt"} /\ code = 250 => Rcpts(c)' = mail.to
    <3>1. CASE step = "from" /\ code = 250
      <4>1. rcpt = {} /\ mail.to = 0
        BY <1>1, <1>4, <2>1, <3>1 DEF Rules, Opening
      <4> QED
        BY <2>2, <4>1, FS_EmptySet DEF Rcpts
    <3>2. CASE step = "rcpt" /\ code = 250
      <4>1. rcpt = s.rcpt \cup {s.line + 1}
        BY <1>1, <1>4, <2>1, <3>2 DEF Rules
      <4>2. Rcpts(c)' = Rcpts(c) + 1
        <5>1. Cardinality(s.rcpt \cup {s.line + 1}) = Rcpts(c) + 1
          BY <1>2, RcptsOf
        <5> QED
          BY <2>2, <4>1, <5>1 DEF Rcpts
      <4> QED
        BY <1>1, <3>2, <4>2
    <3> QED
      BY <3>1, <3>2
  <2>9. Heard(c)'
    BY <2>2, <2>3, <2>4, <2>6 DEF Heard
  <2>10. step \in DOMAIN Sayings
    BY <1>1
  <2>11. Answered(c)'
    BY <2>3, <2>6, <2>7, <2>8, <2>9, <2>10 DEF Answered
  <2> QED
    BY <2>11 DEF InTurn
<1> QED
  BY <1>5, <1>7, <1>8

LEMMA TurnTaken ==
    ASSUME SessionInv, WireInv, NEW c \in Mailers, Does(c), UNCHANGED mail,
           net[c].gone = "no", mail.step \in Opening => mail.to = 0, Quiet(c), InTurn(c)
    PROVE  InTurn(c)'
<1>1. NetTyped /\ ses[c].phase # "data" /\ NoData(c)
  BY DEF WireInv, Quiet
<1>2. Heads(c)
  BY QuietKept
<1>3. CASE Finishes(c)
  <2>1. Shut(c)'
    BY <1>3 DEF Finishes, Shut
  <2> QED
    BY <2>1 DEF InTurn
<1>4. CASE Asked(c) /\ ~ Finishes(c)
  BY <1>1, <1>4, AskedIsAnswered
<1>5. CASE Shut(c) /\ ~ Finishes(c)
  BY <1>5 DEF Does, Shut, Reading
<1>6. CASE /\ ~ Finishes(c) /\ mail.step \in {"connecting", "tls", "greeting"}
           /\ Waits(c, {"new", "handshake"})
  <2>1. net[c].wire = <<>> /\ net[c].replies = <<>> /\ Starts(c)
    BY <1>1, <1>6 DEF Waits, Does, Reading
  <2>2. CASE ses'[c].phase = "handshake" /\ net'[c].replies = net[c].replies
    <3>1. Waits(c, {"new", "handshake"})'
      BY <2>1, <2>2 DEF Waits, Starts
    <3> QED
      BY <1>6, <3>1 DEF InTurn
  <2>3. CASE ses'[c].phase = "command" /\ Gets(c, 220)
    <3>2. Len(net'[c].replies) = 1
      BY <1>1, <2>1, <2>3, GotFirst
    <3>3. Heard(c)'
      BY <2>1, <2>3, <3>2 DEF Heard, Starts
    <3>4. Answered(c)'
      BY <1>6, <3>3 DEF Answered
    <3> QED
      BY <3>4 DEF InTurn
  <2> QED
    BY <2>1, <2>2, <2>3 DEF Starts
<1>7. CASE /\ ~ Finishes(c)
           /\ \/ Waits(c, {"command"}) \/ Heard(c)
              \/ ses[c].phase = "handshake" /\ net[c].wire = <<>>
  BY <1>1, <1>7 DEF Does, Waits, Heard, Reading
<1>8. CASE mail.step \in {"upgraded", "hello"} /\ net[c].replies # <<>> /\ First(c) = 220
  BY <1>2, <1>8 DEF Heads, First, InTurn
<1> QED
  BY <1>3, <1>4, <1>5, <1>6, <1>7, <1>8 DEF InTurn, Answered

(* Nothing comes of a quiet connection, and what a verdict says is so.     *)
LEMMA QuietServed ==
    ASSUME SessionInv, WireInv, MessagesInv, NEW c \in Mailers, Serve(c) \/ Lobby(c), Quiet(c),
           net[c].gone = "no"
    PROVE  Does(c) /\ Quiet(c)' /\ Accepted' = Accepted /\ Heads(c)
<1>1. Does(c)
  BY ServerDoes
<1>2. Quiet(c)' /\ sink' = sink /\ Heads(c)
  BY <1>1, QuietKept
<1> QED
  BY <1>1, <1>2, ServerSettles

LEMMA Judgement ==
    ASSUME SessionInv, WireInv, MessagesInv, NEW c \in Mailers, Serve(c) \/ Lobby(c), Judges(c),
           NoData(c), Everybody(c), net[c].gone = "no"
    PROVE  /\ Quiet(c)' /\ net'[c].gone = "no" /\ Gets(c, Verdict(c))
           /\ Verdict(c) = 250 => ForAll(c)'
           /\ Verdict(c) # 250 => NoneOf(c)'
<1>1. ses'[c].phase = "command" /\ net'[c].wire \in {net[c].wire, Tail(net[c].wire)}
      /\ net'[c].gone = "no" /\ Gets(c, Verdict(c))
  BY DEF Judges
<1>2. net[c].wire \in Seq(Lines)
  BY ClientConstants DEF WireInv, NetTyped, NetRows
<1>3. ToSet(net'[c].wire) \subseteq ToSet(net[c].wire)
  BY <1>1, <1>2, LessOnWire
<1>4. Quiet(c)'
  BY <1>1, <1>3 DEF Quiet, NoData
<1>5. CASE Verdict(c) = 250
  <2>1. Takes(c)
    BY <1>5, ServerSettles
  <2> DEFINE m == MessageOf(c)
  <2>2. m.conn = c /\ Cardinality(m.rcpt) = Recipients /\ m \in Accepted'
    BY <2>1 DEF MessageOf, Takes, Everybody, Rcpts
  <2> HIDE DEF m
  <2>3. ForAll(c)'
    BY <2>2 DEF ForAll
  <2> QED
    BY <1>1, <1>4, <1>5, <2>3
<1>6. CASE Verdict(c) # 250
  <2>1. Accepted' = Accepted
    BY <1>6, ServerSettles
  <2>2. NoneOf(c)'
    BY <2>1 DEF NoneOf, Everybody
  <2> QED
    BY <1>1, <1>4, <1>6, <2>2
<1> QED
  BY <1>5, <1>6

LEMMA AtBodyServed ==
    ASSUME SessionInv, WireInv, MessagesInv, NEW c \in Mailers, Serve(c) \/ Lobby(c), AtBody(c),
           net[c].gone = "no"
    PROVE  AtBody(c)' /\ net'[c].gone = "no"
<1>1. Does(c) /\ NetTyped
  BY ServerDoes DEF WireInv
<1>2. CASE ses[c].phase = "data" /\ NoData(c) /\ net[c].replies = <<>> /\ Everybody(c)
  <2>1. Judges(c) \/ (ReadsOn(c) /\ net[c].wire # <<>>)
    BY <1>1, <1>2 DEF Does, Reading
  <2>2. CASE Judges(c)
    <3>1. /\ Quiet(c)' /\ net'[c].gone = "no" /\ Gets(c, Verdict(c))
          /\ Verdict(c) = 250 => ForAll(c)'
          /\ Verdict(c) # 250 => NoneOf(c)'
      BY <1>2, <2>2, Judgement
    <3>2. net'[c].replies # <<>> /\ First(c)' = Verdict(c)
      BY <1>1, <1>2, <3>1, GotFirst
    <3>3. Judged(c, net[c].replies[1])'
      BY <3>1, <3>2 DEF Judged, First, Quiet
    <3> QED
      BY <3>1, <3>2, <3>3 DEF AtBody
  <2>3. CASE ReadsOn(c) /\ net[c].wire # <<>>
    <3>1. /\ ses'[c].phase = "data" /\ ses'[c].rcpt = ses[c].rcpt /\ sink' = sink
          /\ net'[c].wire = Tail(net[c].wire) /\ net'[c].gone = "no"
          /\ net'[c].replies = <<>>
      BY <1>2, <2>3 DEF ReadsOn
    <3>2. net[c].wire \in Seq(Lines) /\ Tail(net[c].wire) \in {net[c].wire, Tail(net[c].wire)}
      BY <1>1, ClientConstants DEF NetTyped, NetRows
    <3>3. ToSet(net'[c].wire) \subseteq ToSet(net[c].wire)
      BY <3>1, <3>2, LessOnWire
    <3>4. Accepted' = Accepted
      BY <3>1, ServerSettles
    <3>5. NoData(c)' /\ Everybody(c)'
      BY <1>2, <3>1, <3>3, <3>4 DEF NoData, Everybody, Rcpts, NoneOf
    <3> QED
      BY <3>1, <3>5 DEF AtBody
  <2> QED
    BY <2>1, <2>2, <2>3
<1>3. CASE net[c].replies # <<>> /\ Judged(c, net[c].replies[1])
  <2> DEFINE x == net[c].replies[1]
  <2>1. Quiet(c)
    BY <1>3 DEF Judged, Quiet
  <2>2. Quiet(c)' /\ Accepted' = Accepted /\ Heads(c)
    BY <2>1, QuietServed
  <2>3. net'[c].gone = "no" /\ net'[c].replies # <<>> /\ net'[c].replies[1] = x
    BY <1>3, <2>2 DEF Heads
  <2>4. Judged(c, x)
    BY <1>3
  <2> HIDE DEF x
  <2>5. /\ ses'[c].phase # "data" /\ NoData(c)'
        /\ x.code = 250 => ForAll(c)'
        /\ x.code # 250 => NoneOf(c)'
    BY <2>2, <2>4 DEF Judged, Quiet, ForAll, NoneOf
  <2>6. Judged(c, net[c].replies[1])'
    BY <2>3, <2>5 DEF Judged
  <2> QED
    BY <2>3, <2>6 DEF AtBody
<1> QED
  BY <1>2, <1>3 DEF AtBody

LEMMA AtDataServed ==
    ASSUME SessionInv, WireInv, MessagesInv, NEW c \in Mailers, Serve(c) \/ Lobby(c), AtData(c),
           net[c].gone = "no"
    PROVE  AtData(c)' /\ net'[c].gone = "no"
<1>1. Does(c) /\ NetTyped /\ net[c].wire \in Seq(Lines)
  BY ServerDoes, ClientConstants DEF WireInv, NetTyped, NetRows
<1>2. CASE Silent(c) /\ Polite(c) /\ (Shut(c) \/ Heard(c))
  <2>1. Quiet(c)' /\ Accepted' = Accepted /\ Heads(c)
    BY <1>2, QuietServed DEF Silent, Quiet
  <2>2. Silent(c)' /\ Polite(c)' /\ net'[c].gone = "no"
    BY <1>2, <2>1 DEF Silent, Quiet, NoneOf, Heads
  <2>3. Finishes(c)
    BY <1>1, <1>2 DEF Does, Shut, Heard, Reading
  <2>4. Shut(c)'
    BY <2>3 DEF Shut, Finishes
  <2> QED
    BY <2>2, <2>4 DEF AtData
<1>3. CASE Says(c, {"DATA"}) /\ Everybody(c)
  <2>1. /\ ses[c].phase = "command" /\ net[c].replies = <<>> /\ Len(net[c].wire) = 1
        /\ net[c].wire[1].text = "DATA" /\ net[c].wire # <<>> /\ NoneOf(c)
    BY <1>1, <1>3 DEF Says, Everybody
  <2>2. Polite(c)
    BY <2>1 DEF Polite, ToSet
  <2>3. Finishes(c) \/ Turns(c)
    BY <1>1, <2>1 DEF Does
  <2>4. CASE Finishes(c)
    <3>1. /\ ses'[c].phase = "closed" /\ sink' = sink /\ net'[c].wire = <<>>
          /\ net'[c].gone = "no"
          /\ net'[c].replies = net[c].replies \/ \E code \in {221, 421} : Gets(c, code)
      BY <2>4 DEF Finishes
    <3>2. net'[c].replies = net[c].replies \/ \E code : code # 354 /\ Gets(c, code)
      BY <3>1
    <3>3. Heads(c)
      BY <1>1, <3>1, <3>2, HeadsStay
    <3>4. Accepted' = Accepted
      BY <3>1, ServerSettles
    <3>5. Silent(c)' /\ Polite(c)' /\ Shut(c)'
      BY <2>1, <2>2, <3>1, <3>3, <3>4 DEF Silent, NoData, NoneOf, Heads, Shut, ToSet
    <3> QED
      BY <3>1, <3>5 DEF AtData
  <2>5. CASE Turns(c)
    <3>1. PICK code, phase, rcpt : /\ Reply(c, code, phase, rcpt)
                                   /\ Rules(ses[c], net[c].wire[1].text, code, phase, rcpt)
      BY <2>5 DEF Turns
    <3>2. /\ Gets(c, code) /\ net'[c].wire = Tail(net[c].wire) /\ ses'[c].phase = phase
          /\ ses'[c].rcpt = rcpt /\ sink' = sink /\ net'[c].gone = "no"
      BY <3>1 DEF Reply, Gets
    <3>3. net'[c].wire = <<>>
      <4>1. Tail(net[c].wire) \in {net[c].wire, Tail(net[c].wire)}
        OBVIOUS
      <4> QED
        BY <1>1, <2>1, <3>2, <4>1, LessOnWire
    <3>4. Len(net'[c].replies) = 1 /\ First(c)' = code
      BY <1>1, <2>1, <3>2, GotFirst
    <3>5. Accepted' = Accepted
      BY <3>2, ServerSettles
    <3>6. NoneOf(c)'
      BY <2>1, <3>5 DEF NoneOf
    <3>7. CASE code = 354
      <4>1. phase = "data" /\ rcpt = ses[c].rcpt
        BY <3>1, <3>7 DEF Rules
      <4>2. Everybody(c)'
        BY <1>3, <3>2, <3>6, <4>1 DEF Everybody, Rcpts
      <4> QED
        BY <3>2, <3>3, <3>4, <3>7, <4>1, <4>2 DEF AtData
    <3>8. CASE code # 354
      <4>1. phase = "command"
        BY <2>1, <3>1, <3>8 DEF Rules
      <4>2. Polite(c)'
        <5>1. \E x : x # 354 /\ Gets(c, x)
          BY <3>2, <3>8
        <5>2. Heads(c)
          BY <1>1, <3>2, <5>1, HeadsStay
        <5> QED
          BY <2>2, <5>2 DEF Heads
      <4>3. Heard(c)'
        BY <3>2, <3>3, <3>4, <4>1 DEF Heard
      <4>4. ToSet(<<>>) = {}
        BY DEF ToSet
      <4>5. Silent(c)'
        BY <3>2, <3>3, <3>6, <4>1, <4>4 DEF Silent, NoData
      <4> QED
        BY <3>2, <4>2, <4>3, <4>5 DEF AtData
    <3> QED
      BY <3>7, <3>8
  <2> QED
    BY <2>3, <2>4, <2>5
<1>4. CASE /\ ses[c].phase = "data" /\ net[c].wire = <<>>
           /\ Len(net[c].replies) = 1 /\ First(c) = 354 /\ Everybody(c)
  <2>1. Judges(c)
    BY <1>1, <1>4 DEF Does, Reading
  <2>2. NoData(c)
    BY <1>4 DEF NoData, ToSet
  <2>3. /\ Quiet(c)' /\ net'[c].gone = "no" /\ Gets(c, Verdict(c))
        /\ Verdict(c) = 250 => ForAll(c)'
        /\ Verdict(c) # 250 => NoneOf(c)'
    BY <1>4, <2>1, <2>2, Judgement
  <2>4. Len(net[c].replies) = 1
    BY <1>4
  <2>5. /\ net[c].replies # <<>>
        /\ Len(net'[c].replies) = 2
        /\ net'[c].replies[1] = net[c].replies[1]
        /\ net'[c].replies[2].code = Verdict(c)
    <3> DEFINE code == Verdict(c)
    <3>1. Gets(c, code)
      BY <2>3
    <3> HIDE DEF code
    <3>2. /\ Len(net'[c].replies) = Len(net[c].replies) + 1 /\ net'[c].replies # <<>>
          /\ net[c].replies = <<>> => net'[c].replies[1].code = code
          /\ net[c].replies # <<>> => net'[c].replies[1] = net[c].replies[1]
          /\ Len(net[c].replies) = 1 => net'[c].replies[2].code = code
          /\ Len(net[c].replies) > 1 => net'[c].replies[2] = net[c].replies[2]
          /\ Polite(c) /\ code # 354 => Polite(c)'
      BY <1>1, <3>1, Gotten
    <3>3. net[c].replies # <<>>
      <4>1. Len(<<>>) # 1
        OBVIOUS
      <4> QED
        BY <2>4, <4>1, Zenon
    <3> QED
      BY <2>4, <3>2, <3>3 DEF code
  <2>6. Len(net'[c].replies) > 1 /\ First(c)' = 354
    BY <1>4, <2>5 DEF First
  <2>7. Judged(c, net[c].replies[2])'
    BY <2>3, <2>5 DEF Judged, Quiet
  <2> QED
    BY <2>3, <2>6, <2>7 DEF AtData
<1>5. CASE Len(net[c].replies) > 1 /\ First(c) = 354 /\ Judged(c, net[c].replies[2])
  <2> DEFINE x == net[c].replies[2]
  <2>1. Quiet(c)
    BY <1>5 DEF Judged, Quiet
  <2>2. Quiet(c)' /\ Accepted' = Accepted /\ Heads(c)
    BY <2>1, QuietServed
  <2>3. net[c].replies # <<>>
    BY <1>5
  <2>4. /\ net'[c].gone = "no" /\ Len(net'[c].replies) > 1 /\ net'[c].replies[2] = x
        /\ First(c)' = 354
    BY <1>5, <2>2, <2>3 DEF Heads, First
  <2>5. Judged(c, x)
    BY <1>5
  <2> HIDE DEF x
  <2>6. /\ ses'[c].phase # "data" /\ NoData(c)'
        /\ x.code = 250 => ForAll(c)'
        /\ x.code # 250 => NoneOf(c)'
    BY <2>2, <2>5 DEF Judged, Quiet, ForAll, NoneOf
  <2>7. Judged(c, net[c].replies[2])'
    BY <2>4, <2>6 DEF Judged
  <2> QED
    BY <2>4, <2>7 DEF AtData
<1> QED
  BY <1>2, <1>3, <1>4, <1>5 DEF AtData

(* The attempt under way, served.                                          *)
LEMMA StaysUp ==
    ASSUME NEW c \in Mailers, Does(c), net[c].gone = "no"
    PROVE  net'[c].gone = "no"
BY DEF Does, Finishes, Starts, Judges, ReadsOn, GrantsTls, Turns, Reply

LEMMA TalkServed ==
    ASSUME SessionInv, WireInv, MessagesInv, NEW c \in Mailers, Serve(c) \/ Lobby(c), Talk(c)
    PROVE  Talk(c)'
<1>1. Does(c) /\ UNCHANGED mail
  BY ServerDoes DEF Serve, Lobby
<1>2. net[c].gone = "no" /\ net'[c].gone = "no"
  BY <1>1, StaysUp DEF Talk
<1>3. CASE mail.step \in Opening \cup {"rcpt"}
  <2>1. /\ Silent(c) /\ Polite(c) /\ InTurn(c) /\ Quiet(c)
        /\ mail.step \in Opening => mail.to = 0
    BY <1>3 DEF Talk, Silent, Quiet
  <2>2. Quiet(c)' /\ Accepted' = Accepted /\ Heads(c)
    BY <1>2, <2>1, QuietServed
  <2>3. Silent(c)' /\ Polite(c)'
    BY <2>1, <2>2 DEF Silent, Quiet, NoneOf, Heads
  <2>4. InTurn(c)'
    BY <1>1, <1>2, <2>1, TurnTaken
  <2>5. mail'.step \notin {"data", "dot", "body", "quit"}
    BY <1>1, <1>3 DEF Opening
  <2> QED
    BY <1>1, <1>2, <2>1, <2>3, <2>4, <2>5 DEF Talk
<1>4. CASE mail.step = "data"
  <2>1. AtData(c)'
    BY <1>2, <1>4, AtDataServed DEF Talk
  <2>2. mail'.step = "data"
    BY <1>1, <1>4
  <2> QED
    BY <1>2, <2>1, <2>2 DEF Talk, Opening
<1>5. CASE mail.step \in {"dot", "body"}
  <2>1. AtBody(c)'
    BY <1>2, <1>5, AtBodyServed DEF Talk
  <2>2. mail'.step \in {"dot", "body"}
    BY <1>1, <1>5
  <2> QED
    BY <1>2, <2>1, <2>2 DEF Talk, Opening
<1>6. CASE mail.step = "quit"
  <2>1. ForAll(c)'
    BY <1>6, ServerSettles, ForAllStays DEF Talk
  <2>2. mail'.step = "quit"
    BY <1>1, <1>6
  <2> QED
    BY <1>2, <2>1, <2>2 DEF Talk, Opening
<1>7. CASE mail.step \notin Opening \cup {"rcpt", "data", "dot", "body", "quit"}
  BY <1>1, <1>2, <1>7 DEF Talk
<1> QED
  BY <1>3, <1>4, <1>5, <1>6, <1>7

(* What the invariant says of a connection holds after a step in which     *)
(* the mail client does nothing.                                           *)
Keeps(c) ==
    /\ Untouched(c) => Untouched(c)'
    /\ \A result : Outcome(c, result) => Outcome(c, result)'
    /\ Talk(c) => Talk(c)'

LEMMA AllKeep ==
    ASSUME AttemptInv, UNCHANGED mail, \A c \in Mailers : Keeps(c)
    PROVE  AttemptInv'
<1>1. C!Conn' = C!Conn /\ \A k : (C!ConnOf(k))' = C!ConnOf(k)
  BY ConnSame
<1>2. Tried' = Tried
  BY <1>1 DEF Tried
<1>3. Trying' = Trying
  BY DEF Trying
<1>4. \A c \in Mailers \ Tried' : Untouched(c)'
  BY <1>2 DEF AttemptInv, Keeps
<1>5. \A c \in Mailers : \A k \in 1 .. mail'.try :
          c = (C!ConnOf(k))' => Outcome(c, mail.result[k])'
  <2> SUFFICES ASSUME NEW c \in Mailers, NEW k \in 1 .. mail.try, c = C!ConnOf(k)
               PROVE  Outcome(c, mail.result[k])'
    BY <1>1
  <2>1. Outcome(c, mail.result[k])
    BY DEF AttemptInv
  <2>2. PICK r : r = mail.result[k]
    OBVIOUS
  <2>3. Outcome(c, r)'
    BY <2>1, <2>2 DEF Keeps
  <2> QED
    BY <2>2, <2>3 DEF Outcome
<1>6. \A c \in Mailers : Trying' /\ c = C!Conn' => Talk(c)'
  BY <1>1, <1>3 DEF AttemptInv, Keeps
<1>7. \A k \in DOMAIN mail'.result :
          k > mail'.try \/ (k = mail'.try /\ Trying') => mail'.result[k] = "none"
  BY <1>3 DEF AttemptInv
<1>8. mail'.step = "idle" => mail'.to = 0
  BY DEF AttemptInv
<1> QED
  BY <1>4, <1>5, <1>6, <1>7, <1>8 DEF AttemptInv

LEMMA AttemptServed ==
    ASSUME SessionInv, SessionInv', WireInv, MessagesInv, AttemptInv, NEW c \in Conns,
           Serve(c) \/ Lobby(c)
    PROVE  AttemptInv'
<1>1. UNCHANGED mail
  BY DEF Serve, Lobby
<1>2. ASSUME NEW d \in Mailers, d # c PROVE Keeps(d)
  <2>1. Rests(d)
    BY <1>2, ServerLeavesOthers, ClientConstants
  <2> QED
    BY <1>1, <2>1, RestsKeeps DEF Keeps
<1>3. ASSUME c \in Mailers PROVE Keeps(c)
  <2>1. Does(c)
    BY <1>3, ServerDoes
  <2>2. ~ Untouched(c)
    BY <2>1 DEF Untouched, Does, Reading
  <2>3. ForAll(c) => ForAll(c)'
    BY <1>3, ServerSettles, ForAllStays
  <2>4. Silent(c) => Silent(c)'
    <3> SUFFICES ASSUME Silent(c) PROVE Silent(c)'
      OBVIOUS
    <3>1. Quiet(c)' /\ sink' = sink
      BY <1>3, <2>1, QuietKept DEF Silent, Quiet
    <3>2. Accepted' = Accepted
      BY <1>3, <3>1, ServerSettles
    <3> QED
      BY <3>1, <3>2 DEF Silent, Quiet, NoneOf
  <2>5. \A result : Outcome(c, result) => Outcome(c, result)'
    BY <2>3, <2>4 DEF Outcome
  <2>6. Talk(c) => Talk(c)'
    BY <1>3, TalkServed
  <2> QED
    BY <2>2, <2>5, <2>6 DEF Keeps
<1>4. \A d \in Mailers : Keeps(d)
  BY <1>2, <1>3
<1> QED
  BY <1>1, <1>4, AllKeep

LEMMA AttemptRests ==
    ASSUME AttemptInv, UNCHANGED mail, \A c \in Mailers : Rests(c)
    PROVE  AttemptInv'
<1>1. \A c \in Mailers : Keeps(c)
  BY RestsKeeps DEF Keeps
<1> QED
  BY <1>1, AllKeep

-----------------------------------------------------------------------------
(* The client's steps.  The server's side stays as it is, and no other     *)
(* connection changes.                                                     *)
Alone(c) ==
    /\ ses' = ses /\ Accepted' = Accepted
    /\ \A d \in Conns \ {c} : net'[d] = net[d]

SameTry ==
    /\ mail'.try = mail.try /\ mail'.encryption = mail.encryption
    /\ mail'.result = mail.result

(* One attempt, one connection.                                            *)
LEMMA OneConnection ==
    ASSUME WireInv, Trying
    PROVE  /\ C!Conn \in Tried /\ C!Conn \in Mailers /\ C!Conn \in Conns
           /\ mail.try \in 1 .. mail.try /\ mail.try \in DOMAIN mail.result
           /\ \A k \in 1 .. mail.try : C!ConnOf(k) = C!Conn => k = mail.try
<1>1. /\ mail.step # "idle" /\ MailTyped /\ mail \in MailRows /\ mail.encryption \in Encryption
      /\ mail.try \in 1 .. Len(Tries[mail.encryption])
      /\ Len(mail.result) = Len(Tries[mail.encryption])
  BY DEF WireInv, MailTyped, Trying
<1>2. C!Conn \in Mailers /\ C!Conn \in Conns
  BY <1>1, ConnIsMailer
<1>3. mail.try \in 1 .. mail.try
  BY <1>1 DEF MailRows
<1>4. C!Conn \in Tried
  BY <1>3 DEF C!Conn, Tried
<1>5. Len(Tries[mail.encryption]) \in Nat /\ mail.result \in Seq(C!Results)
  BY <1>1, ClientConstants DEF MailRows
<1>6. mail.try \in DOMAIN mail.result
  BY <1>1, <1>5
<1>7. ASSUME NEW k \in 1 .. mail.try, C!ConnOf(k) = C!Conn PROVE k = mail.try
  <2>1. k \in 1 .. Len(Tries[mail.encryption])
    BY <1>1, <1>5
  <2>2. Tries[mail.encryption][k] = Tries[mail.encryption][mail.try]
    BY <1>7 DEF C!Conn, C!ConnOf
  <2> QED
    BY <1>1, <2>1, <2>2, ClientConstants
<1> QED
  BY <1>2, <1>3, <1>4, <1>6, <1>7

LEMMA AttemptGoesOn ==
    ASSUME AttemptInv, WireInv, Trying, Trying', SameTry, NEW c \in Mailers, c = C!Conn,
           \A d \in Mailers \ {c} : Rests(d), Talk(c)'
    PROVE  AttemptInv'
<1>1. /\ c \in Tried /\ mail.try \in 1 .. mail.try /\ mail.try \in DOMAIN mail.result
      /\ \A k \in 1 .. mail.try : C!ConnOf(k) = c => k = mail.try
  BY OneConnection
<1>2. C!Conn' = C!Conn /\ \A k : (C!ConnOf(k))' = C!ConnOf(k)
  BY ConnSame DEF SameTry
<1>3. Tried' = Tried
  BY <1>2 DEF Tried, SameTry
<1>4. \A d \in Mailers \ Tried' : Untouched(d)'
  <2> SUFFICES ASSUME NEW d \in Mailers \ Tried PROVE Untouched(d)'
    BY <1>3
  <2>1. Untouched(d) /\ Rests(d)
    BY <1>1 DEF AttemptInv
  <2> QED
    BY <2>1, RestsKeeps
<1>5. mail.result[mail.try] = "none"
  BY <1>1 DEF AttemptInv
<1>6. \A d \in Mailers : \A k \in 1 .. mail'.try :
          d = (C!ConnOf(k))' => Outcome(d, mail.result[k])'
  <2> SUFFICES ASSUME NEW d \in Mailers, NEW k \in 1 .. mail.try, d = C!ConnOf(k)
               PROVE  Outcome(d, mail.result[k])'
    BY <1>2 DEF SameTry
  <2>1. PICK r : r = mail.result[k]
    OBVIOUS
  <2>2. r = mail'.result[k]
    BY <2>1 DEF SameTry
  <2>3. Outcome(d, r)'
    <3>1. CASE d = c
      BY <1>1, <1>5, <2>1, <3>1 DEF Outcome, Open
    <3>2. CASE d # c
      <4>1. Outcome(d, r) /\ Rests(d)
        BY <2>1, <3>2 DEF AttemptInv
      <4> QED
        BY <4>1, RestsKeeps
    <3> QED
      BY <3>1, <3>2
  <2> QED
    BY <2>2, <2>3 DEF Outcome
<1>7. \A d \in Mailers : Trying' /\ d = C!Conn' => Talk(d)'
  BY <1>2
<1>8. \A k \in DOMAIN mail'.result :
          k > mail'.try \/ (k = mail'.try /\ Trying') => mail'.result[k] = "none"
  BY DEF AttemptInv, SameTry
<1>9. mail'.step # "idle"
  BY DEF Trying
<1> QED
  BY <1>4, <1>6, <1>7, <1>8, <1>9 DEF AttemptInv

(* The end of an attempt that says what became of it.                      *)
LEMMA AloneRest ==
    ASSUME NEW c \in Mailers, Alone(c)
    PROVE  \A d \in Mailers \ {c} : Rests(d)
BY ClientConstants DEF Alone, Rests, NoneOf

LEMMA FailsIs ==
    ASSUME WireInv, Trying, NEW c \in Mailers, c = C!Conn, NEW result \in C!Results,
           C!Fails(result)
    PROVE  /\ mail'.step \in {"failed", "done"} /\ mail'.try = mail.try
           /\ mail'.encryption = mail.encryption
           /\ DOMAIN mail'.result = DOMAIN mail.result
           /\ mail'.result[mail.try] = result
           /\ \A k \in DOMAIN mail.result \ {mail.try} : mail'.result[k] = mail.result[k]
           /\ net'[c].wire = net[c].wire
           /\ \A d \in Conns \ {c} : net'[d] = net[d]
<1> DEFINE list == [mail.result EXCEPT ![mail.try] = result]
           step == IF result \in C!Retryable /\ mail.try < Len(Tries[mail.encryption])
                   THEN "failed" ELSE "done"
           p == [mail EXCEPT !.result = list]
           m == [p EXCEPT !.step = step]
           gone == IF c \in {d \in Conns : ses[d].phase = "closed"} THEN net[c].gone ELSE "closed"
           q == [net[c] EXCEPT !.replies = <<>>]
           r == [q EXCEPT !.up = FALSE]
           n == [r EXCEPT !.gone = gone]
<1>1. /\ c \in Conns /\ net \in [Conns -> NetRows] /\ net[c] \in NetRows /\ mail \in MailRows
      /\ mail.try \in DOMAIN mail.result
  BY OneConnection DEF WireInv, NetTyped, MailTyped
<1>2. mail' = m
  BY <1>1 DEF C!Fails, C!EndTry, MailRows
<1>3. net' = [net EXCEPT ![c] = n]
  BY <1>1 DEF C!Fails, C!HangUp, NetRows
<1>4. n.wire = net[c].wire
  BY <1>1 DEF NetRows
<1> HIDE DEF n
<1>5. /\ DOMAIN list = DOMAIN mail.result /\ list[mail.try] = result
      /\ \A k \in DOMAIN mail.result \ {mail.try} : list[k] = mail.result[k]
  BY <1>1
<1> HIDE DEF list
<1>6. step \in {"failed", "done"}
  OBVIOUS
<1> HIDE DEF step
<1>7. m.result = list /\ m.try = mail.try /\ m.encryption = mail.encryption /\ m.step = step
  BY <1>1 DEF MailRows
<1> HIDE DEF m
<1> QED
  BY <1>1, <1>2, <1>3, <1>4, <1>5, <1>6, <1>7

LEMMA AttemptEnds ==
    ASSUME AttemptInv, WireInv, Trying, UNCHANGED <<ses, sink, intakeOnly>>,
           NEW c \in Mailers, c = C!Conn, NEW result \in C!Results, C!Fails(result),
           result = "yes" => ForAll(c), result \notin Open \cup {"yes"} => Silent(c)
    PROVE  AttemptInv'
<1>1. /\ c \in Tried /\ mail.try \in 1 .. mail.try /\ mail.try \in DOMAIN mail.result
      /\ \A k \in 1 .. mail.try : C!ConnOf(k) = c => k = mail.try
  BY OneConnection
<1>2. /\ mail'.step \in {"failed", "done"} /\ mail'.try = mail.try
      /\ mail'.encryption = mail.encryption
      /\ DOMAIN mail'.result = DOMAIN mail.result
      /\ mail'.result[mail.try] = result
      /\ \A k \in DOMAIN mail.result \ {mail.try} : mail'.result[k] = mail.result[k]
      /\ net'[c].wire = net[c].wire
      /\ \A d \in Conns \ {c} : net'[d] = net[d]
  BY FailsIs
<1>3. Accepted' = Accepted
  BY MailIsKept DEF intakeOnly
<1>4. \A d \in Mailers \ {c} : Rests(d)
  BY <1>2, <1>3, AloneRest DEF Alone
<1>5. C!Conn' = C!Conn /\ \A k : (C!ConnOf(k))' = C!ConnOf(k)
  BY <1>2, ConnSame
<1>6. Tried' = Tried
  BY <1>2, <1>5 DEF Tried
<1>7. \A d \in Mailers \ Tried' : Untouched(d)'
  <2> SUFFICES ASSUME NEW d \in Mailers \ Tried PROVE Untouched(d)'
    BY <1>6
  <2>1. Untouched(d) /\ Rests(d)
    BY <1>1, <1>4 DEF AttemptInv
  <2> QED
    BY <2>1, RestsKeeps
<1>8. Outcome(c, result)'
  BY <1>2, <1>3 DEF Outcome, ForAll, Silent, NoData, NoneOf
<1>9. \A d \in Mailers : \A k \in 1 .. mail'.try :
          d = (C!ConnOf(k))' => Outcome(d, mail.result[k])'
  <2> SUFFICES ASSUME NEW d \in Mailers, NEW k \in 1 .. mail.try, d = C!ConnOf(k)
               PROVE  Outcome(d, mail.result[k])'
    BY <1>2, <1>5
  <2>1. CASE k = mail.try
    <3>1. d = c
      BY <2>1 DEF C!Conn
    <3> QED
      BY <1>2, <1>8, <2>1, <3>1
  <2>2. CASE k # mail.try
    <3>1. PICK r : r = mail.result[k]
      OBVIOUS
    <3>2. Outcome(d, r) /\ Rests(d)
      BY <1>1, <1>4, <2>2, <3>1 DEF AttemptInv
    <3>3. Outcome(d, r)'
      BY <3>2, RestsKeeps
    <3>4. mail'.result[k] = r
      <4>1. k \in DOMAIN mail.result
        <5>1. /\ mail.step # "idle" /\ mail.try \in 1 .. Len(mail.result)
              /\ Len(mail.result) \in Nat /\ mail.result \in Seq(C!Results)
          BY DEF WireInv, MailTyped, MailRows, Trying
        <5> QED
          BY <5>1
      <4> QED
        BY <1>2, <2>2, <3>1, <4>1
    <3> QED
      BY <3>3, <3>4 DEF Outcome
  <2> QED
    BY <2>1, <2>2
<1>10. ~ Trying' /\ mail'.step # "idle"
  BY <1>2 DEF Trying
<1>11. \A k \in DOMAIN mail'.result :
          k > mail'.try \/ (k = mail'.try /\ Trying') => mail'.result[k] = "none"
  <2> SUFFICES ASSUME NEW k \in DOMAIN mail.result, k > mail.try PROVE mail'.result[k] = "none"
    BY <1>2, <1>10
  <2>1. mail.result[k] = "none"
    BY DEF AttemptInv
  <2>2. k # mail.try
    <3>1. mail.try \in Nat
      BY DEF WireInv, MailTyped, MailRows
    <3> QED
      BY <3>1
  <2> QED
    BY <1>2, <2>1, <2>2
<1> QED
  BY <1>7, <1>9, <1>10, <1>11 DEF AttemptInv

LEMMA EndsTell ==
    ASSUME AttemptInv, WireInv, UNCHANGED <<ses, sink, intakeOnly>>,
           \/ C!NoConnection \/ C!NotUpgraded \/ C!Finished \/ C!Refused \/ C!EndOfAnswers
           \/ C!OutOfTime
    PROVE  AttemptInv'
<1>1. Trying
  BY DEF C!NoConnection, C!NotUpgraded, C!Finished, C!Refused, C!EndOfAnswers, C!OutOfTime,
     C!Waiting, Trying
<1>2. PICK c \in Mailers : c = C!Conn
  BY <1>1, OneConnection
<1>3. Talk(c) /\ net[c].replies \in Seq(Replies)
  BY <1>1, <1>2, ClientConstants DEF AttemptInv, WireInv, NetTyped, NetRows
<1>4. ASSUME NEW result \in C!Results, C!Fails(result), result \in Open \/ Silent(c)
             \/ (result = "yes" /\ ForAll(c)), result = "yes" => ForAll(c)
      PROVE  AttemptInv'
  <2>1. result \notin Open \cup {"yes"} => Silent(c)
    BY <1>4
  <2> QED
    BY <1>1, <1>2, <1>4, <2>1, AttemptEnds
<1>5. {"connect", "tls", "refused4", "refused5", "io", "protocol", "timeout", "yes"} \subseteq C!Results
  BY DEF C!Results
<1>6. CASE C!NoConnection \/ C!NotUpgraded
  <2>1. mail.step \in {"connecting", "tls"}
    BY <1>6 DEF C!NoConnection, C!NotUpgraded
  <2>2. Silent(c)
    BY <1>3, <2>1 DEF Talk, Opening
  <2>3. PICK result \in {"connect", "tls"} : C!Fails(result)
    BY <1>6 DEF C!NoConnection, C!NotUpgraded
  <2> QED
    BY <1>4, <1>5, <2>2, <2>3
<1>7. CASE C!Finished
  <2>1. ForAll(c) /\ C!Fails("yes")
    BY <1>3, <1>7 DEF Talk, C!Finished
  <2> QED
    BY <1>4, <1>5, <2>1
<1>8. CASE C!Refused
  <2>1. /\ mail.step \in C!Waiting \ {"hello"}
        /\ net[c].replies # <<>> /\ First(c) \in 400 .. 599
    BY <1>2, <1>3, <1>8 DEF C!Refused, C!Answered, First
  <2>2. First(c) # 354 /\ First(c) # 250
    <3>1. PICK x \in 400 .. 599 : First(c) = x
      BY <2>1
    <3>2. x # 354 /\ x # 250
      BY <3>1
    <3> QED
      BY <3>1, <3>2
  <2>3. Silent(c)
    <3>1. CASE mail.step \in Opening \cup {"rcpt"}
      BY <1>3, <3>1 DEF Talk
    <3>2. CASE mail.step = "data"
      BY <1>3, <2>1, <2>2, <3>2 DEF Talk, AtData, Says
    <3>3. CASE mail.step = "body"
      <4>1. Judged(c, net[c].replies[1])
        BY <1>3, <2>1, <3>3 DEF Talk, AtBody
      <4> QED
        BY <2>2, <4>1 DEF Judged, First, Silent
    <3> QED
      BY <2>1, <3>1, <3>2, <3>3 DEF C!Waiting, Opening
  <2>4. PICK result \in {"refused4", "refused5"} : C!Fails(result)
    BY <1>8 DEF C!Refused
  <2> QED
    BY <1>4, <1>5, <2>3, <2>4
<1>9. CASE C!EndOfAnswers \/ C!OutOfTime
  <2>1. PICK result \in {"io", "protocol", "timeout"} : C!Fails(result)
    BY <1>9 DEF C!EndOfAnswers, C!OutOfTime
  <2> QED
    BY <1>4, <1>5, <2>1 DEF Open
<1> QED
  BY <1>6, <1>7, <1>8, <1>9

-----------------------------------------------------------------------------
(* The attempts begin on connections nobody has used.                      *)
LEMMA Fresher ==
    ASSUME NetTyped, UNCHANGED <<ses, sink, intakeOnly>>, NEW c \in Mailers,
           net' = [net EXCEPT ![c].up = TRUE]
    PROVE  /\ Alone(c) /\ \A d \in Mailers \ {c} : Rests(d)
           /\ net'[c].wire = net[c].wire /\ net'[c].replies = net[c].replies
           /\ net'[c].gone = net[c].gone
<1> DEFINE n == [net[c] EXCEPT !.up = TRUE]
<1>1. c \in Conns /\ net \in [Conns -> NetRows] /\ net[c] \in NetRows
  BY ClientConstants DEF NetTyped
<1>2. n.wire = net[c].wire /\ n.replies = net[c].replies /\ n.gone = net[c].gone
  BY <1>1 DEF NetRows
<1>3. net' = [net EXCEPT ![c] = n]
  OBVIOUS
<1> HIDE DEF n
<1>4. net'[c] = n /\ \A d \in Conns \ {c} : net'[d] = net[d]
  BY <1>1, <1>3
<1>5. Accepted' = Accepted
  BY MailIsKept DEF intakeOnly
<1>6. Alone(c)
  BY <1>4, <1>5 DEF Alone
<1> QED
  BY <1>2, <1>4, <1>6, AloneRest

LEMMA NewTalk ==
    ASSUME NEW c \in Mailers, Untouched(c), UNCHANGED <<ses, Accepted>>,
           net'[c].wire = net[c].wire, net'[c].replies = net[c].replies,
           net'[c].gone = net[c].gone, mail'.step = "connecting", mail'.to = 0
    PROVE  Talk(c)'
<1>1. ToSet(<<>>) = {}
  BY DEF ToSet
<1>2. Silent(c)' /\ Polite(c)'
  BY <1>1 DEF Untouched, Silent, NoData, NoneOf, Polite
<1>3. InTurn(c)'
  BY DEF Untouched, InTurn, Waits
<1> QED
  BY <1>2, <1>3 DEF Talk, Untouched, Opening

LEMMA Dials ==
    ASSUME AttemptInv, NetTyped, UNCHANGED <<ses, sink, intakeOnly>>, NEW c \in Mailers \ Tried,
           net' = [net EXCEPT ![c].up = TRUE], mail.try \in Nat,
           mail'.try = mail.try + 1, mail'.step = "connecting", mail'.to = 0, c = C!Conn',
           \A k \in 1 .. mail.try :
              (C!ConnOf(k))' = C!ConnOf(k) /\ mail'.result[k] = mail.result[k],
           DOMAIN mail'.result \subseteq Nat, mail'.try \in DOMAIN mail'.result,
           \A k \in DOMAIN mail'.result : k > mail.try => mail'.result[k] = "none"
    PROVE  AttemptInv'
<1>1. /\ Alone(c) /\ \A d \in Mailers \ {c} : Rests(d)
      /\ net'[c].wire = net[c].wire /\ net'[c].replies = net[c].replies
      /\ net'[c].gone = net[c].gone
  BY Fresher
<1>2. \A k \in 1 .. mail'.try : k \in 1 .. mail.try \/ k = mail'.try
  OBVIOUS
<1>3. 1 .. mail.try \subseteq 1 .. mail'.try /\ mail'.try \in 1 .. mail'.try
  OBVIOUS
<1>4. c = (C!ConnOf(mail.try))'
  BY DEF C!Conn
<1>5. \A d : d \notin Tried' => d \notin Tried /\ d # c
  <2>1. c \in Tried'
    BY <1>3, <1>4 DEF Tried
  <2>2. \A d : d \in Tried => d \in Tried'
    BY <1>3 DEF Tried
  <2> QED
    BY <2>1, <2>2
<1>6. \A d \in Mailers \ Tried' : Untouched(d)'
  <2> SUFFICES ASSUME NEW d \in Mailers \ Tried' PROVE Untouched(d)'
    OBVIOUS
  <2>1. Untouched(d) /\ Rests(d)
    BY <1>1, <1>5 DEF AttemptInv
  <2> QED
    BY <2>1, RestsKeeps
<1>7. \A k \in DOMAIN mail'.result :
          k > mail'.try \/ (k = mail'.try /\ Trying') => mail'.result[k] = "none"
  <2>1. \A k \in Nat : k > mail'.try \/ k = mail'.try => k > mail.try
    OBVIOUS
  <2> QED
    BY <2>1
<1>8. mail'.result[mail'.try] = "none"
  <2>1. mail'.try > mail.try
    OBVIOUS
  <2> QED
    BY <2>1
<1>9. \A d \in Mailers : \A k \in 1 .. mail'.try :
          d = (C!ConnOf(k))' => Outcome(d, mail.result[k])'
  <2> SUFFICES ASSUME NEW d \in Mailers, NEW k \in 1 .. mail'.try, d = (C!ConnOf(k))'
               PROVE  Outcome(d, mail.result[k])'
    OBVIOUS
  <2>1. CASE k \in 1 .. mail.try
    <3>1. PICK r : r = mail.result[k]
      OBVIOUS
    <3>2. d = C!ConnOf(k) /\ mail'.result[k] = r
      BY <2>1, <3>1
    <3>3. d # c
      BY <2>1, <3>2 DEF Tried
    <3>4. Outcome(d, r) /\ Rests(d)
      BY <1>1, <2>1, <3>1, <3>2, <3>3 DEF AttemptInv
    <3>5. Outcome(d, r)'
      BY <3>4, RestsKeeps
    <3> QED
      BY <3>2, <3>5 DEF Outcome
  <2>2. CASE k = mail'.try
    BY <1>8, <2>2 DEF Outcome, Open
  <2> QED
    BY <1>2, <2>1, <2>2
<1>10. Talk(c)'
  <2>1. Untouched(c)
    BY DEF AttemptInv
  <2> QED
    BY <1>1, <2>1, NewTalk DEF Alone
<1>11. \A d \in Mailers : Trying' /\ d = C!Conn' => Talk(d)'
  BY <1>10
<1> QED
  BY <1>6, <1>7, <1>9, <1>11 DEF AttemptInv

LEMMA DialTells ==
    ASSUME AttemptInv, WireInv, UNCHANGED <<ses, sink, intakeOnly>>, C!Dial
    PROVE  AttemptInv'
<1>1. /\ mail \in MailRows /\ MailTyped /\ NetTyped /\ mail.step = "idle" /\ mail.try = 0
      /\ mail.to = 0
  BY DEF WireInv, MailTyped, AttemptInv, C!Dial
<1>2. PICK e \in Encryption, l \in Login :
        /\ mail' = [mail EXCEPT !.try = 1, !.step = "connecting", !.encryption = e, !.login = l,
                                !.result = [k \in 1 .. Len(Tries[e]) |-> "none"]]
        /\ net' = [net EXCEPT ![Tries[e][1]].up = TRUE]
  BY DEF C!Dial
<1> DEFINE list == [k \in 1 .. Len(Tries[e]) |-> "none"]
           m == [mail EXCEPT !.try = 1, !.step = "connecting", !.encryption = e, !.login = l,
                             !.result = list]
           c == Tries[e][1]
<1>3. 1 \in 1 .. Len(Tries[e]) /\ Len(Tries[e]) \in Nat
  BY ClientConstants
<1>4. c \in Mailers
  BY <1>3, ClientConstants
<1>5. Tried = {}
  <2>1. 1 .. 0 = {}
    OBVIOUS
  <2> QED
    BY <1>1, <2>1 DEF Tried
<1>6. mail' = m
  BY <1>2
<1>7. DOMAIN list = 1 .. Len(Tries[e]) /\ \A k \in DOMAIN list : list[k] = "none"
  OBVIOUS
<1> HIDE DEF list
<1>8. m.try = 1 /\ m.step = "connecting" /\ m.encryption = e /\ m.result = list /\ m.to = 0
  BY <1>1 DEF MailRows
<1> HIDE DEF m
<1>9. c = C!Conn'
  BY <1>6, <1>8 DEF C!Conn, C!ConnOf
<1>10. mail'.try = mail.try + 1 /\ mail.try \in Nat /\ ~ (\E k \in 1 .. mail.try : TRUE)
  BY <1>1, <1>6, <1>8
<1>11. DOMAIN mail'.result \subseteq Nat /\ mail'.try \in DOMAIN mail'.result
  BY <1>3, <1>6, <1>7, <1>8
<1>12. net' = [net EXCEPT ![c].up = TRUE] /\ c \in Mailers \ Tried
  BY <1>2, <1>4, <1>5
<1> HIDE DEF c
<1> QED
  BY <1>1, <1>6, <1>7, <1>8, <1>9, <1>10, <1>11, <1>12, Dials

LEMMA DialAgainTells ==
    ASSUME AttemptInv, WireInv, UNCHANGED <<ses, sink, intakeOnly>>, C!DialAgain
    PROVE  AttemptInv'
<1> DEFINE e == mail.encryption
           next == mail.try + 1
           m == [mail EXCEPT !.try = next, !.step = "connecting", !.tls = FALSE, !.to = 0]
           c == Tries[e][next]
<1>1. /\ mail.step = "failed" /\ mail' = m /\ mail \in MailRows /\ NetTyped
      /\ net' = [net EXCEPT ![c].up = TRUE]
  BY DEF C!DialAgain, C!ConnOf, WireInv, MailTyped
<1>2. /\ e \in Encryption /\ mail.try \in 1 .. Len(Tries[e]) /\ mail.try < Len(Tries[e])
      /\ Len(mail.result) = Len(Tries[e]) /\ mail.result \in Seq(C!Results)
      /\ Len(Tries[e]) \in Nat
  BY <1>1, ClientConstants DEF WireInv, MailTyped, MailRows
<1>3. next \in 1 .. Len(Tries[e]) /\ next \in Nat /\ mail.try \in Nat
  BY <1>2
<1>4. next \notin 1 .. mail.try /\ 1 .. mail.try \subseteq 1 .. Len(Tries[e])
  BY <1>2
<1>5. m.try = next /\ m.step = "connecting" /\ m.encryption = e /\ m.result = mail.result /\ m.to = 0
  BY <1>1 DEF MailRows
<1> HIDE DEF m
<1>6. mail'.try = mail.try + 1
  BY <1>1, <1>5
<1>7. DOMAIN mail'.result = 1 .. Len(Tries[e]) /\ DOMAIN mail.result = 1 .. Len(Tries[e])
  BY <1>1, <1>2, <1>5
<1> HIDE DEF next
<1>8. c = C!Conn' /\ \A k : (C!ConnOf(k))' = C!ConnOf(k)
  BY <1>1, <1>5 DEF C!Conn, C!ConnOf
<1>9. c \in Mailers
  BY <1>2, <1>3, ClientConstants
<1>10. \A k \in 1 .. mail.try : c # C!ConnOf(k)
  BY <1>2, <1>3, <1>4, ClientConstants DEF C!ConnOf
<1>11. c \in Mailers \ Tried
  BY <1>9, <1>10 DEF Tried
<1>12. \A k \in DOMAIN mail'.result : k > mail.try => mail'.result[k] = "none"
  BY <1>1, <1>5, <1>7 DEF AttemptInv
<1>13. /\ \A k \in 1 .. mail.try :
             (C!ConnOf(k))' = C!ConnOf(k) /\ mail'.result[k] = mail.result[k]
       /\ DOMAIN mail'.result \subseteq Nat /\ mail'.try \in DOMAIN mail'.result
       /\ mail'.step = "connecting" /\ mail'.to = 0
  BY <1>1, <1>3, <1>5, <1>7, <1>8
<1> HIDE DEF c
<1> QED
  BY <1>1, <1>3, <1>6, <1>8, <1>11, <1>12, <1>13, Dials

-----------------------------------------------------------------------------
(* The client says a line, and has `rs` yet to read.                       *)
Speech(c, text, rs) ==
    /\ Alone(c)
    /\ net'[c].gone = net[c].gone /\ net'[c].replies = rs
    /\ net'[c].wire = IF ses[c].phase = "closed" THEN net[c].wire
                      ELSE Append(net[c].wire, [text |-> text, tls |-> mail.tls])

LEMMA SpeechIs ==
    ASSUME WireInv, Trying, UNCHANGED <<ses, sink, intakeOnly>>, NEW c \in Mailers, c = C!Conn,
           NEW text, NEW rs, NEW w,
           w = IF C!Conn \in {d \in Conns : ses[d].phase = "closed"}
               THEN net[C!Conn].wire
               ELSE Append(net[C!Conn].wire, [text |-> text, tls |-> mail.tls]),
           net' = [net EXCEPT ![C!Conn] = [[net[C!Conn] EXCEPT !.wire = w] EXCEPT !.replies = rs]]
    PROVE  Speech(c, text, rs)
<1> DEFINE l == [text |-> text, tls |-> mail.tls]
           q == [net[c] EXCEPT !.wire = w]
           n == [q EXCEPT !.replies = rs]
<1>1. c \in Conns /\ net \in [Conns -> NetRows] /\ net[c] \in NetRows
  BY ClientConstants DEF WireInv, NetTyped
<1>2. net' = [net EXCEPT ![c] = n]
  OBVIOUS
<1> HIDE DEF l
<1>3. w = IF ses[c].phase = "closed" THEN net[c].wire ELSE Append(net[c].wire, l)
  BY <1>1 DEF l
<1>4. n.wire = w /\ n.replies = rs /\ n.gone = net[c].gone
  BY <1>1 DEF NetRows
<1> HIDE DEF n
<1>5. net'[c] = n /\ \A d \in Conns \ {c} : net'[d] = net[d]
  BY <1>1, <1>2
<1>6. Accepted' = Accepted
  BY MailIsKept DEF intakeOnly
<1> QED
  BY <1>3, <1>4, <1>5, <1>6 DEF Speech, Alone, l

LEMMA SaysIs ==
    ASSUME WireInv, Trying, UNCHANGED <<ses, sink, intakeOnly>>, NEW c \in Mailers, c = C!Conn,
           NEW text, NEW step, NEW rs, C!Says(text, step, rs)
    PROVE  Speech(c, text, rs) /\ SameTry /\ mail'.step = step /\ mail'.to = mail.to
<1> DEFINE w == IF C!Conn \in {d \in Conns : ses[d].phase = "closed"}
                THEN net[C!Conn].wire
                ELSE Append(net[C!Conn].wire, [text |-> text, tls |-> mail.tls])
<1>1. /\ C!Conn \in Conns /\ net \in [Conns -> NetRows] /\ mail \in MailRows
  BY OneConnection DEF WireInv, NetTyped, MailTyped
<1>2. net' = [net EXCEPT ![C!Conn] = [[net[C!Conn] EXCEPT !.wire = w] EXCEPT !.replies = rs]]
  BY <1>1 DEF C!Says, NetRows
<1>3. w = IF C!Conn \in {d \in Conns : ses[d].phase = "closed"}
          THEN net[C!Conn].wire
          ELSE Append(net[C!Conn].wire, [text |-> text, tls |-> mail.tls])
  OBVIOUS
<1> HIDE DEF w
<1>4. Speech(c, text, rs)
  BY <1>2, <1>3, SpeechIs
<1>5. SameTry /\ mail'.step = step /\ mail'.to = mail.to
  BY <1>1 DEF C!Says, MailRows, SameTry
<1> QED
  BY <1>4, <1>5

LEMMA SilentSpeech ==
    ASSUME NetTyped, MailTyped, NEW c \in Mailers, NEW text \in Texts \ {"DATA"}, NEW rs,
           Speech(c, text, rs), ToSet(rs) \subseteq ToSet(net[c].replies)
    PROVE  /\ Silent(c) => Silent(c)'
           /\ NoData(c) => NoData(c)'
           /\ Polite(c) => Polite(c)'
           /\ Shut(c) => Shut(c)'
<1> DEFINE l == [text |-> text, tls |-> mail.tls]
<1>1. net[c].wire \in Seq(Lines)
  BY ClientConstants DEF NetTyped, NetRows
<1>2. l \in Lines /\ l.text # "DATA"
  BY DEF Lines, MailTyped, MailRows
<1>3. net'[c].wire = net[c].wire \/ net'[c].wire = Append(net[c].wire, l)
  BY DEF Speech
<1> HIDE DEF l
<1>4. ToSet(Append(net[c].wire, l)) = ToSet(net[c].wire) \cup {l}
  BY <1>1, <1>2, AppendedSet
<1>5. NoData(c) => NoData(c)'
  BY <1>2, <1>3, <1>4 DEF NoData
<1>6. Polite(c) => Polite(c)'
  BY DEF Polite, Speech
<1>7. ses' = ses /\ Accepted' = Accepted
  BY DEF Speech, Alone
<1>8. Shut(c) => Shut(c)'
  BY <1>7 DEF Speech, Shut
<1> QED
  BY <1>5, <1>6, <1>7, <1>8 DEF Silent, NoneOf

LEMMA AskedNow ==
    ASSUME NEW c, NEW text, Speech(c, text, <<>>), ses[c].phase = "command", net[c].wire = <<>>
    PROVE  ses'[c].phase = "command" /\ net'[c].replies = <<>>
           /\ Len(net'[c].wire) = 1 /\ net'[c].wire[1].text = text
<1> DEFINE l == [text |-> text, tls |-> mail.tls]
<1>1. net'[c].wire = Append(<<>>, l) /\ l.text = text
  BY DEF Speech
<1> HIDE DEF l
<1>2. Len(Append(<<>>, l)) = 1 /\ Append(<<>>, l)[1] = l
  OBVIOUS
<1> QED
  BY <1>1, <1>2 DEF Speech, Alone

(* A command of the dialog's first part, after which it is the server's    *)
(* turn; or the server is gone, or said something that ends the dialog.    *)
LEMMA AttemptAsks ==
    ASSUME AttemptInv, WireInv, UNCHANGED <<ses, sink, intakeOnly>>, NEW c \in Mailers, c = C!Conn,
           mail.step \in Opening, NEW text \in Texts \ {"DATA"},
           NEW step \in {"hello", "helo", "starttls", "auth", "from"}, NEW rs,
           C!Says(text, step, rs),
           rs = net[c].replies \/ (net[c].replies # <<>> /\ rs = Tail(net[c].replies)),
           \/ Shut(c)
           \/ /\ step # "helo" /\ text \in Sayings[step]
              /\ ses[c].phase = "command" /\ net[c].wire = <<>> /\ rs = <<>>
           \/ step = "hello" /\ rs = net[c].replies /\ rs # <<>> /\ First(c) = 220
    PROVE  AttemptInv'
<1>1. Trying /\ Trying'
  <2>1. mail'.step = step
    <3>1. mail \in MailRows
      BY DEF WireInv, MailTyped
    <3> QED
      BY <3>1 DEF C!Says, MailRows
  <2> QED
    BY <2>1 DEF Trying, Opening
<1>2. Speech(c, text, rs) /\ SameTry /\ mail'.step = step /\ mail'.to = mail.to
  BY <1>1, SaysIs
<1>3. Talk(c) /\ NetTyped /\ MailTyped /\ net[c].replies \in Seq(Replies)
  BY <1>1, ClientConstants DEF AttemptInv, WireInv, NetTyped, NetRows
<1>4. net[c].gone = "no" /\ mail.to = 0 /\ Silent(c) /\ Polite(c)
  BY <1>3 DEF Talk
<1>5. ToSet(rs) \subseteq ToSet(net[c].replies)
  <2>1. CASE rs = net[c].replies
    BY <2>1
  <2>2. CASE net[c].replies # <<>> /\ rs = Tail(net[c].replies)
    BY <1>3, <2>2 DEF ToSet
  <2> QED
    BY <2>1, <2>2
<1>6. Silent(c)' /\ Polite(c)' /\ (Shut(c) => Shut(c)')
  BY <1>2, <1>3, <1>4, <1>5, SilentSpeech
<1>7. InTurn(c)'
  <2>1. CASE Shut(c)
    BY <1>6, <2>1 DEF InTurn
  <2>2. CASE /\ step # "helo" /\ text \in Sayings[step]
             /\ ses[c].phase = "command" /\ net[c].wire = <<>> /\ rs = <<>>
    <3>1. ses'[c].phase = "command" /\ net'[c].replies = <<>>
          /\ Len(net'[c].wire) = 1 /\ net'[c].wire[1].text = text
      BY <1>2, <2>2, AskedNow
    <3>2. step \in DOMAIN Sayings /\ step # "rcpt"
      BY <2>2 DEF Sayings
    <3>3. Asked(c)'
      BY <1>2, <2>2, <3>1, <3>2 DEF Asked, Says
    <3> QED
      BY <3>3 DEF InTurn
  <2>3. CASE step = "hello" /\ rs = net[c].replies /\ rs # <<>> /\ First(c) = 220
    BY <1>2, <2>3 DEF InTurn, Speech, First
  <2> QED
    BY <2>1, <2>2, <2>3
<1>8. Talk(c)'
  BY <1>2, <1>4, <1>6, <1>7 DEF Talk, Speech
<1>9. \A d \in Mailers \ {c} : Rests(d)
  BY <1>2, AloneRest DEF Speech
<1> QED
  BY <1>1, <1>2, <1>8, <1>9, AttemptGoesOn

(* What the client knows when it reads an answer.                          *)
LEMMA HasHeard ==
    ASSUME AttemptInv, WireInv, Trying, NEW c \in Mailers, c = C!Conn, mail.step \in Opening
    PROVE  /\ InTurn(c) /\ net[c].replies \in Seq(Replies)
           /\ mail.step \in {"hello", "helo", "starttls", "auth", "from"} /\ net[c].replies # <<>> =>
                 \/ Shut(c) \/ Answered(c)
                 \/ mail.step = "hello" /\ First(c) = 220
                 \/ mail.step = "starttls" /\ ses[c].phase = "handshake" /\ net[c].wire = <<>>
           /\ mail.step = "greeting" /\ net[c].replies # <<>> => Shut(c) \/ Answered(c)
<1>1. Talk(c) /\ net[c].replies \in Seq(Replies)
  BY ClientConstants DEF AttemptInv, WireInv, NetTyped, NetRows
<1>2. InTurn(c)
  BY <1>1 DEF Talk
<1>3. Asked(c) \/ (\E phases : Waits(c, phases)) => net[c].replies = <<>>
  BY DEF Asked, Says, Waits
<1> QED
  BY <1>1, <1>2, <1>3 DEF InTurn

LEMMA TailOfOne ==
    ASSUME NEW S, NEW seq \in Seq(S), Len(seq) = 1
    PROVE  Tail(seq) = <<>>
<1>1. seq # <<>>
  <2>1. Len(<<>>) # 1
    OBVIOUS
  <2> QED
    BY <2>1, Zenon
<1>2. Tail(seq) \in Seq(S) /\ Len(Tail(seq)) = Len(seq) - 1
  BY <1>1
<1> DEFINE rest == Tail(seq)
<1> HIDE DEF rest
<1>3. Len(rest) = 0 /\ rest \in Seq(S)
  BY <1>2 DEF rest
<1>4. rest = <<>>
  BY <1>3
<1> QED
  BY <1>4 DEF rest

LEMMA HellosTell ==
    ASSUME AttemptInv, WireInv, UNCHANGED <<ses, sink, intakeOnly>>,
           C!Greeted \/ C!HelloAgain \/ C!HelloRefused \/ C!LoggedIn
    PROVE  AttemptInv'
<1>1. Trying /\ mail.step \in Opening
  BY DEF C!Greeted, C!HelloAgain, C!HelloRefused, C!LoggedIn, Trying, Opening
<1>2. PICK c \in Mailers : c = C!Conn
  BY <1>1, OneConnection
<1> DEFINE rest == Tail(net[c].replies)
<1>3. /\ InTurn(c) /\ net[c].replies \in Seq(Replies)
      /\ mail.step \in {"hello", "helo", "starttls", "auth", "from"} /\ net[c].replies # <<>> =>
            \/ Shut(c) \/ Answered(c)
            \/ mail.step = "hello" /\ First(c) = 220
            \/ mail.step = "starttls" /\ ses[c].phase = "handshake" /\ net[c].wire = <<>>
      /\ mail.step = "greeting" /\ net[c].replies # <<>> => Shut(c) \/ Answered(c)
  BY <1>1, <1>2, HasHeard
<1>4. {"HELLO", "MAIL"} \subseteq Texts \ {"DATA"}
  BY DEF Texts, Commands
<1>5. Sayings["hello"] = {"HELLO"} /\ Sayings["from"] = {"MAIL"}
  BY DEF Sayings
<1>6. Answered(c) => ses[c].phase = "command" /\ net[c].wire = <<>> /\ rest = <<>>
  BY <1>3, TailOfOne DEF Answered, Heard
<1> HIDE DEF rest
<1>7. CASE C!Greeted
  <2>1. mail.step = "greeting" /\ net[c].replies # <<>> /\ C!Says("HELLO", "hello", rest)
    BY <1>2, <1>7 DEF C!Greeted, C!Answered, C!Sends, rest
  <2> QED
    BY <1>1, <1>2, <1>3, <1>4, <1>5, <1>6, <2>1, AttemptAsks DEF rest
<1>8. CASE C!HelloAgain
  <2>1. mail.step = "upgraded" /\ C!Says("HELLO", "hello", net[c].replies)
    BY <1>2, <1>8 DEF C!HelloAgain, C!SaysMore
  <2>2. \/ Shut(c) \/ Waits(c, {"command"})
        \/ net[c].replies # <<>> /\ First(c) = 220
    BY <1>3, <2>1 DEF InTurn, Asked, Answered, Sayings
  <2>3. PICK rs : rs = net[c].replies
    OBVIOUS
  <2>4. \/ Shut(c)
        \/ ses[c].phase = "command" /\ net[c].wire = <<>> /\ rs = <<>>
        \/ rs = net[c].replies /\ rs # <<>> /\ First(c) = 220
    BY <2>2, <2>3 DEF Waits
  <2> QED
    BY <1>1, <1>2, <1>4, <1>5, <2>1, <2>3, <2>4, AttemptAsks
<1>9. CASE C!HelloRefused
  <2>1. /\ mail.step = "hello" /\ net[c].replies # <<>> /\ First(c) \in 400 .. 599
        /\ C!Says("HELLO", "helo", rest)
    BY <1>2, <1>3, <1>9 DEF C!HelloRefused, C!Answered, C!Sends, First, rest
  <2>2. First(c) # 220 /\ First(c) # 250
    <3>1. PICK x \in 400 .. 599 : First(c) = x
      BY <2>1
    <3>2. x # 220 /\ x # 250
      BY <3>1
    <3> QED
      BY <3>1, <3>2
  <2>3. Shut(c)
    BY <1>3, <2>1, <2>2 DEF Answered
  <2> QED
    BY <1>1, <1>2, <1>4, <2>1, <2>3, AttemptAsks DEF rest
<1>10. CASE C!LoggedIn
  <2>1. mail.step = "auth" /\ net[c].replies # <<>> /\ C!Says("MAIL", "from", rest)
    BY <1>2, <1>10 DEF C!LoggedIn, C!Answered, C!Sends, rest
  <2> QED
    BY <1>1, <1>2, <1>3, <1>4, <1>5, <1>6, <2>1, AttemptAsks DEF rest
<1> QED
  BY <1>7, <1>8, <1>9, <1>10

LEMMA GoesOnTells ==
    ASSUME AttemptInv, WireInv, UNCHANGED <<ses, sink, intakeOnly>>, C!Connected \/ C!TlsGranted
    PROVE  AttemptInv'
<1>1. Trying /\ mail.step \in Opening /\ mail \in MailRows
  BY DEF C!Connected, C!TlsGranted, Trying, Opening, WireInv, MailTyped
<1>2. PICK c \in Mailers : c = C!Conn
  BY <1>1, OneConnection
<1>3. /\ InTurn(c) /\ net[c].replies \in Seq(Replies)
      /\ mail.step \in {"hello", "helo", "starttls", "auth", "from"} /\ net[c].replies # <<>> =>
            \/ Shut(c) \/ Answered(c)
            \/ mail.step = "hello" /\ First(c) = 220
            \/ mail.step = "starttls" /\ ses[c].phase = "handshake" /\ net[c].wire = <<>>
      /\ mail.step = "greeting" /\ net[c].replies # <<>> => Shut(c) \/ Answered(c)
  BY <1>1, <1>2, HasHeard
<1>4. /\ c \in Conns /\ net \in [Conns -> NetRows] /\ net[c] \in NetRows
      /\ Talk(c)
  BY <1>1, <1>2, ClientConstants DEF WireInv, NetTyped, AttemptInv
<1> DEFINE step == IF mail.step = "starttls" \/ mail.encryption = "tls" THEN "tls" ELSE "greeting"
<1>5. /\ mail'.step = step /\ SameTry /\ mail'.to = mail.to
  BY <1>1 DEF C!Connected, C!TlsGranted, MailRows, SameTry
<1>6. step \in {"tls", "greeting"}
  OBVIOUS
<1> HIDE DEF step
<1>7. Accepted' = Accepted
  BY MailIsKept DEF intakeOnly
<1>8. /\ \A d \in Conns \ {c} : net'[d] = net[d]
      /\ net'[c].wire = net[c].wire /\ net'[c].gone = net[c].gone
      /\ \/ C!Connected /\ net'[c].replies = net[c].replies
         \/ C!TlsGranted /\ net'[c].replies = <<>>
  <2>1. CASE C!Connected
    BY <2>1 DEF C!Connected
  <2>2. CASE C!TlsGranted
    <3> DEFINE n == [net[c] EXCEPT !.replies = <<>>]
    <3>1. n.replies = <<>> /\ n.wire = net[c].wire /\ n.gone = net[c].gone
      BY <1>4 DEF NetRows
    <3>2. net' = [net EXCEPT ![c] = n]
      BY <1>2, <2>2 DEF C!TlsGranted
    <3> HIDE DEF n
    <3>3. net'[c] = n /\ \A d \in Conns \ {c} : net'[d] = net[d]
      BY <1>4, <3>2
    <3> QED
      BY <2>2, <3>1, <3>3
  <2> QED
    BY <2>1, <2>2
<1>9. Talk(c)'
  <2>1. net[c].gone = "no" /\ mail.to = 0 /\ Silent(c) /\ Polite(c)
    BY <1>1, <1>4 DEF Talk
  <2>2. Silent(c)'
    BY <1>7, <1>8, <2>1 DEF Silent, NoData, NoneOf
  <2>3. Polite(c)'
    <3>1. ToSet(<<>>) = {}
      BY DEF ToSet
    <3> QED
      BY <1>8, <2>1, <3>1 DEF Polite
  <2>4. InTurn(c)'
    <3>1. CASE Shut(c)
      <4>1. Shut(c)'
        BY <1>8, <3>1 DEF Shut
      <4> QED
        BY <4>1 DEF InTurn
    <3>2. CASE C!Connected /\ ~ Shut(c)
      <4>1. mail.step = "connecting" /\ net'[c].replies = net[c].replies
        BY <1>8, <3>2 DEF C!Connected, C!TlsGranted
      <4>2. Waits(c, {"new", "handshake"}) \/ Answered(c)
        BY <1>3, <3>2, <4>1 DEF InTurn, Asked, Sayings
      <4>3. CASE Waits(c, {"new", "handshake"})
        <5>1. Waits(c, {"new", "handshake"})'
          BY <1>8, <4>1, <4>3 DEF Waits
        <5> QED
          BY <1>5, <1>6, <5>1 DEF InTurn
      <4>4. CASE Answered(c)
        <5>1. Heard(c)'
          BY <1>8, <4>1, <4>4 DEF Answered, Heard
        <5>2. Answered(c)'
          BY <1>5, <1>6, <5>1 DEF Answered
        <5> QED
          BY <5>2 DEF InTurn
      <4> QED
        BY <4>2, <4>3, <4>4
    <3>3. CASE C!TlsGranted /\ ~ Shut(c)
      <4>1. /\ mail.step = "starttls" /\ net[c].replies # <<>> /\ First(c) = 220
            /\ net'[c].replies = <<>>
        BY <1>2, <1>3, <1>8, <3>3 DEF C!Connected, C!TlsGranted, C!Answered, First
      <4>2. ses[c].phase = "handshake" /\ net[c].wire = <<>>
        BY <1>3, <3>3, <4>1 DEF Answered
      <4>3. Waits(c, {"new", "handshake"})'
        BY <1>8, <4>1, <4>2 DEF Waits
      <4> QED
        BY <1>5, <1>6, <4>3 DEF InTurn
    <3> QED
      BY <3>1, <3>2, <3>3
  <2> QED
    BY <1>5, <1>6, <1>8, <2>1, <2>2, <2>3, <2>4 DEF Talk, Opening
<1>10. \A d \in Mailers \ {c} : Rests(d)
  BY <1>7, <1>8, AloneRest DEF Alone
<1>11. Trying'
  BY <1>5, <1>6 DEF Trying
<1> QED
  BY <1>1, <1>2, <1>5, <1>9, <1>10, <1>11, AttemptGoesOn

LEMMA HelloedTells ==
    ASSUME AttemptInv, WireInv, UNCHANGED <<ses, sink, intakeOnly>>, C!Helloed
    PROVE  AttemptInv'
<1>1. Trying /\ mail.step \in Opening /\ mail.step = "hello"
  BY DEF C!Helloed, Trying, Opening
<1>2. PICK c \in Mailers : c = C!Conn
  BY <1>1, OneConnection
<1> DEFINE rest == Tail(net[c].replies)
<1>3. /\ InTurn(c) /\ net[c].replies \in Seq(Replies)
      /\ mail.step \in {"hello", "helo", "starttls", "auth", "from"} /\ net[c].replies # <<>> =>
            \/ Shut(c) \/ Answered(c)
            \/ mail.step = "hello" /\ First(c) = 220
            \/ mail.step = "starttls" /\ ses[c].phase = "handshake" /\ net[c].wire = <<>>
      /\ mail.step = "greeting" /\ net[c].replies # <<>> => Shut(c) \/ Answered(c)
  BY <1>1, <1>2, HasHeard
<1>4. net[c].replies # <<>> /\ First(c) = 250
  BY <1>2, <1>3 DEF C!Helloed, C!Answered, First
<1>5. Shut(c) \/ Answered(c)
  BY <1>1, <1>3, <1>4
<1>6. Answered(c) => ses[c].phase = "command" /\ net[c].wire = <<>> /\ rest = <<>>
  BY <1>3, TailOfOne DEF Answered, Heard
<1>7. {"STARTTLS", "MAIL", "PLAIN right", "PLAIN wrong"} \subseteq Texts \ {"DATA"}
  BY DEF Texts, Commands
<1>8. /\ Sayings["starttls"] = {"STARTTLS"} /\ Sayings["from"] = {"MAIL"}
      /\ Sayings["auth"] = {"PLAIN right", "PLAIN wrong"}
  BY DEF Sayings
<1>9. CASE C!Fails("noStartTls")
  <2>1. Silent(c) /\ "noStartTls" \in C!Results
    BY <1>1, <1>2 DEF AttemptInv, Talk, C!Results
  <2> QED
    BY <1>1, <1>2, <1>9, <2>1, AttemptEnds
<1>10. CASE ~ C!Fails("noStartTls")
  <2>1. \E text, step : /\ C!Says(text, step, rest)
                        /\ \/ text = "STARTTLS" /\ step = "starttls"
                           \/ text = "MAIL" /\ step = "from"
                           \/ text \in {"PLAIN right", "PLAIN wrong"} /\ step = "auth"
    <3>1. C!Sends("STARTTLS", "starttls") \/ C!LogsIn
      BY <1>10 DEF C!Helloed, C!AfterHello
    <3> HIDE DEF rest
    <3>2. \A text, step : C!Sends(text, step) => C!Says(text, step, rest)
      BY <1>2 DEF C!Sends, rest
    <3>3. \/ C!Sends("STARTTLS", "starttls") \/ C!Sends("MAIL", "from")
          \/ C!Sends("PLAIN right", "auth") \/ C!Sends("PLAIN wrong", "auth")
      BY <3>1 DEF C!LogsIn
    <3> QED
      BY <3>2, <3>3
  <2>2. PICK text, step : /\ C!Says(text, step, rest)
                          /\ \/ text = "STARTTLS" /\ step = "starttls"
                             \/ text = "MAIL" /\ step = "from"
                             \/ text \in {"PLAIN right", "PLAIN wrong"} /\ step = "auth"
    BY <2>1
  <2>3. /\ text \in Texts \ {"DATA"} /\ step \in {"hello", "helo", "starttls", "auth", "from"}
        /\ step # "helo" /\ text \in Sayings[step]
    BY <1>7, <1>8, <2>2
  <2>4. PICK rs : rs = rest
    OBVIOUS
  <2>5. net[c].replies # <<>> /\ rs = Tail(net[c].replies) /\ C!Says(text, step, rs)
    BY <1>4, <2>2, <2>4
  <2>6. \/ Shut(c)
        \/ ses[c].phase = "command" /\ net[c].wire = <<>> /\ rs = <<>>
    BY <1>5, <1>6, <2>4
  <2>7. \/ Shut(c)
        \/ /\ step # "helo" /\ text \in Sayings[step]
           /\ ses[c].phase = "command" /\ net[c].wire = <<>> /\ rs = <<>>
    BY <2>3, <2>6
  <2> HIDE DEF rest
  <2> QED
    BY <1>1, <1>2, <2>3, <2>5, <2>7, AttemptAsks
<1> QED
  BY <1>9, <1>10

(* Everybody is in, one after the other, before DATA is asked for.         *)
LEMMA RecipientsTell ==
    ASSUME SessionInv, AttemptInv, WireInv, UNCHANGED <<ses, sink, intakeOnly>>, C!ToRecipients
    PROVE  AttemptInv'
<1>1. Trying /\ mail.step \in {"from", "rcpt"} /\ mail \in MailRows
  BY DEF C!ToRecipients, Trying, WireInv, MailTyped
<1>2. PICK c \in Mailers : c = C!Conn
  BY <1>1, OneConnection
<1>3. /\ c \in Conns /\ net \in [Conns -> NetRows] /\ net[c] \in NetRows /\ NetTyped /\ MailTyped
      /\ Talk(c) /\ net[c].replies \in Seq(Replies)
  BY <1>1, <1>2, ClientConstants DEF WireInv, NetTyped, AttemptInv, NetRows
<1>4. /\ net[c].gone = "no" /\ Silent(c) /\ Polite(c) /\ InTurn(c)
  BY <1>1, <1>3 DEF Talk, Opening
<1>5. net[c].replies # <<>> /\ First(c) = 250
  BY <1>2, <1>3 DEF C!ToRecipients, C!Answered, First
<1> DEFINE rest == Tail(net[c].replies)
<1>6. \/ Shut(c)
      \/ /\ ses[c].phase = "command" /\ net[c].wire = <<>> /\ rest = <<>>
         /\ Rcpts(c) = mail.to
  <2>1. Shut(c) \/ Answered(c)
    BY <1>1, <1>4, <1>5 DEF InTurn, Asked, Says
  <2>2. ASSUME Answered(c)
        PROVE  /\ ses[c].phase = "command" /\ net[c].wire = <<>> /\ rest = <<>>
               /\ Rcpts(c) = mail.to
    BY <1>1, <1>3, <1>5, <2>2, TailOfOne DEF Answered, Heard
  <2> QED
    BY <2>1, <2>2
<1>7. PICK rs : rs = rest
  OBVIOUS
<1>8. rs = Tail(net[c].replies) /\ ToSet(rs) \subseteq ToSet(net[c].replies)
  <2>1. rs = Tail(net[c].replies)
    BY <1>7
  <2> QED
    BY <1>3, <1>5, <2>1 DEF ToSet
<1>9. \/ Shut(c)
      \/ /\ ses[c].phase = "command" /\ net[c].wire = <<>> /\ rs = <<>>
         /\ Rcpts(c) = mail.to
  BY <1>6, <1>7
<1> HIDE DEF rest
<1>10. CASE mail.to < Recipients
  <2> DEFINE w == IF C!Conn \in {d \in Conns : ses[d].phase = "closed"}
                  THEN net[C!Conn].wire
                  ELSE Append(net[C!Conn].wire, [text |-> "RCPT", tls |-> mail.tls])
             to == mail.to + 1
             m == [[mail EXCEPT !.step = "rcpt"] EXCEPT !.to = to]
  <2>1. net' = [net EXCEPT ![C!Conn] = [[net[C!Conn] EXCEPT !.wire = w] EXCEPT !.replies = rs]]
    BY <1>2, <1>3, <1>8, <1>10 DEF C!ToRecipients, NetRows
  <2>2. w = IF C!Conn \in {d \in Conns : ses[d].phase = "closed"}
            THEN net[C!Conn].wire
            ELSE Append(net[C!Conn].wire, [text |-> "RCPT", tls |-> mail.tls])
    OBVIOUS
  <2>3. mail' = m
    BY <1>1, <1>10 DEF C!ToRecipients, MailRows
  <2> HIDE DEF w, to
  <2>4. m.step = "rcpt" /\ m.to = to /\ m.try = mail.try /\ m.encryption = mail.encryption
        /\ m.result = mail.result
    BY <1>1 DEF MailRows
  <2> HIDE DEF m
  <2>5. SameTry /\ mail'.step = "rcpt" /\ mail'.to = mail.to + 1
    BY <2>3, <2>4 DEF SameTry, to
  <2>6. Speech(c, "RCPT", rs)
    BY <1>1, <1>2, <2>1, <2>2, SpeechIs
  <2>7. "RCPT" \in Texts \ {"DATA"}
    BY DEF Texts, Commands
  <2>8. Silent(c)' /\ Polite(c)' /\ (Shut(c) => Shut(c)')
    BY <1>3, <1>4, <1>8, <2>6, <2>7, SilentSpeech
  <2>9. InTurn(c)'
    <3>1. CASE Shut(c)
      BY <2>8, <3>1 DEF InTurn
    <3>2. CASE ~ Shut(c)
      <4>1. /\ ses[c].phase = "command" /\ net[c].wire = <<>> /\ rs = <<>>
            /\ Rcpts(c) = mail.to
        BY <1>9, <3>2
      <4>2. ses'[c].phase = "command" /\ net'[c].replies = <<>>
            /\ Len(net'[c].wire) = 1 /\ net'[c].wire[1].text = "RCPT"
        BY <2>6, <4>1, AskedNow
      <4>3. "rcpt" \in DOMAIN Sayings /\ Sayings["rcpt"] = {"RCPT"}
        BY DEF Sayings
      <4>4. Rcpts(c)' + 1 = mail'.to
        BY <2>5, <2>6, <4>1 DEF Rcpts, Speech, Alone
      <4>5. Asked(c)'
        BY <2>5, <4>2, <4>3, <4>4 DEF Asked, Says
      <4> QED
        BY <4>5 DEF InTurn
    <3> QED
      BY <3>1, <3>2
  <2>10. Talk(c)'
    BY <1>4, <2>5, <2>6, <2>8, <2>9 DEF Talk, Speech, Opening
  <2>11. \A d \in Mailers \ {c} : Rests(d)
    BY <2>6, AloneRest DEF Speech
  <2>12. Trying'
    BY <2>5 DEF Trying
  <2> QED
    BY <1>1, <1>2, <2>5, <2>10, <2>11, <2>12, AttemptGoesOn
<1>11. CASE ~ (mail.to < Recipients)
  <2>1. mail.to = Recipients
    BY <1>1, <1>11, ClientConstants DEF MailRows
  <2>2. C!Says("DATA", "data", rs)
    BY <1>2, <1>8, <1>11 DEF C!ToRecipients, C!Sends
  <2>3. Speech(c, "DATA", rs) /\ SameTry /\ mail'.step = "data" /\ mail'.to = mail.to
    BY <1>1, <1>2, <2>2, SaysIs
  <2>4. AtData(c)'
    <3>1. CASE Shut(c)
      <4>1. ToSet(<<>>) = {}
        BY DEF ToSet
      <4>2. Shut(c)'
        BY <2>3, <3>1 DEF Speech, Alone, Shut
      <4>3. Silent(c)'
        BY <1>4, <2>3, <4>1, <4>2 DEF Silent, NoData, NoneOf, Shut, Speech, Alone
      <4>4. Polite(c)'
        BY <1>4, <1>8, <2>3 DEF Polite, Speech
      <4> QED
        BY <4>2, <4>3, <4>4 DEF AtData
    <3>2. CASE ~ Shut(c)
      <4>1. /\ ses[c].phase = "command" /\ net[c].wire = <<>> /\ rs = <<>>
            /\ Rcpts(c) = Recipients
        BY <1>9, <2>1, <3>2
      <4>2. ses'[c].phase = "command" /\ net'[c].replies = <<>>
            /\ Len(net'[c].wire) = 1 /\ net'[c].wire[1].text = "DATA"
        BY <2>3, <4>1, AskedNow
      <4>3. Says(c, {"DATA"})'
        BY <4>2 DEF Says
      <4>4. Everybody(c)'
        BY <1>4, <2>3, <4>1 DEF Everybody, Rcpts, NoneOf, Silent, Speech, Alone
      <4> QED
        BY <4>3, <4>4 DEF AtData
    <3> QED
      BY <3>1, <3>2
  <2>5. Talk(c)'
    BY <1>4, <2>3, <2>4 DEF Talk, Speech, Opening
  <2>6. \A d \in Mailers \ {c} : Rests(d)
    BY <2>3, AloneRest DEF Speech
  <2>7. Trying'
    BY <2>3 DEF Trying
  <2> QED
    BY <1>1, <1>2, <2>3, <2>5, <2>6, <2>7, AttemptGoesOn
<1> QED
  BY <1>10, <1>11

(* The body, and the verdict on it.                                        *)
LEMMA BodyTells ==
    ASSUME AttemptInv, WireInv, UNCHANGED <<ses, sink, intakeOnly>>,
           C!Body \/ C!Dot \/ C!Accepted
    PROVE  AttemptInv'
<1>1. Trying /\ mail.step \in {"data", "dot", "body"}
  BY DEF C!Body, C!Dot, C!Accepted, Trying
<1>2. PICK c \in Mailers : c = C!Conn
  BY <1>1, OneConnection
<1>3. /\ NetTyped /\ MailTyped /\ Talk(c) /\ net[c].gone = "no" /\ net[c].replies \in Seq(Replies)
  BY <1>1, <1>2, ClientConstants DEF WireInv, NetTyped, NetRows, AttemptInv, Talk
<1>4. {"text", "."} \subseteq Texts \ {"DATA"}
  BY DEF Texts, Commands
<1>5. ASSUME NEW text, NEW rs, Speech(c, text, rs), NEW step \in {"dot", "body", "quit"},
             SameTry, mail'.step = step,
             step \in {"dot", "body"} => AtBody(c)', step = "quit" => ForAll(c)'
      PROVE  AttemptInv'
  <2>1. Talk(c)'
    BY <1>3, <1>5 DEF Talk, Speech, Opening
  <2>2. \A d \in Mailers \ {c} : Rests(d)
    BY <1>5, AloneRest DEF Speech
  <2>3. Trying'
    BY <1>5 DEF Trying
  <2> QED
    BY <1>1, <1>2, <1>5, <2>1, <2>2, <2>3, AttemptGoesOn
<1>6. ASSUME NEW text, NEW rs, Speech(c, text, rs), NoData(c) => NoData(c)'
      PROVE  /\ Everybody(c) => Everybody(c)'
             /\ \A x : Judged(c, x) => Judged(c, x)'
             /\ ForAll(c) => ForAll(c)'
  <2>1. ses' = ses /\ Accepted' = Accepted
    BY <1>6 DEF Speech, Alone
  <2>2. (ForAll(c) => ForAll(c)') /\ (NoneOf(c) => NoneOf(c)')
    BY <2>1 DEF ForAll, NoneOf
  <2>3. Everybody(c) => Everybody(c)'
    BY <2>1, <2>2 DEF Everybody, Rcpts
  <2>4. \A x : Judged(c, x) => Judged(c, x)'
    BY <1>6, <2>1, <2>2 DEF Judged
  <2> QED
    BY <2>2, <2>3, <2>4
<1>7. CASE C!Body
  <2> DEFINE rest == Tail(net[c].replies)
  <2>1. /\ mail.step = "data" /\ net[c].replies # <<>> /\ First(c) = 354
        /\ C!Says("text", "dot", rest)
    BY <1>2, <1>3, <1>7 DEF C!Body, C!Answered, C!Sends, First
  <2>2. PICK rs : rs = rest
    OBVIOUS
  <2>3. C!Says("text", "dot", rs) /\ rs = Tail(net[c].replies)
    BY <2>1, <2>2
  <2> HIDE DEF rest
  <2>4. Speech(c, "text", rs) /\ SameTry /\ mail'.step = "dot"
    BY <1>1, <1>2, <2>3, SaysIs
  <2>5. ToSet(rs) \subseteq ToSet(net[c].replies)
    BY <1>3, <2>1, <2>3 DEF ToSet
  <2>6. NoData(c) => NoData(c)'
    BY <1>3, <1>4, <2>4, <2>5, SilentSpeech
  <2>7. (Everybody(c) => Everybody(c)') /\ \A x : Judged(c, x) => Judged(c, x)'
    BY <1>6, <2>4, <2>6
  <2>8. ~ Polite(c)
    <3>1. net[c].replies[1] \in ToSet(net[c].replies)
      BY <1>3, <2>1 DEF ToSet
    <3> QED
      BY <2>1, <3>1 DEF Polite, First
  <2>9. AtBody(c)'
    <3>1. CASE /\ ses[c].phase = "data" /\ net[c].wire = <<>>
               /\ Len(net[c].replies) = 1 /\ First(c) = 354 /\ Everybody(c)
      <4>1. rs = <<>>
        BY <1>3, <2>3, <3>1, TailOfOne
      <4>2. NoData(c)
        <5>1. ToSet(<<>>) = {}
          BY DEF ToSet
        <5> QED
          BY <3>1, <5>1 DEF NoData
      <4> QED
        BY <2>4, <2>6, <2>7, <3>1, <4>1, <4>2 DEF AtBody, Speech, Alone
    <3>2. CASE Len(net[c].replies) > 1 /\ First(c) = 354 /\ Judged(c, net[c].replies[2])
      <4>1. rs # <<>> /\ rs[1] = net[c].replies[2]
        <5>1. /\ rs \in Seq(Replies) /\ Len(rs) = Len(net[c].replies) - 1
              /\ \A i \in 1 .. Len(rs) : rs[i] = net[c].replies[i + 1]
          BY <1>3, <2>1, <2>3, HeadTailProperties
        <5>2. Len(rs) \in Nat /\ Len(rs) > 0
          BY <1>3, <3>2, <5>1
        <5>3. rs # <<>>
          BY <5>1, <5>2, EmptySeq
        <5>4. 1 \in 1 .. Len(rs) /\ 1 + 1 = 2
          BY <5>2
        <5> QED
          BY <5>1, <5>3, <5>4
      <4>2. PICK x : x = net[c].replies[2]
        OBVIOUS
      <4>3. Judged(c, x)' /\ net'[c].replies = rs
        BY <2>4, <2>7, <3>2, <4>2 DEF Speech
      <4>4. net'[c].replies # <<>> /\ net'[c].replies[1] = x
        BY <4>1, <4>2, <4>3
      <4> QED
        BY <4>3, <4>4 DEF AtBody, Judged
    <3> QED
      BY <1>3, <2>1, <2>8, <3>1, <3>2 DEF Talk, AtData, Says
  <2> QED
    BY <1>5, <2>4, <2>9
<1>8. CASE C!Dot
  <2>1. mail.step = "dot" /\ C!Says(".", "body", net[c].replies) /\ AtBody(c)
    BY <1>2, <1>3, <1>8 DEF C!Dot, C!SaysMore, Talk
  <2>2. PICK rs : rs = net[c].replies
    OBVIOUS
  <2>3. Speech(c, ".", rs) /\ SameTry /\ mail'.step = "body"
    BY <1>1, <1>2, <2>1, <2>2, SaysIs
  <2>4. NoData(c) => NoData(c)'
    BY <1>3, <1>4, <2>2, <2>3, SilentSpeech
  <2>5. (Everybody(c) => Everybody(c)') /\ \A x : Judged(c, x) => Judged(c, x)'
    BY <1>6, <2>3, <2>4
  <2>6. net'[c].replies = net[c].replies /\ ses' = ses
    BY <2>2, <2>3 DEF Speech, Alone
  <2>7. AtBody(c)'
    <3>1. CASE ses[c].phase = "data" /\ NoData(c) /\ net[c].replies = <<>> /\ Everybody(c)
      BY <2>4, <2>5, <2>6, <3>1 DEF AtBody
    <3>2. CASE net[c].replies # <<>> /\ Judged(c, net[c].replies[1])
      <4>1. PICK x : x = net[c].replies[1]
        OBVIOUS
      <4>2. Judged(c, x)' /\ net'[c].replies # <<>> /\ net'[c].replies[1] = x
        BY <2>5, <2>6, <3>2, <4>1
      <4> QED
        BY <4>2 DEF AtBody, Judged
    <3> QED
      BY <2>1, <3>1, <3>2 DEF AtBody
  <2> QED
    BY <1>5, <2>3, <2>7
<1>9. CASE C!Accepted
  <2>1. /\ mail.step = "body" /\ net[c].replies # <<>> /\ First(c) = 250
        /\ C!Says("QUIT", "quit", Tail(net[c].replies))
    BY <1>2, <1>3, <1>9 DEF C!Accepted, C!Answered, C!Sends, First
  <2>2. PICK rs : rs = Tail(net[c].replies)
    OBVIOUS
  <2>3. Speech(c, "QUIT", rs) /\ SameTry /\ mail'.step = "quit"
    BY <1>1, <1>2, <2>1, <2>2, SaysIs
  <2>4. ForAll(c)
    BY <1>3, <2>1 DEF Talk, AtBody, Judged, First
  <2>5. ForAll(c)'
    BY <2>3, <2>4 DEF ForAll, Speech, Alone
  <2> QED
    BY <1>5, <2>3, <2>5
<1> QED
  BY <1>7, <1>8, <1>9

-----------------------------------------------------------------------------
(* The handshake, after which the server speaks first or waits.            *)
LEMMA HandshakeTells ==
    ASSUME SessionInv, WireInv, MessagesInv, AttemptInv, NEW c \in Conns, Handshake(c)
    PROVE  AttemptInv'
<1>1. HandshakeDone(c) /\ UNCHANGED intakeOnly
  BY DEF Handshake, C!Upgraded
<1>2. \A d \in Conns \ {c} : Rests(d)
  BY <1>1, HandshakeLeavesOthers
<1>3. CASE c \notin Mailers
  <2>1. UNCHANGED mail
    BY <1>3 DEF Handshake
  <2>2. \A d \in Mailers : Rests(d)
    BY <1>2, <1>3, ClientConstants
  <2> QED
    BY <2>1, <2>2, AttemptRests
<1>4. CASE c \in Mailers
  <2> DEFINE step == IF mail.encryption = "tls" THEN "greeting" ELSE "upgraded"
  <2>1. mail.step = "tls" /\ c = C!Conn /\ mail \in MailRows /\ NetTyped
    BY <1>4 DEF Handshake, C!Upgraded, WireInv, MailTyped
  <2>2. mail'.step = step /\ SameTry /\ mail'.to = mail.to
    BY <1>4, <2>1 DEF Handshake, C!Upgraded, MailRows, SameTry
  <2>3. step \in {"greeting", "upgraded"}
    OBVIOUS
  <2> HIDE DEF step
  <2>4. Trying /\ Trying'
    BY <2>1, <2>2, <2>3 DEF Trying
  <2>5. net[c].gone = "no" /\ mail.to = 0 /\ Silent(c) /\ Polite(c) /\ InTurn(c)
    BY <1>4, <2>1, <2>4 DEF AttemptInv, Talk, Opening
  <2>6. /\ ses[c].phase = "handshake" /\ ses'[c].phase = "command"
        /\ net[c].wire = <<>> /\ net'[c].wire = <<>> /\ net'[c].gone = net[c].gone
        /\ net'[c].replies = net[c].replies \/ Gets(c, 220)
        /\ sink' = sink
    BY <1>1, <1>4, HandshakeReplies
  <2>7. net[c].replies = <<>>
    BY <2>1, <2>5, <2>6 DEF InTurn, Shut, Waits, Asked, Answered, Heard, Sayings
  <2>8. \/ net'[c].replies = <<>>
        \/ Len(net'[c].replies) = 1 /\ net'[c].replies # <<>> /\ First(c)' = 220
    BY <1>4, <2>1, <2>5, <2>6, <2>7, GotFirst
  <2>9. InTurn(c)'
    <3>1. CASE net'[c].replies = <<>>
      <4>1. Waits(c, {"command"})'
        BY <2>6, <3>1 DEF Waits
      <4> QED
        BY <2>2, <2>3, <4>1 DEF InTurn
    <3>2. CASE Len(net'[c].replies) = 1 /\ net'[c].replies # <<>> /\ First(c)' = 220
      <4>1. CASE step = "upgraded"
        BY <2>2, <3>2, <4>1 DEF InTurn
      <4>2. CASE step = "greeting"
        <5>1. Heard(c)'
          BY <2>6, <3>2 DEF Heard
        <5>2. Answered(c)'
          BY <2>2, <4>2, <5>1 DEF Answered
        <5> QED
          BY <5>2 DEF InTurn
      <4> QED
        BY <2>3, <4>1, <4>2
    <3> QED
      BY <2>8, <3>1, <3>2
  <2>10. Polite(c)'
    <3>1. net'[c].replies = net[c].replies \/ \E code : code # 354 /\ Gets(c, code)
      BY <2>6
    <3>2. Heads(c)
      BY <1>4, <2>1, <2>5, <2>6, <3>1, HeadsStay
    <3> QED
      BY <2>5, <3>2 DEF Heads
  <2>11. Silent(c)'
    <3>1. Accepted' = Accepted
      BY <1>1, <2>6, MailIsKept DEF intakeOnly
    <3> QED
      BY <2>5, <2>6, <3>1 DEF Silent, NoData, NoneOf
  <2>12. Talk(c)'
    BY <2>2, <2>3, <2>5, <2>6, <2>9, <2>10, <2>11 DEF Talk, Opening
  <2>13. \A d \in Mailers \ {c} : Rests(d)
    BY <1>2, ClientConstants
  <2> QED
    BY <1>4, <2>1, <2>2, <2>4, <2>12, <2>13, AttemptGoesOn
<1> QED
  BY <1>3, <1>4

LEMMA MailingTells ==
    ASSUME SessionInv, WireInv, AttemptInv, Mailing
    PROVE  AttemptInv'
<1>1. UNCHANGED <<ses, sink, intakeOnly>> /\ C!MailNext
  BY DEF Mailing
<1>2. \/ C!Dial \/ C!DialAgain \/ C!Connected \/ C!NoConnection \/ C!NotUpgraded
      \/ C!Greeted \/ C!HelloAgain \/ C!Helloed \/ C!HelloRefused \/ C!TlsGranted \/ C!LoggedIn
      \/ C!ToRecipients \/ C!Body \/ C!Dot \/ C!Accepted \/ C!Finished \/ C!Refused
      \/ C!EndOfAnswers \/ C!OutOfTime
  BY <1>1 DEF C!MailNext
<1> QED
  BY <1>1, <1>2, DialTells, DialAgainTells, GoesOnTells, EndsTell, HellosTell, HelloedTells,
     RecipientsTell, BodyTells

LEMMA OthersLeaveIt ==
    ASSUME MessagesInv, AttemptInv, UNCHANGED mail,
           \A d \in Mailers : ses'[d] = ses[d] /\ net'[d] = net[d],
           UNCHANGED <<sink, taken, shelf, aside>> \/ I!IntakeNext
    PROVE  AttemptInv'
<1>1. Accepted' = Accepted
  BY MailIsKept, IntakeKeepsMail
<1>2. \A d \in Mailers : Rests(d)
  BY <1>1 DEF Rests, NoneOf
<1> QED
  BY <1>2, AttemptRests

LEMMA PeerTells ==
    ASSUME MessagesInv, WireInv, AttemptInv, NEW c \in Conns, Peer(c)
    PROVE  AttemptInv'
<1>1. /\ c \notin Mailers /\ UNCHANGED <<ses, mail, sink, intakeOnly>>
      /\ net \in [Conns -> NetRows]
  BY DEF Peer, DeviceSends, HangsUp, WireInv, NetTyped
<1>2. \E n : net' = [net EXCEPT ![c] = n]
  <2>1. CASE DeviceSends(c)
    <3>1. PICK text :
            net' = [net EXCEPT ![c].wire = Append(@, Line(text, ses[c].tls)), ![c].sent = @ + 1]
      BY <2>1 DEF DeviceSends
    <3> DEFINE q == [net[c] EXCEPT !.wire = Append(net[c].wire, Line(text, ses[c].tls))]
    <3>2. net' = [net EXCEPT ![c] = [q EXCEPT !.sent = net[c].sent + 1]]
      BY <1>1, <3>1 DEF NetRows
    <3> QED
      BY <3>2
  <2>2. CASE HangsUp(c)
    <3> DEFINE p == [net[c] EXCEPT !.gone = "closed"]
               q == [net[c] EXCEPT !.gone = "reset"]
               n == [q EXCEPT !.wire = <<>>]
    <3>1. net' = [net EXCEPT ![c] = p] \/ net' = [net EXCEPT ![c] = n]
      BY <1>1, <2>2 DEF HangsUp
    <3> QED
      BY <3>1
  <2> QED
    BY <2>1, <2>2 DEF Peer
<1>3. PICK n : net' = [net EXCEPT ![c] = n]
  BY <1>2
<1>4. \A d \in Mailers : net'[d] = net[d]
  BY <1>1, <1>3, ClientConstants
<1> QED
  BY <1>1, <1>4, OthersLeaveIt DEF intakeOnly

LEMMA AttemptInit == Init => AttemptInv
<1> SUFFICES ASSUME Init PROVE AttemptInv
  OBVIOUS
<1>1. /\ ses = [c \in Conns |-> Fresh]
      /\ net = [c \in Conns |-> [up |-> c \notin Mailers, wire |-> <<>>, replies |-> <<>>,
                                 gone |-> "no", sent |-> 0]]
      /\ mail = C!Idle /\ sink = <<>> /\ taken = <<>> /\ shelf = [n \in Nodes |-> <<>>]
      /\ aside = {}
  BY DEF Init, ServerInit, C!MailInit, I!IntakeInit
<1>2. mail.step = "idle" /\ mail.try = 0 /\ mail.to = 0 /\ mail.result = <<>>
  BY <1>1 DEF C!Idle
<1>3. ToSet(<<>>) = {}
  BY DEF ToSet
<1>4. Accepted = {}
  BY <1>1, <1>3, IntakeConstants DEF Accepted
<1>5. \A c \in Mailers : Untouched(c)
  BY <1>1, <1>4, ClientConstants DEF Untouched, NoneOf, Fresh
<1>6. 1 .. 0 = {} /\ DOMAIN <<>> = {}
  OBVIOUS
<1>7. ~ Trying
  BY <1>2 DEF Trying
<1> QED
  BY <1>2, <1>5, <1>6, <1>7 DEF AttemptInv

LEMMA AttemptStep ==
    SessionInv /\ SessionInv' /\ WireInv /\ MessagesInv /\ AttemptInv /\ [Next]_vars => AttemptInv'
<1> SUFFICES ASSUME SessionInv, SessionInv', WireInv, MessagesInv, AttemptInv, [Next]_vars
             PROVE  AttemptInv'
  OBVIOUS
<1>1. CASE UNCHANGED vars
  BY <1>1, OthersLeaveIt DEF vars, serverVars, intakeOnly
<1>2. CASE Mailing
  BY <1>2, MailingTells
<1>3. CASE Taking
  BY <1>3, OthersLeaveIt DEF Taking
<1>4. CASE SetUp
  BY <1>4, OthersLeaveIt DEF SetUp, SetRuntime, intakeOnly
<1>5. ASSUME NEW c \in Conns, Serve(c) \/ Lobby(c) PROVE AttemptInv'
  BY <1>5, AttemptServed
<1>6. ASSUME NEW c \in Conns, Handshake(c) PROVE AttemptInv'
  BY <1>6, HandshakeTells
<1>7. ASSUME NEW c \in Conns, Peer(c) PROVE AttemptInv'
  BY <1>7, PeerTells
<1> QED
  BY <1>1, <1>2, <1>3, <1>4, <1>5, <1>6, <1>7 DEF Next

LEMMA AttemptsAreTrue == WireInv /\ AttemptInv => AttemptsTellTheTruth
<1> SUFFICES ASSUME WireInv, AttemptInv, NEW k \in 1 .. mail.try
             PROVE  LET got == {msg \in Accepted : msg.conn = C!ConnOf(k)}
                    IN  /\ mail.result[k] = "yes" =>
                               \E msg \in got : Cardinality(msg.rcpt) = Recipients
                        /\ got # {} =>
                               mail.result[k] \in {"yes", "none", "timeout", "io", "protocol"}
  BY DEF AttemptsTellTheTruth
<1>1. MailTyped /\ mail \in MailRows
  BY DEF WireInv, MailTyped
<1>2. mail.step # "idle"
  <2>1. mail.try # 0
    BY <1>1 DEF MailRows
  <2> QED
    BY <1>1, <2>1 DEF MailTyped
<1>3. /\ mail.encryption \in Encryption /\ mail.try \in 1 .. Len(Tries[mail.encryption])
      /\ Len(Tries[mail.encryption]) \in Nat
  BY <1>1, <1>2, ClientConstants DEF MailTyped
<1>4. k \in 1 .. Len(Tries[mail.encryption])
  BY <1>3
<1>5. PICK c \in Mailers : c = C!ConnOf(k)
  BY <1>3, <1>4, ClientConstants DEF C!ConnOf
<1>6. Outcome(c, mail.result[k])
  BY <1>5 DEF AttemptInv
<1> QED
  BY <1>5, <1>6 DEF Outcome, ForAll, Silent, NoneOf, Open

(* An alert counts as mailed only when the server has accepted it for all  *)
(* recipients, and an attempt that was refused, or never came to the body, *)
(* has left nothing there: whatever the server's tables, limits and time   *)
(* limits make of the dialog, no answer is taken for that to another line. *)
THEOREM AttemptTheorem == Spec => []AttemptsTellTheTruth
BY AttemptInit, AttemptStep, AttemptsAreTrue, SessionsCorrect, MessagesCorrect, WireCorrect, PTL
   DEF Spec
=============================================================================
