---------------------------- MODULE MailPathProofs ----------------------------
(***************************************************************************)
(* Proofs about MailPath, for any number of connections, recipients, nodes *)
(* and lines, any vocabulary, access policies and limits.                  *)
(*                                                                         *)
(* First the session of a connection: what a line may do to it (Enclosed,  *)
(* Known); then the messages made from sessions and where they are; then   *)
(* the lines on the wire, which have to do with the mail client.           *)
(***************************************************************************)
EXTENDS MailPath, FiniteSetTheorems, SequenceTheorems, TLAPS

(* The envelope of a session: all lines of it since the transaction began, *)
(* and, while a body is read, before the line of DATA; as many recipients  *)
(* as there may be.                                                        *)
Envelope(s) == s.rcpt \cup ({s.from} \ {0})

Few(rcpt) == IsFiniteSet(rcpt) /\ Cardinality(rcpt) <= MaxRcpt

Enclosed(s) ==
    /\ s.began <= s.line
    /\ \A l \in Envelope(s) :
          1 <= l /\ s.began <= l /\ l <= s.line /\ (s.phase = "data" => l < s.line)
    /\ Few(s.rcpt)

(* A login that passes what the policy p checks, as `user`.                *)
Passes(login, p, user) ==
    /\ login[1] = user
    /\ p.user => login[1] = "right"
    /\ p.pass => login[2] = "right"

Known(s) ==
    /\ s.user # "none" => \E login \in s.shown : Passes(login, s.policy, s.user)
    /\ s.phase = "data" => s.user # "none" \/ ~ RequiresAuth(s.policy)
    /\ s.phase = "pass" => s.name # "none"
    /\ s.phase = "new" => s.user = "none"

SessionInv ==
    /\ policy \in Policies
    /\ ses \in [Conns -> Session]
    /\ \A c \in Conns : ses[c].buf = <<>> /\ Enclosed(ses[c]) /\ Known(ses[c])

-----------------------------------------------------------------------------
(* Sessions.                                                               *)

LEMMA PolicyShape == Policies \cup {Fresh.policy} \subseteq [user : BOOLEAN, pass : BOOLEAN]
<1>1. Policies \subseteq [user : BOOLEAN, pass : BOOLEAN]
  BY ServerAssumption
<1>2. Fresh.policy = [user |-> FALSE, pass |-> FALSE]
  BY DEF Fresh
<1>3. Fresh.policy \in [user : BOOLEAN, pass : BOOLEAN]
  BY <1>2
<1> QED
  BY <1>1, <1>3

LEMMA Limits ==
    /\ MaxConns \in Nat \ {0} /\ MaxRcpt \in Nat \ {0} /\ MaxSize \in Nat \ {0}
    /\ MaxTrouble \in Nat \ {0} /\ SinkSize \in Nat \ {0} /\ MaxLines \in Nat
BY ServerAssumption

(* What tells one session from another, for the fields named.              *)
SameEnvelope(r, s) == r.from = s.from /\ r.rcpt = s.rcpt /\ r.began = s.began /\ r.line = s.line
SameLogin(r, s)    == r.user = s.user /\ r.shown = s.shown /\ r.policy = s.policy /\ r.name = s.name

LEMMA FewNone == Few({})
BY Limits, FS_EmptySet DEF Few

LEMMA FewMore ==
    ASSUME NEW rcpt, NEW l, Few(rcpt), ~ (Cardinality(rcpt) >= MaxRcpt)
    PROVE  Few(rcpt \cup {l})
<1>1. IsFiniteSet(rcpt) /\ Cardinality(rcpt) \in Nat
  BY FS_CardinalityType DEF Few
<1>2. /\ IsFiniteSet(rcpt \cup {l})
      /\ Cardinality(rcpt \cup {l}) = Cardinality(rcpt)
         \/ Cardinality(rcpt \cup {l}) = Cardinality(rcpt) + 1
  BY <1>1, FS_AddElement
<1> QED
  BY <1>1, <1>2, Limits DEF Few

LEMMA FreshSession == Fresh \in Session /\ Over \in Session /\ Over.phase = "closed"
<1> DEFINE P == Policies \cup {Fresh.policy}
<1>1. [user |-> FALSE, pass |-> FALSE] \in P
  BY DEF Fresh
<1> HIDE DEF P
<1>2. Fresh \in [from : Nat, rcpt : SUBSET Nat, user : {"none", "right", "wrong"},
                 phase : Phases, tls : BOOLEAN, policy : P,
                 name : {"none", "right", "wrong"}, size : 0 .. MaxSize + 1, buf : Seq(Lines),
                 line : Nat, began : Nat, shown : SUBSET Logins]
  BY <1>1, Limits DEF Fresh, Phases, Reading
<1>3. Fresh \in Session
  BY <1>2 DEF P, Session
<1> QED
  BY <1>3 DEF Over, Session, Phases, Reading

LEMMA ConsumedSession ==
    ASSUME NEW s \in Session, s.buf = <<>>
    PROVE  /\ Consumed(s) \in Session
           /\ Consumed(s).buf = <<>>
           /\ Consumed(s).line = s.line + 1
           /\ Consumed(s).from = s.from /\ Consumed(s).rcpt = s.rcpt
           /\ Consumed(s).began = s.began
           /\ SameLogin(Consumed(s), s)
           /\ Consumed(s).phase = s.phase /\ Consumed(s).size = s.size /\ Consumed(s).tls = s.tls
<1>1. Consumed(s) = [s EXCEPT !.line = @ + 1]
  BY DEF Consumed, Session
<1>2. [s EXCEPT !.line = @ + 1] \in Session
  BY DEF Session
<1> QED
  BY <1>1, <1>2 DEF Session, SameLogin

LEMMA BeginSession ==
    ASSUME NEW s \in Session
    PROVE  LET r == Begin(ResetEnvelope(s))
           IN  /\ r \in Session
               /\ r.buf = s.buf /\ r.phase = s.phase
               /\ r.from = 0 /\ r.rcpt = {} /\ r.line = s.line /\ r.began = s.line + 1
               /\ SameLogin(r, s)
<1> DEFINE e == ResetEnvelope(s)
<1>1. /\ e \in Session
      /\ e.buf = s.buf /\ e.phase = s.phase
      /\ e.from = 0 /\ e.rcpt = {} /\ e.line = s.line
      /\ SameLogin(e, s)
  BY DEF ResetEnvelope, Session, SameLogin
<1> HIDE DEF e
<1>2. LET r == Begin(e)
      IN  /\ r \in Session
          /\ r.buf = e.buf /\ r.phase = e.phase
          /\ r.from = e.from /\ r.rcpt = e.rcpt /\ r.line = e.line /\ r.began = e.line + 1
          /\ SameLogin(r, e)
  BY <1>1 DEF Begin, Session, SameLogin
<1> QED
  BY <1>1, <1>2 DEF e, SameLogin

(* When one session changes, it is enough that it is in order after.       *)
LEMMA OneSession ==
    ASSUME SessionInv, UNCHANGED policy, NEW c \in Conns, NEW r \in Session,
           r.buf = <<>>, Enclosed(r), Known(r), ses' = [ses EXCEPT ![c] = r]
    PROVE  SessionInv'
<1>1. ses' \in [Conns -> Session]
  BY DEF SessionInv
<1>2. \A d \in Conns : ses'[d] = IF d = c THEN r ELSE ses[d]
  BY DEF SessionInv
<1>3. \A d \in Conns : ses'[d].buf = <<>> /\ Enclosed(ses'[d]) /\ Known(ses'[d])
  BY <1>2 DEF SessionInv
<1> QED
  BY <1>1, <1>3 DEF SessionInv, Enclosed, Envelope, Known, Passes

LEMMA SessionEnds ==
    ASSUME SessionInv, UNCHANGED policy, NEW c \in Conns, ses' = [ses EXCEPT ![c] = Over]
    PROVE  SessionInv'
<1>1. Over.buf = <<>> /\ Enclosed(Over) /\ Known(Over)
  BY FewNone DEF Over, Fresh, Enclosed, Envelope, Known
<1> QED
  BY <1>1, FreshSession, OneSession

(* A line is consumed and the envelope left as it is; the session is not    *)
(* with a body then, or it was before or is let in now.                    *)
LEMMA LineKeepsEnvelope ==
    ASSUME SessionInv, UNCHANGED policy, NEW c \in Conns, NEW r \in Session,
           r.buf = <<>>, SameEnvelope(r, ses[c]), Known(r),
           ses' = [ses EXCEPT ![c] = Consumed(r)]
    PROVE  SessionInv'
<1>1. Enclosed(ses[c]) /\ ses[c] \in Session
  BY DEF SessionInv
<1>2. Enclosed(Consumed(r))
  <2> DEFINE s == ses[c]
             q == Consumed(r)
  <2>1. /\ q.line = r.line + 1 /\ q.from = r.from /\ q.rcpt = r.rcpt /\ q.began = r.began
        /\ r.line \in Nat /\ r.began \in Nat /\ r.from \in Nat /\ r.rcpt \subseteq Nat
    BY ConsumedSession DEF Session
  <2>2. r.line = s.line /\ r.from = s.from /\ r.rcpt = s.rcpt /\ r.began = s.began
    BY DEF SameEnvelope
  <2> HIDE DEF q, s
  <2>3. \A l \in Envelope(q) : 1 <= l /\ q.began <= l /\ l < q.line
    BY <1>1, <2>1, <2>2 DEF Enclosed, Envelope, s
  <2> QED
    BY <1>1, <2>1, <2>2, <2>3 DEF Enclosed, Envelope, q, s
<1>3. Known(Consumed(r))
  BY ConsumedSession DEF SameLogin, Known
<1> QED
  BY <1>2, <1>3, ConsumedSession, OneSession

(* A line is consumed and a transaction begins with it; at most the sender *)
(* is known.                                                               *)
LEMMA LineBegins ==
    ASSUME SessionInv, UNCHANGED policy, NEW c \in Conns, NEW r \in Session,
           r.buf = <<>>, r.rcpt = {}, r.from \in {0, r.line + 1}, r.began = r.line + 1,
           r.phase # "data", Known(r), ses' = [ses EXCEPT ![c] = Consumed(r)]
    PROVE  SessionInv'
<1>1. Enclosed(Consumed(r))
  <2> DEFINE q == Consumed(r)
  <2>1. /\ q.line = r.line + 1 /\ q.from = r.from /\ q.rcpt = {} /\ q.began = r.began
        /\ q.phase # "data" /\ r.line \in Nat
    BY ConsumedSession DEF Session
  <2> HIDE DEF q
  <2> QED
    BY <2>1, FewNone DEF Enclosed, Envelope, q
<1>2. Known(Consumed(r))
  BY ConsumedSession DEF SameLogin, Known
<1> QED
  BY <1>1, <1>2, ConsumedSession, OneSession

-----------------------------------------------------------------------------
(* The lines of the dialog.                                                *)

(* AUTH: whatever was shown is remembered as shown, and only what passes   *)
(* makes a user.                                                           *)
LEMMA ConcludeKeeps ==
    ASSUME SessionInv, UNCHANGED policy, NEW c \in Conns,
           NEW name \in {"right", "wrong"}, NEW pass \in {"right", "wrong", "none"},
           Conclude(c, name, pass)
    PROVE  SessionInv'
<1> DEFINE s  == ses[c]
           q  == [s EXCEPT !.phase = "command", !.name = "none",
                           !.shown = @ \cup {<<name, pass>>}]
           ok == CredentialsOk(s.policy, name, pass)
           r  == IF ok THEN [q EXCEPT !.user = name] ELSE q
<1>1. s \in Session /\ s.buf = <<>> /\ Known(s)
  BY DEF SessionInv
<1>2. ses' = [ses EXCEPT ![c] = Consumed(r)]
  BY DEF Conclude, Answer
<1> HIDE DEF s
<1>3. <<name, pass>> \in Logins
  BY DEF Logins
<1>4. /\ q \in Session /\ q.buf = <<>> /\ SameEnvelope(q, s)
      /\ q.phase = "command" /\ q.name = "none" /\ q.shown = s.shown \cup {<<name, pass>>}
      /\ q.user = s.user /\ q.policy = s.policy
  BY <1>1, <1>3 DEF Session, SameEnvelope, Phases, Reading
<1> HIDE DEF q
<1>5. /\ [q EXCEPT !.user = name] \in Session /\ [q EXCEPT !.user = name].buf = <<>>
      /\ SameEnvelope([q EXCEPT !.user = name], s)
      /\ [q EXCEPT !.user = name].phase = "command"
      /\ [q EXCEPT !.user = name].user = name
      /\ [q EXCEPT !.user = name].shown = q.shown
      /\ [q EXCEPT !.user = name].policy = q.policy
  BY <1>4 DEF Session, SameEnvelope
<1>6. CASE ok
  <2>1. r = [q EXCEPT !.user = name]
    BY <1>6
  <2>2. Passes(<<name, pass>>, s.policy, name)
    BY <1>6 DEF CredentialsOk, Passes
  <2>3. Known(r)
    BY <1>4, <1>5, <2>1, <2>2 DEF Known
  <2> QED
    BY <1>2, <1>5, <2>1, <2>3, LineKeepsEnvelope DEF s
<1>7. CASE ~ ok
  <2>1. r = q
    BY <1>7
  <2>2. Known(q)
    BY <1>1, <1>4 DEF Known
  <2> QED
    BY <1>2, <1>4, <2>1, <2>2, LineKeepsEnvelope DEF s
<1> QED
  BY <1>6, <1>7

LEMMA AuthKeeps ==
    ASSUME SessionInv, NEW c \in Conns, AuthAsks(c) \/ AuthAtOnce(c) \/ AuthAnswer(c)
    PROVE  SessionInv'
<1> DEFINE s == ses[c]
<1>1. s \in Session /\ s.buf = <<>> /\ Known(s) /\ UNCHANGED policy
  BY DEF SessionInv, AuthAsks, AuthAtOnce, AuthAnswer
<1>2. CASE AuthAsks(c)
  <2> DEFINE asks == Asks[Text(c)]
             name == IF Text(c) = "LOGIN right" THEN "right" ELSE "none"
             r    == [s EXCEPT !.phase = asks, !.name = name]
  <2>1. ses' = [ses EXCEPT ![c] = Consumed(r)] /\ Text(c) \in DOMAIN Asks
    BY <1>2 DEF AuthAsks, Answer, Command
  <2>2. asks \in {"plain", "name", "pass", "cram"} /\ (asks = "pass" => name = "right")
    BY <2>1 DEF Asks
  <2>3. name \in {"right", "none"}
    OBVIOUS
  <2> HIDE DEF asks, name, s
  <2>4. /\ r \in Session /\ r.buf = <<>> /\ SameEnvelope(r, s)
        /\ r.phase = asks /\ r.name = name /\ r.user = s.user /\ r.shown = s.shown
        /\ r.policy = s.policy
    BY <1>1, <2>2, <2>3 DEF Session, SameEnvelope, Phases, Reading
  <2>5. Known(r)
    BY <1>1, <2>2, <2>4 DEF Known
  <2> QED
    BY <1>1, <2>1, <2>4, <2>5, LineKeepsEnvelope DEF s
<1>3. CASE AuthAtOnce(c)
  <2> DEFINE given == IF Text(c) = "PLAIN right" THEN "right" ELSE "wrong"
  <2>1. Conclude(c, given, given)
    BY <1>3 DEF AuthAtOnce
  <2>2. given \in {"right", "wrong"}
    OBVIOUS
  <2> HIDE DEF given
  <2> QED
    BY <1>1, <2>1, <2>2, ConcludeKeeps
<1>4. CASE AuthAnswer(c)
  <2>1. NameIn(Text(c)) \in {"right", "wrong"} /\ PassIn(Text(c)) \in {"right", "wrong"}
    BY DEF NameIn, PassIn
  <2>2. CASE Conclude(c, NameIn(Text(c)), PassIn(Text(c)))
    BY <1>1, <2>1, <2>2, ConcludeKeeps
  <2>3. CASE s.phase = "pass" /\ Conclude(c, s.name, PassIn(Text(c)))
    <3>1. s.name \in {"right", "wrong"}
      BY <1>1, <2>3 DEF Known, Session
    <3> QED
      BY <1>1, <2>1, <2>3, <3>1, ConcludeKeeps
  <2>4. CASE Conclude(c, NameIn(Text(c)), "none")
    BY <1>1, <2>1, <2>4, ConcludeKeeps
  <2>5. CASE Answer(c, 334, [s EXCEPT !.phase = "pass", !.name = NameIn(Text(c))])
    <3> DEFINE name == NameIn(Text(c))
               r == [s EXCEPT !.phase = "pass", !.name = name]
    <3>1. ses' = [ses EXCEPT ![c] = Consumed(r)]
      BY <2>5 DEF Answer
    <3>2. name \in {"right", "wrong"}
      BY <2>1
    <3> HIDE DEF name, s
    <3>3. /\ r \in Session /\ r.buf = <<>> /\ SameEnvelope(r, s)
          /\ r.phase = "pass" /\ r.name = name /\ r.user = s.user /\ r.shown = s.shown
          /\ r.policy = s.policy
      BY <1>1, <3>2 DEF Session, SameEnvelope, Phases, Reading
    <3>4. Known(r)
      BY <1>1, <3>2, <3>3 DEF Known
    <3> QED
      BY <1>1, <3>1, <3>3, <3>4, LineKeepsEnvelope DEF s
  <2>6. CASE Answer(c, 501, [s EXCEPT !.phase = "command", !.name = "none"])
    <3> DEFINE r == [s EXCEPT !.phase = "command", !.name = "none"]
    <3>1. ses' = [ses EXCEPT ![c] = Consumed(r)]
      BY <2>6 DEF Answer
    <3> HIDE DEF s
    <3>2. /\ r \in Session /\ r.buf = <<>> /\ SameEnvelope(r, s)
          /\ r.phase = "command" /\ r.user = s.user /\ r.shown = s.shown /\ r.policy = s.policy
      BY <1>1 DEF Session, SameEnvelope, Phases, Reading
    <3>3. Known(r)
      BY <1>1, <3>2 DEF Known
    <3> QED
      BY <1>1, <3>1, <3>2, <3>3, LineKeepsEnvelope DEF s
  <2> QED
    BY <1>4, <2>2, <2>3, <2>4, <2>5, <2>6 DEF AuthAnswer
<1> QED
  BY <1>2, <1>3, <1>4

(* Lines that change nothing of the envelope, or begin a transaction.      *)
LEMMA CommandKeeps ==
    ASSUME SessionInv, NEW c \in Conns,
           \/ Hello(c) \/ Reset(c) \/ Nothing(c) \/ Quit(c) \/ StartTls(c)
           \/ Refuse530(c) \/ MailFrom(c) \/ BadAddress(c)
    PROVE  SessionInv'
<1> DEFINE s == ses[c]
<1>1. s \in Session /\ s.buf = <<>> /\ Known(s) /\ Enclosed(s)
  BY DEF SessionInv
<1>2. UNCHANGED policy /\ s.phase = "command"
  BY DEF Hello, Reset, Nothing, Quit, StartTls, Refuse530, MailFrom, BadAddress, Command, Reads
<1>3. CASE Hello(c) \/ Reset(c)
  <2> DEFINE r == Begin(ResetEnvelope(s))
  <2>1. ses' = [ses EXCEPT ![c] = Consumed(r)]
    BY <1>3 DEF Hello, Reset, Answer
  <2>2. /\ r \in Session /\ r.buf = <<>> /\ r.phase = "command"
        /\ r.from = 0 /\ r.rcpt = {} /\ r.began = r.line + 1 /\ SameLogin(r, s)
    BY <1>1, <1>2, BeginSession
  <2> HIDE DEF r
  <2>3. Known(r)
    BY <1>1, <2>2 DEF Known, SameLogin
  <2> QED
    BY <1>2, <2>1, <2>2, <2>3, LineBegins
<1>4. CASE Nothing(c) \/ Refuse530(c) \/ BadAddress(c)
  <2>1. ses' = [ses EXCEPT ![c] = Consumed(s)]
    BY <1>4 DEF Nothing, Refuse530, BadAddress, Answer
  <2> QED
    BY <1>1, <1>2, <2>1, LineKeepsEnvelope DEF SameEnvelope
<1>5. CASE Quit(c)
  BY <1>2, <1>5, SessionEnds DEF Quit
<1>6. CASE StartTls(c)
  <2>1. CASE ses' = [ses EXCEPT ![c] = Consumed(s)]
    BY <1>1, <1>2, <2>1, LineKeepsEnvelope DEF SameEnvelope
  <2>2. CASE ses' = [ses EXCEPT ![c] = [Consumed(@) EXCEPT !.phase = "handshake", !.buf = <<>>]]
    <3> DEFINE q == Consumed(s)
               r == [q EXCEPT !.phase = "handshake", !.buf = <<>>]
    <3>1. /\ q \in Session /\ q.line = s.line + 1 /\ q.from = s.from /\ q.rcpt = s.rcpt
          /\ q.began = s.began /\ SameLogin(q, s)
      BY <1>1, ConsumedSession
    <3>2. ses' = [ses EXCEPT ![c] = r]
      BY <2>2
    <3> HIDE DEF q, s
    <3>8. "handshake" \in Phases /\ <<>> \in Seq(Lines)
      BY DEF Phases
    <3>6. r \in Session
      BY <3>1, <3>8 DEF Session
    <3>7. r.buf = <<>> /\ r.phase = "handshake" /\ SameEnvelope(r, q) /\ SameLogin(r, q)
      BY <3>1 DEF Session, SameEnvelope, SameLogin
    <3>3. /\ r \in Session /\ r.buf = <<>> /\ SameEnvelope(r, q) /\ SameLogin(r, q)
          /\ r.phase = "handshake"
      BY <3>6, <3>7
    <3> HIDE DEF r
    <3>4. Enclosed(r)
      BY <1>1, <3>1, <3>3 DEF Enclosed, Envelope, SameEnvelope, Session
    <3>5. Known(r)
      BY <1>1, <3>1, <3>3 DEF Known, SameLogin
    <3> QED
      BY <1>2, <3>2, <3>3, <3>4, <3>5, OneSession DEF s
  <2> QED
    BY <1>6, <2>1, <2>2 DEF StartTls, Answer, AheadDropped
<1>7. CASE MailFrom(c)
  <2> DEFINE q == [s EXCEPT !.from = s.line + 1, !.rcpt = {}]
             r == Begin(q)
  <2>1. ses' = [ses EXCEPT ![c] = Consumed(r)]
    BY <1>7 DEF MailFrom, Answer
  <2> HIDE DEF s
  <2>6. s.line + 1 \in Nat /\ {} \in SUBSET Nat
    BY <1>1 DEF Session
  <2>5. q \in Session
    BY <1>1, <2>6 DEF Session
  <2>2. /\ q \in Session /\ q.buf = <<>> /\ q.phase = "command" /\ q.line = s.line
        /\ q.from = s.line + 1 /\ q.rcpt = {} /\ SameLogin(q, s)
    BY <1>1, <1>2, <2>5 DEF Session, SameLogin
  <2> HIDE DEF q
  <2>3. /\ r \in Session /\ r.buf = <<>> /\ r.phase = "command" /\ r.line = q.line
        /\ r.from = r.line + 1 /\ r.rcpt = {} /\ r.began = r.line + 1 /\ SameLogin(r, q)
    BY <2>2 DEF Begin, Session, SameLogin
  <2> HIDE DEF r
  <2>4. Known(r)
    BY <1>1, <2>2, <2>3 DEF Known, SameLogin
  <2> QED
    BY <1>2, <2>1, <2>3, <2>4, LineBegins
<1> QED
  BY <1>3, <1>4, <1>5, <1>6, <1>7

(* RCPT, DATA and a line of a body.                                        *)
LEMMA EnvelopeKeeps ==
    ASSUME SessionInv, NEW c \in Conns, RcptTo(c) \/ Data(c) \/ BodyLine(c)
    PROVE  SessionInv'
<1> DEFINE s == ses[c]
<1>1. s \in Session /\ s.buf = <<>> /\ Known(s) /\ Enclosed(s) /\ UNCHANGED policy
  BY DEF SessionInv, RcptTo, Data, BodyLine
<1>2. CASE RcptTo(c)
  <2> DEFINE r == [s EXCEPT !.rcpt = @ \cup {s.line + 1}]
  <2>1. s.phase = "command"
    BY <1>2 DEF RcptTo, Command, Reads
  <2>2. CASE ses' = [ses EXCEPT ![c] = Consumed(s)]
    BY <1>1, <2>2, LineKeepsEnvelope DEF SameEnvelope
  <2>3. CASE /\ ses' = [ses EXCEPT ![c] = Consumed(r)]
             /\ ~ (Cardinality(s.rcpt) >= MaxRcpt)
    <3> DEFINE q == Consumed(r)
    <3>1. ses' = [ses EXCEPT ![c] = q]
      BY <2>3
    <3>2. /\ r \in Session /\ r.buf = <<>> /\ r.phase = "command" /\ r.from = s.from
          /\ r.rcpt = s.rcpt \cup {s.line + 1} /\ r.line = s.line /\ r.began = s.began
          /\ SameLogin(r, s)
      BY <1>1, <2>1 DEF Session, SameLogin
    <3> HIDE DEF r
    <3>3. /\ q \in Session /\ q.buf = <<>> /\ q.phase = "command" /\ q.from = s.from
          /\ q.rcpt = s.rcpt \cup {s.line + 1} /\ q.line = s.line + 1 /\ q.began = s.began
          /\ SameLogin(q, r)
      BY <3>2, ConsumedSession
    <3> HIDE DEF q
    <3>6. s.line \in Nat /\ s.began \in Nat /\ s.from \in Nat /\ s.rcpt \subseteq Nat
      BY <1>1 DEF Session
    <3>7. Few(q.rcpt)
      <4>1. Few(s.rcpt) /\ ~ (Cardinality(s.rcpt) >= MaxRcpt)
        BY <1>1, <2>3 DEF Enclosed
      <4> HIDE DEF s
      <4>2. Few(s.rcpt \cup {s.line + 1})
        BY <4>1, FewMore
      <4> QED
        BY <3>3, <4>2
    <3> HIDE DEF s
    <3>8. \A l \in Envelope(q) : 1 <= l /\ q.began <= l /\ l <= q.line
      BY <1>1, <3>3, <3>6 DEF Enclosed, Envelope
    <3>4. Enclosed(q)
      BY <1>1, <3>3, <3>6, <3>7, <3>8 DEF Enclosed
    <3>5. Known(q)
      BY <1>1, <3>2, <3>3 DEF Known, SameLogin
    <3> QED
      BY <1>1, <3>1, <3>3, <3>4, <3>5, OneSession DEF s
  <2> QED
    BY <1>2, <2>2, <2>3 DEF RcptTo, Answer
<1>3. CASE Data(c)
  <2> DEFINE r == [s EXCEPT !.phase = "data", !.size = 0]
  <2>1. ses' = [ses EXCEPT ![c] = Consumed(r)]
    BY <1>3 DEF Data, Answer
  <2>2. s.user # "none" \/ ~ RequiresAuth(s.policy)
    BY <1>3 DEF Data, Barred
  <2> HIDE DEF s
  <2>5. 0 \in 0 .. MaxSize + 1 /\ "data" \in Phases
    BY Limits DEF Phases, Reading
  <2>6. r \in Session
    BY <1>1, <2>5 DEF Session
  <2>3. /\ r \in Session /\ r.buf = <<>> /\ SameEnvelope(r, s) /\ SameLogin(r, s)
        /\ r.phase = "data"
    BY <1>1, <2>6 DEF Session, SameEnvelope, SameLogin
  <2> HIDE DEF r
  <2>4. Known(r)
    BY <1>1, <2>2, <2>3 DEF Known, SameLogin
  <2> QED
    BY <1>1, <2>1, <2>3, <2>4, LineKeepsEnvelope DEF s
<1>4. CASE BodyLine(c)
  <2> DEFINE q == Consumed(s)
             size == IF q.size > MaxSize THEN q.size ELSE q.size + 1
             r == [q EXCEPT !.size = size]
  <2>1. /\ q \in Session /\ q.buf = <<>> /\ q.line = s.line + 1 /\ q.from = s.from
        /\ q.rcpt = s.rcpt /\ q.began = s.began /\ SameLogin(q, s) /\ q.phase = s.phase
    BY <1>1, ConsumedSession
  <2>2. ses' = [ses EXCEPT ![c] = r]
    BY <1>4, <2>1 DEF BodyLine, Session
  <2> HIDE DEF q
  <2>3. size \in 0 .. MaxSize + 1
    BY <2>1, Limits DEF Session
  <2> HIDE DEF size
  <2> HIDE DEF s
  <2>8. q \in Session
    BY <2>1
  <2>7. r \in Session
    BY <2>3, <2>8 DEF Session
  <2>4. /\ r \in Session /\ r.buf = <<>> /\ SameEnvelope(r, q) /\ SameLogin(r, q)
        /\ r.phase = q.phase
    <3>1. r.buf = q.buf /\ r.phase = q.phase
      BY <2>8 DEF Session
    <3>2. SameEnvelope(r, q)
      BY <2>8 DEF Session, SameEnvelope
    <3>3. SameLogin(r, q)
      BY <2>8 DEF Session, SameLogin
    <3> QED
      BY <2>1, <2>7, <3>1, <3>2, <3>3
  <2> HIDE DEF r
  <2>5. Enclosed(r)
    BY <1>1, <2>1, <2>4 DEF Enclosed, Envelope, SameEnvelope, Session
  <2>6. Known(r)
    BY <1>1, <2>1, <2>4 DEF Known, SameLogin
  <2> QED
    BY <1>1, <2>2, <2>4, <2>5, <2>6, OneSession DEF s
<1> QED
  BY <1>2, <1>3, <1>4

(* A body ends, with its dot (new is the session without that line) or     *)
(* without, and so does a session.                                         *)
LEMMA DeliverKeeps ==
    ASSUME SessionInv, NEW c \in Conns, NEW new \in Session, NEW rest,
           new.buf = <<>>, SameLogin(new, ses[c]), Deliver(c, new, rest)
    PROVE  SessionInv'
<1> DEFINE q == ResetEnvelope(new)
           r == [q EXCEPT !.phase = "command", !.size = 0, !.began = new.line]
<1>1. ses' = [ses EXCEPT ![c] = r] /\ UNCHANGED policy
  BY DEF Deliver
<1>2. Known(ses[c])
  BY DEF SessionInv
<1>3. /\ q \in Session /\ q.buf = <<>> /\ q.from = 0 /\ q.rcpt = {} /\ q.line = new.line
      /\ SameLogin(q, new)
  BY DEF ResetEnvelope, Session, SameLogin
<1> HIDE DEF q
<1>7. 0 \in 0 .. MaxSize + 1 /\ "command" \in Phases /\ new.line \in Nat
  BY Limits DEF Session, Phases, Reading
<1>8. r \in Session
  BY <1>3, <1>7 DEF Session
<1>4. /\ r \in Session /\ r.buf = <<>> /\ r.from = 0 /\ r.rcpt = {} /\ r.line = new.line
      /\ r.began = new.line /\ r.phase = "command" /\ SameLogin(r, new)
  BY <1>3, <1>8 DEF Session, SameLogin
<1> HIDE DEF r
<1>5. Enclosed(r)
  BY <1>4, FewNone DEF Enclosed, Envelope, Session
<1>6. Known(r)
  BY <1>2, <1>4 DEF Known, SameLogin
<1> QED
  BY <1>1, <1>4, <1>5, <1>6, OneSession

LEMMA EndKeeps ==
    ASSUME SessionInv, NEW c \in Conns, FinalDot(c) \/ EndOfInput(c) \/ Timeout(c) \/ ReadError(c)
    PROVE  SessionInv'
<1>1. ses[c] \in Session /\ ses[c].buf = <<>> /\ SameLogin(ses[c], ses[c])
  BY DEF SessionInv, SameLogin
<1>2. ASSUME NEW told, Closes(c, told) PROVE SessionInv'
  BY <1>2, SessionEnds DEF Closes
<1>3. ASSUME NEW told, Deliver(c, ses[c], told) PROVE SessionInv'
  BY <1>1, <1>3, DeliverKeeps
<1>4. CASE FinalDot(c)
  <2>1. Consumed(ses[c]) \in Session /\ Consumed(ses[c]).buf = <<>>
        /\ SameLogin(Consumed(ses[c]), ses[c])
    BY <1>1, ConsumedSession
  <2> QED
    BY <1>4, <2>1, DeliverKeeps DEF FinalDot
<1>5. CASE EndOfInput(c) \/ Timeout(c) \/ ReadError(c)
  BY <1>2, <1>3, <1>5 DEF EndOfInput, Timeout, ReadError
<1> QED
  BY <1>4, <1>5

LEMMA DialogKeeps ==
    ASSUME SessionInv, NEW c \in Conns, Dialog(c)
    PROVE  SessionInv'
BY AuthKeeps, CommandKeeps, EnvelopeKeeps, EndKeeps DEF Dialog

(* The lobby: accepting and the TLS handshakes.                            *)
LEMMA LobbyKeeps ==
    ASSUME SessionInv, NEW c \in Conns, Accept(c) \/ HandshakeDone(c) \/ HandshakeFailed(c)
    PROVE  SessionInv'
<1> DEFINE s == ses[c]
<1>1. /\ s \in Session /\ s.buf = <<>> /\ Known(s) /\ Enclosed(s)
      /\ policy \in Policies /\ UNCHANGED policy
  BY DEF SessionInv, Accept, HandshakeDone, HandshakeFailed
<1>2. CASE ses' = [ses EXCEPT ![c] = Over]
  BY <1>1, <1>2, SessionEnds
<1>3. CASE Accept(c) /\ ses' # [ses EXCEPT ![c] = Over]
  <2> DEFINE phase == IF c \in Implicit THEN "handshake" ELSE "command"
             r == [s EXCEPT !.phase = phase, !.policy = policy]
  <2>1. ses' = [ses EXCEPT ![c] = r]
    BY <1>1, <1>3 DEF Accept, SessionInv, Session
  <2>2. s.user = "none"
    BY <1>1, <1>3 DEF Accept, Known
  <2>3. phase \in Phases /\ phase \notin {"data", "pass", "new"}
    BY DEF Phases, Reading
  <2> HIDE DEF s, phase
  <2>4. r \in Session
    BY <1>1, <2>3 DEF Session
  <2>5. /\ r.buf = <<>> /\ r.phase = phase /\ r.user = "none" /\ r.from = s.from
        /\ r.rcpt = s.rcpt /\ r.line = s.line /\ r.began = s.began
    BY <1>1, <2>2 DEF Session
  <2> HIDE DEF r
  <2>6. Enclosed(r) /\ Known(r)
    BY <1>1, <2>3, <2>5 DEF Enclosed, Envelope, Known
  <2> QED
    BY <1>1, <2>1, <2>4, <2>5, <2>6, OneSession
<1>4. CASE HandshakeDone(c)
  <2> DEFINE q == StartOver(s)
             r == [q EXCEPT !.phase = "command", !.tls = TRUE, !.began = s.line, !.shown = {}]
  <2>1. ses' = [ses EXCEPT ![c] = r]
    BY <1>4 DEF HandshakeDone
  <2> HIDE DEF s
  <2>2. /\ q \in Session /\ q.buf = <<>> /\ q.user = "none" /\ q.from = 0 /\ q.rcpt = {}
        /\ q.line = s.line
    BY <1>1 DEF StartOver, Session
  <2>3. "command" \in Phases /\ s.line \in Nat
    BY <1>1 DEF Session, Phases, Reading
  <2> HIDE DEF q
  <2>4. r \in Session
    BY <2>2, <2>3 DEF Session
  <2>5. /\ r.buf = <<>> /\ r.phase = "command" /\ r.user = "none" /\ r.from = 0
        /\ r.rcpt = {} /\ r.line = s.line /\ r.began = s.line
    BY <2>2 DEF Session
  <2> HIDE DEF r
  <2>6. Enclosed(r) /\ Known(r)
    BY <2>3, <2>5, FewNone DEF Enclosed, Envelope, Known
  <2> QED
    BY <1>1, <2>1, <2>4, <2>5, <2>6, OneSession
<1> QED
  BY <1>2, <1>3, <1>4 DEF Accept, HandshakeDone, HandshakeFailed

LEMMA SessionInit == Init => SessionInv
<1> SUFFICES ASSUME Init PROVE SessionInv
  OBVIOUS
<1>1. policy \in Policies /\ ses = [c \in Conns |-> Fresh]
  BY DEF Init, ServerInit
<1>2. Fresh.buf = <<>> /\ Enclosed(Fresh) /\ Known(Fresh)
  BY FewNone DEF Fresh, Enclosed, Envelope, Known
<1> QED
  BY <1>1, <1>2, FreshSession DEF SessionInv

(* Who else may change what: the steps of MailPath outside the dialog.     *)
LEMMA SessionStep == SessionInv /\ [Next]_vars => SessionInv'
<1> SUFFICES ASSUME SessionInv, [Next]_vars PROVE SessionInv'
  OBVIOUS
<1>1. ASSUME policy' \in Policies, UNCHANGED ses PROVE SessionInv'
  BY <1>1 DEF SessionInv, Enclosed, Envelope, Known, Passes
<1>2. policy \in Policies
  BY DEF SessionInv
<1>3. CASE UNCHANGED vars
  BY <1>1, <1>2, <1>3 DEF vars, serverVars
<1>4. CASE Mailing
  BY <1>1, <1>2, <1>4 DEF Mailing
<1>5. CASE Taking
  BY <1>1, <1>2, <1>5 DEF Taking
<1>6. CASE SetUp
  BY <1>1, <1>6 DEF SetUp, SetRuntime
<1>7. ASSUME NEW c \in Conns, Serve(c) PROVE SessionInv'
  BY <1>7, DialogKeeps DEF Serve
<1>8. ASSUME NEW c \in Conns, Handshake(c) PROVE SessionInv'
  BY <1>8, LobbyKeeps DEF Handshake, C!Upgraded
<1>9. ASSUME NEW c \in Conns, Peer(c) PROVE SessionInv'
  BY <1>1, <1>2, <1>9 DEF Peer, DeviceSends, HangsUp
<1>10. ASSUME NEW c \in Conns, Lobby(c) PROVE SessionInv'
  BY <1>10, LobbyKeeps DEF Lobby
<1> QED
  BY <1>3, <1>4, <1>5, <1>6, <1>7, <1>8, <1>9, <1>10 DEF Next

(* The inductive invariant of the sessions.                                *)
THEOREM SessionsCorrect == Spec => []SessionInv
BY SessionInit, SessionStep, PTL DEF Spec

-----------------------------------------------------------------------------
(* The messages, on the channel, at the intake, stored or set aside.       *)

GoodMessages ==
    {m \in Message :
        /\ \A line \in m.rcpt \cup ({m.from} \ {0}) : m.began <= line /\ line < m.line
        /\ m.user # "none" \/ m.policy.user \/ m.policy.pass =>
               \E login \in m.shown : Passes(login, m.policy, m.user)}

(* What other instances pushed here is no claim of ours.                   *)
Origins == {""} \cup {I!Origin(n) : n \in Nodes}
GoodRecords == {r \in [msg : Message, origin : Origins] : r.origin = "" => r.msg \in GoodMessages}
GoodAsides  == {x \in [node : Nodes, msg : Message, origin : Origins] :
                   x.origin = "" => x.msg \in GoodMessages}

MessagesInv ==
    /\ sink \in Seq(GoodMessages) /\ Len(sink) <= SinkSize
    /\ taken \in Seq(GoodMessages) /\ Len(taken) <= 1
    /\ shelf \in [Nodes -> Seq(GoodRecords)]
    /\ aside \subseteq GoodAsides
    /\ pushUrl \in Targets
    /\ pushes \subseteq [node : Nodes, msg : Message, state : I!PushStates]

LEMMA IntakeConstants ==
    /\ Here \in Nodes /\ "off" \notin Nodes
    /\ Targets \subseteq [Nodes -> Nodes \cup {"off"}]
    /\ \A n \in Nodes : I!Origin(n) # ""
BY PartsAssumption DEF I!IntakeAssumption, I!Origin

LEMMA MessageIsGood ==
    ASSUME SessionInv, NEW c \in Conns, ses[c].phase = "data",
           ses[c].size <= MaxSize
    PROVE  MessageOf(c) \in GoodMessages
<1> DEFINE s == ses[c]
           m == MessageOf(c)
<1>1. s \in Session /\ Enclosed(s) /\ Known(s)
  BY DEF SessionInv
<1> HIDE DEF s
<1>2. m = [conn |-> c, line |-> s.line, from |-> s.from, rcpt |-> s.rcpt, began |-> s.began,
           size |-> s.size, tls |-> s.tls, user |-> s.user,
           shown |-> s.shown, policy |-> s.policy]
  BY DEF MessageOf, s
<1>3. s.size \in 0 .. MaxSize
  BY <1>1, Limits DEF Session, s
<1> HIDE DEF m
<1>4. m \in Message
  BY <1>1, <1>2, <1>3 DEF Message, Session
<1>5. /\ m.line = s.line /\ m.from = s.from /\ m.rcpt = s.rcpt /\ m.began = s.began
      /\ m.user = s.user /\ m.shown = s.shown /\ m.policy = s.policy
  BY <1>2
<1>6. \A line \in m.rcpt \cup ({m.from} \ {0}) : m.began <= line /\ line < m.line
  BY <1>1, <1>5 DEF Enclosed, Envelope, s
<1>7. m.user # "none" \/ m.policy.user \/ m.policy.pass => m.user # "none"
  BY <1>1, <1>5 DEF Known, RequiresAuth, s
<1>8. m.user # "none" => \E login \in m.shown : Passes(login, m.policy, m.user)
  BY <1>1, <1>5 DEF Known
<1> QED
  BY <1>4, <1>6, <1>7, <1>8 DEF GoodMessages, m

(* The server only ever adds to the channel, and only a message it says    *)
(* 250 to.                                                                 *)
LEMMA ServerAdds ==
    ASSUME SessionInv, MessagesInv, NEW c \in Conns,
           \/ Dialog(c) \/ Accept(c) \/ HandshakeDone(c) \/ HandshakeFailed(c)
    PROVE  sink' \in Seq(GoodMessages) /\ Len(sink') <= SinkSize
<1>1. CASE sink' = sink
  BY <1>1 DEF MessagesInv
<1>2. ASSUME NEW new, NEW rest, ses[c].phase = "data",
             Deliver(c, new, rest)
      PROVE  sink' \in Seq(GoodMessages) /\ Len(sink') <= SinkSize
  <2>1. CASE Verdict(c) = 250 /\ Len(sink) < SinkSize
    <3>1. sink' = Append(sink, MessageOf(c))
      BY <1>2, <2>1 DEF Deliver
    <3>2. ses[c].size <= MaxSize
      BY <2>1, Limits DEF Verdict, SessionInv, Session
    <3>3. MessageOf(c) \in GoodMessages
      BY <1>2, <3>2, MessageIsGood
    <3> QED
      BY <2>1, <3>1, <3>3, Limits DEF MessagesInv
  <2>2. CASE ~ (Verdict(c) = 250 /\ Len(sink) < SinkSize)
    BY <1>1, <1>2, <2>2 DEF Deliver
  <2> QED
    BY <2>1, <2>2
<1>3. CASE FinalDot(c) \/ EndOfInput(c) \/ Timeout(c)
  BY <1>1, <1>2, <1>3 DEF FinalDot, EndOfInput, Timeout, Closes, Reads
<1>4. CASE ~ (FinalDot(c) \/ EndOfInput(c) \/ Timeout(c))
  BY <1>1, <1>4 DEF Dialog, Accept, HandshakeDone, HandshakeFailed, Hello, Reset, Nothing, Quit,
     StartTls, AuthAsks, AuthAtOnce, AuthAnswer, Refuse530, MailFrom, RcptTo, BadAddress, Data,
     BodyLine, ReadError, Closes
<1> QED
  BY <1>3, <1>4

LEMMA MessagesInit == Init => MessagesInv
<1> SUFFICES ASSUME Init PROVE MessagesInv
  OBVIOUS
<1>1. /\ sink = <<>> /\ taken = <<>> /\ shelf = [n \in Nodes |-> <<>>] /\ aside = {}
      /\ pushUrl \in Targets /\ pushes = {}
  BY DEF Init, ServerInit, I!IntakeInit
<1> QED
  BY <1>1, Limits DEF MessagesInv

(* A message reaches node n with an origin: it is stored, or set aside.    *)
LEMMA StoredIsGood ==
    ASSUME MessagesInv, NEW n \in Nodes, NEW msg \in Message, NEW origin \in Origins,
           origin = "" => msg \in GoodMessages,
           I!Stored(n, msg, origin) \/ I!SetAside(n, msg, origin)
    PROVE  shelf' \in [Nodes -> Seq(GoodRecords)] /\ aside' \subseteq GoodAsides
<1>1. CASE I!Stored(n, msg, origin)
  <2> DEFINE r == [msg |-> msg, origin |-> origin]
  <2>1. r \in GoodRecords
    BY DEF GoodRecords
  <2>2. shelf' = [shelf EXCEPT ![n] = Append(@, r)] /\ aside' = aside
    BY <1>1 DEF I!Stored
  <2> HIDE DEF r
  <2>4. shelf[n] \in Seq(GoodRecords)
    BY DEF MessagesInv
  <2>3. Append(shelf[n], r) \in Seq(GoodRecords)
    BY <2>1, <2>4, AppendProperties
  <2> QED
    BY <2>2, <2>3 DEF MessagesInv
<1>2. CASE I!SetAside(n, msg, origin)
  <2>1. [node |-> n, msg |-> msg, origin |-> origin] \in GoodAsides
    BY DEF GoodAsides
  <2> QED
    BY <1>2, <2>1 DEF I!SetAside, MessagesInv
<1> QED
  BY <1>1, <1>2

(* A push is made of a message that came in by mail.                       *)
LEMMA PushedIsTyped ==
    ASSUME MessagesInv, NEW n \in Nodes, NEW msg \in Message, NEW origin
    PROVE  I!Pushed(n, msg, origin) \subseteq [node : Nodes, msg : Message, state : I!PushStates]
<1> DEFINE p == [node |-> n, msg |-> msg, state |-> "sending"]
<1>1. p \in [node : Nodes, msg : Message, state : I!PushStates]
  BY DEF I!PushStates
<1>2. I!Pushed(n, msg, origin) \subseteq {p}
  BY DEF I!Pushed
<1> QED
  BY <1>1, <1>2

LEMMA IntakeKeeps == MessagesInv /\ I!IntakeNext => MessagesInv'
<1> SUFFICES ASSUME MessagesInv, I!IntakeNext PROVE MessagesInv'
  OBVIOUS
<1> DEFINE Pushes == [node : Nodes, msg : Message, state : I!PushStates]
<1>1. /\ sink \in Seq(GoodMessages) /\ Len(sink) <= SinkSize /\ SinkSize \in Nat
      /\ taken \in Seq(GoodMessages) /\ Len(taken) <= 1
      /\ pushUrl \in Targets /\ pushes \subseteq Pushes
      /\ GoodMessages \subseteq Message
  BY Limits DEF MessagesInv, GoodMessages
<1>2. CASE I!Take
  <2>1. /\ Head(sink) \in GoodMessages
        /\ Tail(sink) \in Seq(GoodMessages) /\ Len(Tail(sink)) <= SinkSize
    BY <1>1, <1>2 DEF I!Take
  <2>2. <<Head(sink)>> \in Seq(GoodMessages) /\ Len(<<Head(sink)>>) = 1
    BY <2>1
  <2>3. /\ taken' = <<Head(sink)>> /\ sink' = Tail(sink)
        /\ UNCHANGED <<shelf, aside, pushUrl, pushes>>
    BY <1>2 DEF I!Take
  <2> QED
    BY <2>1, <2>2, <2>3 DEF MessagesInv
<1>3. CASE I!Ingest
  <2>1. PICK k \in DOMAIN taken :
          /\ taken' = RemoveAt(taken, k)
          /\ \/ /\ I!Stored(Here, taken[k], "")
                /\ pushes' = pushes \cup I!Pushed(Here, taken[k], "")
             \/ /\ I!SetAside(Here, taken[k], "")
                /\ UNCHANGED pushes
          /\ UNCHANGED <<sink, pushUrl>>
    BY <1>3 DEF I!Ingest, I!RemoveAt, RemoveAt
  <2>2. taken[k] \in GoodMessages /\ k = 1 /\ Len(taken) = 1
    BY <1>1
  <2>3. RemoveAt(taken, k) = <<>>
    <3>1. SubSeq(taken, 1, 0) = <<>> /\ SubSeq(taken, 2, 1) = <<>>
      BY <1>1
    <3>2. RemoveAt(taken, k) = <<>> \o <<>>
      BY <2>2, <3>1 DEF RemoveAt
    <3> QED
      BY <3>2
  <2>4. shelf' \in [Nodes -> Seq(GoodRecords)] /\ aside' \subseteq GoodAsides
    BY <1>1, <2>1, <2>2, StoredIsGood, IntakeConstants DEF Origins
  <2>5. pushes' \subseteq Pushes
    BY <1>1, <2>1, <2>2, PushedIsTyped, IntakeConstants
  <2>6. taken' \in Seq(GoodMessages) /\ Len(taken') <= 1
    <3>1. taken' = <<>>
      BY <2>1, <2>3
    <3> QED
      BY <3>1
  <2>7. sink' = sink /\ pushUrl' = pushUrl
    BY <2>1
  <2> QED
    BY <1>1, <2>4, <2>5, <2>6, <2>7 DEF MessagesInv
<1>4. CASE I!SetPushUrl
  BY <1>4 DEF I!SetPushUrl, MessagesInv
<1>5. ASSUME NEW p \in pushes, NEW state \in I!PushStates
      PROVE  I!Becomes(p, state) \subseteq Pushes
  <2>1. p \in Pushes
    BY <1>1
  <2>2. [p EXCEPT !.state = state] \in Pushes
    BY <2>1
  <2> QED
    BY <1>1, <2>2 DEF I!Becomes
<1>6. ASSUME NEW p \in pushes,
             I!PushNowhere(p) \/ I!PushFails(p) \/ I!PushRefused(p) \/ I!PushAgain(p)
      PROVE  MessagesInv'
  <2>1. /\ \E state \in I!PushStates : pushes' = I!Becomes(p, state)
        /\ UNCHANGED <<sink, taken, shelf, aside, pushUrl>>
    BY <1>6 DEF I!PushNowhere, I!PushFails, I!PushRefused, I!PushAgain, I!PushStates
  <2> QED
    BY <1>5, <2>1 DEF MessagesInv
<1>7. ASSUME NEW p \in pushes, I!PushArrives(p) PROVE MessagesInv'
  <2> DEFINE msg == [p.msg EXCEPT !.user = "none", !.tls = FALSE]
             target == I!Target(p)
             origin == I!Origin(p.node)
  <2>1. p.node \in Nodes /\ p.msg \in Message
    BY <1>1
  <2>2. msg \in Message
    BY <2>1 DEF Message
  <2>3. target \in Nodes
    BY <1>1, <1>7, <2>1, IntakeConstants DEF I!PushArrives, I!Target
  <2>4. origin \in Origins /\ origin # ""
    BY <2>1, IntakeConstants DEF Origins
  <2>5. /\ I!Stored(target, msg, origin) \/ I!SetAside(target, msg, origin)
        /\ \/ pushes' = I!Becomes(p, "sent") \cup I!Pushed(target, msg, origin)
           \/ pushes' = I!Becomes(p, "queued") \cup I!Pushed(target, msg, origin)
        /\ UNCHANGED <<sink, taken, pushUrl>>
    BY <1>7 DEF I!PushArrives
  <2> HIDE DEF msg, target, origin
  <2>6. shelf' \in [Nodes -> Seq(GoodRecords)] /\ aside' \subseteq GoodAsides
    BY <2>2, <2>3, <2>4, <2>5, StoredIsGood
  <2>7. pushes' \subseteq Pushes
    <3>1. I!Becomes(p, "sent") \subseteq Pushes /\ I!Becomes(p, "queued") \subseteq Pushes
      BY <1>5 DEF I!PushStates
    <3>2. I!Pushed(target, msg, origin) \subseteq Pushes
      BY <2>2, <2>3, PushedIsTyped
    <3> QED
      BY <2>5, <3>1, <3>2
  <2> QED
    BY <1>1, <2>5, <2>6, <2>7 DEF MessagesInv
<1> QED
  BY <1>2, <1>3, <1>4, <1>6, <1>7 DEF I!IntakeNext

LEMMA MessagesStep == SessionInv /\ MessagesInv /\ [Next]_vars => MessagesInv'
<1> SUFFICES ASSUME SessionInv, MessagesInv, [Next]_vars PROVE MessagesInv'
  OBVIOUS
<1>1. ASSUME UNCHANGED <<sink, intakeOnly>> PROVE MessagesInv'
  BY <1>1 DEF intakeOnly, MessagesInv
<1>2. ASSUME UNCHANGED intakeOnly, NEW c \in Conns,
             \/ Dialog(c) \/ Accept(c) \/ HandshakeDone(c) \/ HandshakeFailed(c)
      PROVE  MessagesInv'
  BY <1>2, ServerAdds DEF intakeOnly, MessagesInv
<1>3. CASE UNCHANGED vars
  BY <1>1, <1>3 DEF vars, serverVars
<1>4. CASE Mailing
  BY <1>1, <1>4 DEF Mailing
<1>5. CASE Taking
  BY <1>5, IntakeKeeps DEF Taking
<1>6. CASE SetUp
  BY <1>1, <1>6 DEF SetUp, SetRuntime
<1>7. ASSUME NEW c \in Conns, Serve(c) \/ Handshake(c) \/ Lobby(c) PROVE MessagesInv'
  BY <1>2, <1>7 DEF Serve, Handshake, Lobby, C!Upgraded
<1>8. ASSUME NEW c \in Conns, Peer(c) PROVE MessagesInv'
  BY <1>1, <1>8 DEF Peer, DeviceSends, HangsUp
<1> QED
  BY <1>3, <1>4, <1>5, <1>6, <1>7, <1>8 DEF Next

(* The inductive invariant of the messages.                                *)
THEOREM MessagesCorrect == Spec => []MessagesInv
BY SessionsCorrect, MessagesInit, MessagesStep, PTL DEF Spec

LEMMA AcceptedIsGood == MessagesInv => Accepted \subseteq GoodMessages
<1> SUFFICES ASSUME MessagesInv PROVE Accepted \subseteq GoodMessages
  OBVIOUS
<1>1. ToSet(sink) \subseteq GoodMessages /\ ToSet(taken) \subseteq GoodMessages
  BY DEF MessagesInv, ToSet
<1>2. \A x \in ToSet(shelf[Here]) : x.origin = "" => x.msg \in GoodMessages
  <2>1. shelf[Here] \in Seq(GoodRecords)
    BY IntakeConstants DEF MessagesInv
  <2>2. ToSet(shelf[Here]) \subseteq GoodRecords
    BY <2>1 DEF ToSet
  <2> QED
    BY <2>2 DEF GoodRecords
<1>3. \A y \in aside : y.origin = "" => y.msg \in GoodMessages
  BY DEF MessagesInv, GoodAsides
<1> QED
  BY <1>1, <1>2, <1>3 DEF Accepted

(* A message is made of one mail transaction, however many lines of        *)
(* whatever kind a client sends ahead, and wherever the message is by now. *)
THEOREM OneTransaction == Spec => []EnvelopeOfOneTransaction
<1>1. MessagesInv => EnvelopeOfOneTransaction
  BY AcceptedIsGood DEF EnvelopeOfOneTransaction, GoodMessages
<1> QED
  BY MessagesCorrect, <1>1, PTL

(* A message that names a user, or that a policy had to let in, comes from *)
(* a session in which that login was shown and passed what is checked.     *)
THEOREM LoginIsTrue == Spec => []LoginOfThisSession
<1>1. MessagesInv => LoginOfThisSession
  BY AcceptedIsGood DEF LoginOfThisSession, GoodMessages, Passes
<1> QED
  BY MessagesCorrect, <1>1, PTL

-----------------------------------------------------------------------------
(* The wire: what the peers have sent and the sessions have not read.      *)

Replies == [code : Nat, starttls : BOOLEAN]

NetRows == [up : BOOLEAN, wire : Seq(Lines), replies : Seq(Replies),
            gone : {"no", "closed", "reset"}, sent : 0 .. MaxLines]

MailRows == [step : C!Steps, try : Nat, tls : BOOLEAN, to : 0 .. Recipients,
             encryption : Encryption \cup {"none"}, login : Login \cup {"none"},
             result : Seq(C!Results)]

NetTyped == net \in [Conns -> NetRows]

MailTyped ==
    /\ mail \in MailRows
    /\ mail.step = "idle" => mail.try = 0 /\ ~ mail.tls /\ mail.encryption = "none"
    /\ mail.step # "idle" => /\ mail.encryption \in Encryption
                             /\ mail.login \in Login
                             /\ mail.try \in 1 .. Len(Tries[mail.encryption])
                             /\ Len(mail.result) = Len(Tries[mail.encryption])
    /\ mail.step = "failed" => mail.try < Len(Tries[mail.encryption])

(* Outside a handshake every line on the way was sent on the layer the     *)
(* session reads on.                                                       *)
SameLayer ==
    \A c \in Conns : ses[c].phase # "handshake" =>
        \A l \in ToSet(net[c].wire) : l.tls = ses[c].tls

(* The mail client and the server agree on whether the connection of the   *)
(* attempt is encrypted, and no other connection of the client is that was *)
(* not an attempt before.                                                  *)
Agreed ==
    /\ mail.step # "idle" /\ ses[C!Conn].phase # "closed" => ses[C!Conn].tls = mail.tls
    /\ \A c \in Mailers : ses[c].tls => \E k \in 1 .. mail.try : c = C!ConnOf(k)

Harmless(l) == l.tls \/ l.text \in {"HELLO", "STARTTLS"}

(* With encryption asked for, the client is beyond the hellos only over    *)
(* TLS; and what it said in the clear is harmless.                         *)
Guarded ==
    /\ mail.step = "idle" => \A c \in Mailers : net[c].wire = <<>>
    /\ mail.encryption # "none" =>
          /\ mail.step \in {"auth", "from", "rcpt", "data", "dot", "body", "quit"} => mail.tls
          /\ mail.encryption = "tls" =>
                mail.tls \/ mail.step \in {"connecting", "tls", "failed", "done"}
          /\ \A c \in Mailers : \A l \in ToSet(net[c].wire) : Harmless(l)

WireInv == NetTyped /\ MailTyped /\ SameLayer /\ Agreed /\ Guarded

LEMMA ClientConstants ==
    /\ Mailers \subseteq Conns
    /\ Encryption \subseteq {"none", "starttls", "tls"}
    /\ Login \subseteq {"none", "right", "wrong"}
    /\ Recipients \in Nat \ {0}
    /\ \A e \in Encryption : /\ Tries[e] \in Seq(Mailers)
                              /\ Len(Tries[e]) \in Nat \ {0}
                              /\ \A k \in 1 .. Len(Tries[e]) : Tries[e][k] \in Mailers
                              /\ \A i, j \in 1 .. Len(Tries[e]) :
                                    i # j => Tries[e][i] # Tries[e][j]
<1>1. \A e \in Encryption :
        /\ Tries[e] \in Seq(Mailers) /\ Tries[e] # <<>>
        /\ \A i, j \in DOMAIN Tries[e] : i # j => Tries[e][i] # Tries[e][j]
  BY PathAssumption, PartsAssumption DEF C!ClientAssumption
<1> QED
  BY <1>1, ServerAssumption, PartsAssumption DEF C!ClientAssumption

(* The connection of the attempt under way.                                *)
LEMMA ConnIsMailer ==
    ASSUME MailTyped, mail.step # "idle"
    PROVE  C!Conn \in Mailers /\ C!Conn \in Conns /\ C!Conn = Tries[mail.encryption][mail.try]
BY ClientConstants DEF MailTyped, C!Conn, C!ConnOf

LEMMA WireInit == Init => WireInv
<1> SUFFICES ASSUME Init PROVE WireInv
  OBVIOUS
<1> DEFINE Row(c) == [up |-> c \notin Mailers, wire |-> <<>>, replies |-> <<>>, gone |-> "no",
                      sent |-> 0]
<1>1. /\ ses = [c \in Conns |-> Fresh]
      /\ net = [c \in Conns |-> Row(c)]
      /\ mail = C!Idle
  BY DEF Init, ServerInit, C!MailInit
<1>2. \A c \in Conns : Row(c) \in NetRows
  BY Limits DEF NetRows
<1>3. \A c \in Conns : net[c].wire = <<>>
  BY <1>1
<1>4. C!Idle \in MailRows /\ C!Idle.step = "idle" /\ C!Idle.try = 0 /\ C!Idle.tls = FALSE
      /\ C!Idle.encryption = "none"
  BY ClientConstants DEF C!Idle, MailRows, C!Steps, C!Waiting, C!Results
<1>5. Fresh.tls = FALSE /\ Fresh.phase = "new"
  BY DEF Fresh
<1> HIDE DEF Row
<1>6. NetTyped
  BY <1>1, <1>2 DEF NetTyped
<1>7. MailTyped
  BY <1>1, <1>4 DEF MailTyped
<1>8. SameLayer
  BY <1>3 DEF SameLayer, ToSet
<1>9. Agreed
  BY <1>1, <1>4, <1>5, ClientConstants DEF Agreed
<1>10. Guarded
  BY <1>1, <1>3, <1>4, ClientConstants DEF Guarded
<1> QED
  BY <1>6, <1>7, <1>8, <1>9, <1>10 DEF WireInv

-----------------------------------------------------------------------------
(* The server's steps: a session goes on on its layer and what is on the   *)
(* wire gets less, or it ends and nothing is.                              *)
GoesOn(c, r, n) ==
    /\ ses' = [ses EXCEPT ![c] = r] /\ r \in Session
    /\ net' = [net EXCEPT ![c] = n] /\ n \in NetRows
    /\ ToSet(n.wire) \subseteq ToSet(net[c].wire)
    /\ \/ n.wire = <<>> /\ r.phase = "closed" /\ r.tls = FALSE
       \/ /\ r.tls = ses[c].tls
          /\ ses[c].phase # "closed"
          /\ ses[c].phase = "handshake" => r.phase = "handshake"

LEMMA ServerStep ==
    ASSUME SessionInv, SessionInv', WireInv, NEW c \in Conns, NEW r, NEW n, GoesOn(c, r, n),
           UNCHANGED mail
    PROVE  WireInv'
<1>1. /\ net \in [Conns -> NetRows] /\ ses \in [Conns -> Session]
      /\ \A d \in Conns : ses'[d] = IF d = c THEN r ELSE ses[d]
      /\ \A d \in Conns : net'[d] = IF d = c THEN n ELSE net[d]
  BY DEF SessionInv, WireInv, NetTyped, GoesOn
<1>2. NetTyped' /\ MailTyped'
  BY DEF WireInv, NetTyped, MailTyped, GoesOn
<1>3. SameLayer'
  <2> SUFFICES ASSUME NEW d \in Conns, ses'[d].phase # "handshake",
                      NEW l \in ToSet(net'[d].wire)
               PROVE  l.tls = ses'[d].tls
    BY DEF SameLayer
  <2>1. CASE d # c
    BY <1>1, <2>1 DEF WireInv, SameLayer
  <2>2. CASE d = c /\ n.wire = <<>>
    BY <1>1, <2>2 DEF ToSet
  <2>3. CASE d = c /\ n.wire # <<>>
    BY <1>1, <2>3 DEF WireInv, SameLayer, GoesOn
  <2> QED
    BY <2>1, <2>2, <2>3
<1>4. Agreed'
  <2>1. C!Conn' = C!Conn /\ \A k : (C!ConnOf(k))' = C!ConnOf(k)
    BY DEF C!Conn, C!ConnOf
  <2>2. mail.step # "idle" => C!Conn \in Conns
    BY ConnIsMailer DEF WireInv
  <2>3. r.phase # "closed" => ses[c].phase # "closed" /\ r.tls = ses[c].tls
    BY DEF GoesOn
  <2>4. r.tls => ses[c].tls
    BY DEF GoesOn
  <2>5. mail.step # "idle" /\ ses'[C!Conn].phase # "closed" => ses'[C!Conn].tls = mail.tls
    BY <1>1, <2>2, <2>3 DEF WireInv, Agreed
  <2>6. \A d \in Mailers : ses'[d].tls => ses[d].tls
    BY <1>1, <2>4, ClientConstants
  <2> QED
    BY <2>1, <2>5, <2>6 DEF WireInv, Agreed
<1>5. Guarded'
  <2>1. \A d \in Conns : ToSet(net'[d].wire) \subseteq ToSet(net[d].wire)
    BY <1>1 DEF GoesOn
  <2>2. \A d \in Conns : net[d].wire = <<>> => net'[d].wire = <<>>
    <3>1. net[c].wire = <<>> => n.wire = <<>>
      <4>1. n.wire \in Seq(Lines) /\ ToSet(n.wire) \subseteq ToSet(net[c].wire)
        BY DEF GoesOn, NetRows
      <4>2. net[c].wire = <<>> => ToSet(net[c].wire) = {}
        BY DEF ToSet
      <4>3. n.wire # <<>> => n.wire[1] \in ToSet(n.wire)
        BY <4>1 DEF ToSet
      <4> QED
        BY <4>1, <4>2, <4>3
    <3> QED
      BY <1>1, <3>1
  <2> QED
    BY <2>1, <2>2, ClientConstants DEF WireInv, Guarded, Harmless
<1> QED
  BY <1>2, <1>3, <1>4, <1>5 DEF WireInv

LEMMA ToldRow ==
    ASSUME NetTyped, NEW c \in Conns, NEW code \in Nat, NEW starttls \in BOOLEAN
    PROVE  /\ ToldMore(c, code, starttls) \in NetRows
           /\ ToldMore(c, code, starttls).wire = net[c].wire
<1>1. net[c] \in NetRows
  BY DEF NetTyped
<1>2. [code |-> code, starttls |-> starttls] \in Replies
  BY DEF Replies
<1> DEFINE list == Append(net[c].replies, [code |-> code, starttls |-> starttls])
           n == [net[c] EXCEPT !.replies = list]
<1>3. list \in Seq(Replies)
  BY <1>1, <1>2 DEF NetRows
<1> HIDE DEF list
<1>4. n \in NetRows /\ n.wire = net[c].wire
  BY <1>1, <1>3 DEF NetRows
<1>5. ToldMore(c, code, starttls) \in {n, net[c]}
  BY <1>1 DEF ToldMore, list, NetRows
<1> QED
  BY <1>1, <1>4, <1>5

LEMMA DroppedRow ==
    ASSUME NEW n \in NetRows
    PROVE  Dropped(n) \in NetRows /\ Dropped(n).wire = <<>>
<1>1. <<>> \in Seq(Lines)
  OBVIOUS
<1>2. [n EXCEPT !.wire = <<>>, !.gone = "no", !.up = FALSE] \in NetRows
  BY <1>1 DEF NetRows
<1>3. [n EXCEPT !.wire = <<>>, !.gone = "no", !.up = FALSE].wire = <<>>
  BY DEF NetRows
<1> QED
  BY <1>2, <1>3 DEF Dropped

LEMMA UnreadRow ==
    ASSUME SessionInv, NEW c \in Conns, NEW n \in NetRows, n.wire # <<>>
    PROVE  Unread(c, n) \in NetRows /\ ToSet(Unread(c, n).wire) \subseteq ToSet(n.wire)
<1>1. ses[c].buf = <<>>
  BY DEF SessionInv
<1>2. n.wire \in Seq(Lines)
  BY DEF NetRows
<1>3. Tail(n.wire) \in Seq(Lines) /\ ToSet(Tail(n.wire)) \subseteq ToSet(n.wire)
  BY <1>2 DEF ToSet
<1>4. Unread(c, n) = [n EXCEPT !.wire = Tail(n.wire)]
  BY <1>1 DEF Unread
<1>5. [n EXCEPT !.wire = Tail(n.wire)] \in NetRows
      /\ [n EXCEPT !.wire = Tail(n.wire)].wire = Tail(n.wire)
  BY <1>3 DEF NetRows
<1> QED
  BY <1>3, <1>4, <1>5

LEMMA InputIsWire ==
    ASSUME SessionInv, WireInv, NEW c \in Conns
    PROVE  Input(c) = net[c].wire /\ net[c] \in NetRows /\ net[c].wire \in Seq(Lines)
<1>1. net[c] \in NetRows /\ ses[c].buf = <<>>
  BY DEF SessionInv, WireInv, NetTyped
<1>2. net[c].wire \in Seq(Lines)
  BY <1>1 DEF NetRows
<1> QED
  BY <1>1, <1>2, ConcatEmptySeq DEF Input

(* A line is answered.  That the new session is one is known already.      *)
LEMMA AnswerMoves ==
    ASSUME SessionInv, SessionInv', WireInv, NEW c \in Conns, NEW code \in Nat, NEW new,
           "tls" \in DOMAIN new, new.tls = ses[c].tls, ses[c].phase \in Reading,
           Input(c) # <<>>, Answer(c, code, new)
    PROVE  \E r, n : GoesOn(c, r, n)
<1> DEFINE r == Consumed(new)
           t == Told(c, code)
           n == Unread(c, t)
<1>1. ses' = [ses EXCEPT ![c] = r] /\ net' = [net EXCEPT ![c] = n]
  BY DEF Answer
<1>2. r.tls = ses[c].tls
  BY DEF Consumed
<1>3. r \in Session
  <2>1. ses'[c] = r /\ ses'[c] \in Session
    BY <1>1 DEF SessionInv
  <2> QED
    BY <2>1
<1> HIDE DEF r
<1>4. t \in NetRows /\ t.wire = net[c].wire /\ t.wire # <<>>
  BY ToldRow, InputIsWire DEF WireInv, Told
<1> HIDE DEF t
<1>5. n \in NetRows /\ ToSet(n.wire) \subseteq ToSet(net[c].wire)
  BY <1>4, UnreadRow
<1> HIDE DEF n
<1>6. ses[c].phase # "closed" /\ ses[c].phase # "handshake"
  BY DEF Reading
<1> QED
  BY <1>1, <1>2, <1>3, <1>5, <1>6 DEF GoesOn

LEMMA OverMoves ==
    ASSUME SessionInv, WireInv, NEW c \in Conns, NEW told \in NetRows,
           ses' = [ses EXCEPT ![c] = Over], net' = [net EXCEPT ![c] = Dropped(told)]
    PROVE  \E r, n : GoesOn(c, r, n)
<1>1. Over \in Session /\ Over.phase = "closed" /\ Over.tls = FALSE
  BY FreshSession DEF Over, Fresh
<1>2. Dropped(told) \in NetRows /\ Dropped(told).wire = <<>>
  BY DroppedRow
<1>3. ToSet(Dropped(told).wire) \subseteq ToSet(net[c].wire)
  BY <1>2 DEF ToSet
<1> QED
  BY <1>1, <1>2, <1>3 DEF GoesOn

(* Most lines are answered and no more.                                    *)
LEMMA AnswersMove ==
    ASSUME SessionInv, SessionInv', WireInv, NEW c \in Conns,
           \/ Reset(c) \/ Nothing(c) \/ AuthAsks(c) \/ AuthAtOnce(c) \/ AuthAnswer(c)
           \/ Refuse530(c) \/ MailFrom(c) \/ RcptTo(c) \/ BadAddress(c) \/ Data(c)
    PROVE  \E r, n : GoesOn(c, r, n)
<1> DEFINE s == ses[c]
<1>1. s \in Session
  BY DEF SessionInv
<1>2. Input(c) # <<>> /\ s.phase \in Reading
  BY DEF Reset, Nothing, AuthAsks, AuthAtOnce, AuthAnswer, Refuse530, MailFrom, RcptTo,
     BadAddress, Data, Command, Reads, Reading
<1>3. DOMAIN s = DOMAIN [from |-> 0, rcpt |-> 0, user |-> 0, phase |-> 0, tls |-> 0, policy |-> 0,
                         name |-> 0, size |-> 0, buf |-> 0, line |-> 0, began |-> 0, shown |-> 0]
  BY <1>1 DEF Session
<1>4. ASSUME NEW name, NEW pass, Conclude(c, name, pass) PROVE \E r, n : GoesOn(c, r, n)
  <2> DEFINE q == [s EXCEPT !.phase = "command", !.name = "none",
                            !.shown = @ \cup {<<name, pass>>}]
             new == IF CredentialsOk(s.policy, name, pass) THEN [q EXCEPT !.user = name] ELSE q
             code == IF CredentialsOk(s.policy, name, pass) THEN 235 ELSE 535
  <2>1. Answer(c, code, new)
    BY <1>4 DEF Conclude
  <2>2. "tls" \in DOMAIN q /\ q.tls = s.tls
    BY <1>3
  <2> HIDE DEF q
  <2>3. "tls" \in DOMAIN new /\ new.tls = s.tls /\ code \in Nat
    BY <2>2
  <2> HIDE DEF new, code
  <2> QED
    BY <1>2, <2>1, <2>3, AnswerMoves
<1>5. ASSUME NEW code \in Nat, NEW new, Answer(c, code, new), "tls" \in DOMAIN new,
             new.tls = s.tls
      PROVE  \E r, n : GoesOn(c, r, n)
  BY <1>2, <1>5, AnswerMoves
<1>6. Answer(c, 500, s) \/ Answer(c, 530, s) \/ Answer(c, 501, s) \/ Answer(c, 452, s)
        => \E r, n : GoesOn(c, r, n)
  BY <1>3, <1>5
<1>7. CASE Nothing(c) \/ Refuse530(c) \/ BadAddress(c)
  BY <1>6, <1>7 DEF Nothing, Refuse530, BadAddress
<1>8. CASE Reset(c)
  <2>1. Answer(c, 250, Begin(ResetEnvelope(s)))
    BY <1>8 DEF Reset
  <2>2. "tls" \in DOMAIN ResetEnvelope(s) /\ ResetEnvelope(s).tls = s.tls
    BY <1>3 DEF ResetEnvelope
  <2>3. "tls" \in DOMAIN Begin(ResetEnvelope(s)) /\ Begin(ResetEnvelope(s)).tls = s.tls
    BY <2>2 DEF Begin
  <2> QED
    BY <1>5, <2>1, <2>3
<1>9. CASE MailFrom(c)
  <2> DEFINE q == [s EXCEPT !.from = s.line + 1, !.rcpt = {}]
  <2>1. Answer(c, 250, Begin(q))
    BY <1>9 DEF MailFrom
  <2>2. "tls" \in DOMAIN q /\ q.tls = s.tls
    BY <1>3
  <2> HIDE DEF q
  <2>3. "tls" \in DOMAIN Begin(q) /\ Begin(q).tls = s.tls
    BY <2>2 DEF Begin
  <2> QED
    BY <1>5, <2>1, <2>3
<1>10. CASE RcptTo(c)
  <2> DEFINE q == [s EXCEPT !.rcpt = @ \cup {s.line + 1}]
  <2>1. Answer(c, 452, s) \/ Answer(c, 250, q)
    BY <1>10 DEF RcptTo
  <2>2. "tls" \in DOMAIN q /\ q.tls = s.tls
    BY <1>3
  <2> HIDE DEF q
  <2> QED
    BY <1>5, <1>6, <2>1, <2>2
<1>11. CASE Data(c)
  <2> DEFINE q == [s EXCEPT !.phase = "data", !.size = 0]
  <2>1. Answer(c, 354, q)
    BY <1>11 DEF Data
  <2>2. "tls" \in DOMAIN q /\ q.tls = s.tls
    BY <1>3
  <2> HIDE DEF q
  <2> QED
    BY <1>5, <2>1, <2>2
<1>12. CASE AuthAtOnce(c)
  BY <1>4, <1>12 DEF AuthAtOnce
<1>13. CASE AuthAsks(c)
  <2> DEFINE q == [s EXCEPT !.phase = Asks[Text(c)],
                            !.name = IF Text(c) = "LOGIN right" THEN "right" ELSE "none"]
  <2>1. Answer(c, 334, q)
    BY <1>13 DEF AuthAsks
  <2>2. "tls" \in DOMAIN q /\ q.tls = s.tls
    BY <1>3
  <2> HIDE DEF q
  <2> QED
    BY <1>5, <2>1, <2>2
<1>14. CASE AuthAnswer(c)
  <2> DEFINE p == [s EXCEPT !.phase = "command", !.name = "none"]
             q == [s EXCEPT !.phase = "pass", !.name = NameIn(Text(c))]
  <2>1. \/ Conclude(c, NameIn(Text(c)), PassIn(Text(c)))
        \/ Conclude(c, s.name, PassIn(Text(c)))
        \/ Conclude(c, NameIn(Text(c)), "none")
        \/ Answer(c, 501, p)
        \/ Answer(c, 334, q)
    BY <1>14 DEF AuthAnswer
  <2>2. /\ "tls" \in DOMAIN p /\ p.tls = s.tls
        /\ "tls" \in DOMAIN q /\ q.tls = s.tls
    BY <1>3
  <2> HIDE DEF p, q
  <2>3. CASE Conclude(c, NameIn(Text(c)), PassIn(Text(c)))
    BY <1>4, <2>3
  <2>4. CASE Conclude(c, s.name, PassIn(Text(c)))
    BY <1>4, <2>4
  <2>5. CASE Conclude(c, NameIn(Text(c)), "none")
    BY <1>4, <2>5
  <2>6. CASE Answer(c, 501, p) \/ Answer(c, 334, q)
    BY <1>5, <2>2, <2>6
  <2> QED
    BY <2>1, <2>3, <2>4, <2>5, <2>6
<1> QED
  BY <1>7, <1>8, <1>9, <1>10, <1>11, <1>12, <1>13, <1>14

(* A step of a session on its layer that leaves no more on the wire.       *)
LEMMA StepMoves ==
    ASSUME SessionInv, SessionInv', NEW c \in Conns, NEW r, NEW n \in NetRows,
           ses' = [ses EXCEPT ![c] = r], net' = [net EXCEPT ![c] = n],
           ToSet(n.wire) \subseteq ToSet(net[c].wire), r.tls = ses[c].tls,
           ses[c].phase \notin {"closed", "handshake"}
    PROVE  \E q, m : GoesOn(c, q, m)
<1>1. r \in Session
  <2>1. ses \in [Conns -> Session] /\ ses'[c] \in Session
    BY DEF SessionInv
  <2> QED
    BY <2>1
<1>2. GoesOn(c, r, n)
  BY <1>1 DEF GoesOn
<1> QED
  BY <1>2

LEMMA HelloMoves ==
    ASSUME SessionInv, SessionInv', WireInv, NEW c \in Conns, Hello(c)
    PROVE  \E r, n : GoesOn(c, r, n)
<1> DEFINE r == Consumed(Begin(ResetEnvelope(ses[c])))
           t == ToldMore(c, 250, Offered(c))
           n == Unread(c, t)
<1>1. /\ ses' = [ses EXCEPT ![c] = r] /\ net' = [net EXCEPT ![c] = n]
      /\ ses[c].phase = "command" /\ Input(c) # <<>>
  BY DEF Hello, Command, Reads
<1>2. r.tls = ses[c].tls
  <2>1. ses[c] \in Session
    BY DEF SessionInv
  <2>2. "tls" \in DOMAIN ResetEnvelope(ses[c]) /\ ResetEnvelope(ses[c]).tls = ses[c].tls
    BY <2>1 DEF ResetEnvelope, Session
  <2>3. /\ "tls" \in DOMAIN Begin(ResetEnvelope(ses[c]))
        /\ Begin(ResetEnvelope(ses[c])).tls = ses[c].tls
    BY <2>2 DEF Begin
  <2> QED
    BY <2>3 DEF Consumed
<1> HIDE DEF r
<1>3. Offered(c) \in BOOLEAN
  BY ServerAssumption DEF Offered
<1>4. t \in NetRows /\ t.wire = net[c].wire /\ t.wire # <<>>
  BY <1>1, <1>3, ToldRow, InputIsWire DEF WireInv
<1> HIDE DEF t
<1>5. n \in NetRows /\ ToSet(n.wire) \subseteq ToSet(net[c].wire)
  BY <1>4, UnreadRow
<1> HIDE DEF n
<1> QED
  BY <1>1, <1>2, <1>5, StepMoves

LEMMA StartTlsMoves ==
    ASSUME SessionInv, SessionInv', WireInv, NEW c \in Conns, StartTls(c)
    PROVE  \E r, n : GoesOn(c, r, n)
<1>1. /\ ses[c] \in Session /\ ses[c].phase = "command" /\ Input(c) # <<>>
      /\ net[c] \in NetRows /\ Input(c) = net[c].wire /\ net[c].wire \in Seq(Lines)
  BY InputIsWire DEF SessionInv, StartTls, Command, Reads
<1>2. CASE Offered(c)
  <2>1. PICK k \in 1 .. Len(Input(c)) :
          /\ ses' = [ses EXCEPT ![c] = [Consumed(@) EXCEPT
                         !.phase = "handshake", !.buf = AheadDropped(SubSeq(Input(c), 2, k))]]
          /\ net' = [net EXCEPT ![c] = [Told(c, 220) EXCEPT
                         !.wire = SubSeq(Input(c), k + 1, Len(Input(c)))]]
    BY <1>2 DEF StartTls
  <2> DEFINE q == Consumed(ses[c])
             r == [q EXCEPT !.phase = "handshake", !.buf = AheadDropped(SubSeq(Input(c), 2, k))]
             t == Told(c, 220)
             rest == SubSeq(Input(c), k + 1, Len(Input(c)))
             n == [t EXCEPT !.wire = rest]
  <2>2. ses' = [ses EXCEPT ![c] = r]
    BY <2>1
  <2>3. net' = [net EXCEPT ![c] = n]
    BY <2>1
  <2>4. "tls" \in DOMAIN q /\ q.tls = ses[c].tls
    BY <1>1 DEF Consumed, Session
  <2> HIDE DEF q
  <2>5. r.tls = ses[c].tls
    BY <2>4
  <2> HIDE DEF r
  <2>6. t \in NetRows
    BY ToldRow DEF WireInv, Told
  <2> HIDE DEF t
  <2>7. rest \in Seq(Lines) /\ ToSet(rest) \subseteq ToSet(net[c].wire)
    <3> DEFINE wire == net[c].wire
    <3>1. k \in Nat /\ Len(wire) \in Nat /\ rest = SubSeq(wire, k + 1, Len(wire))
      BY <1>1
    <3> HIDE DEF rest, wire
    <3>2. wire \in Seq(Lines)
      BY <1>1 DEF wire
    <3>3. rest \in Seq(Lines) /\ \A i \in DOMAIN rest : k + i \in 1 .. Len(wire) /\ rest[i] = wire[k + i]
      BY <3>1, <3>2
    <3> QED
      BY <3>2, <3>3 DEF ToSet, wire
  <2> HIDE DEF rest
  <2>8. n \in NetRows /\ n.wire = rest
    BY <2>6, <2>7 DEF NetRows
  <2> HIDE DEF n
  <2> QED
    BY <1>1, <2>2, <2>3, <2>5, <2>7, <2>8, StepMoves
<1>3. CASE ~ Offered(c)
  <2> DEFINE code == IF ses[c].tls THEN 503 ELSE 454
  <2>1. Answer(c, code, ses[c]) /\ code \in Nat
    BY <1>3 DEF StartTls
  <2> HIDE DEF code
  <2>2. "tls" \in DOMAIN ses[c]
    BY <1>1 DEF Session
  <2> QED
    BY <1>1, <2>1, <2>2, AnswerMoves DEF Reading
<1> QED
  BY <1>2, <1>3

LEMMA BodyLineMoves ==
    ASSUME SessionInv, SessionInv', WireInv, NEW c \in Conns, BodyLine(c)
    PROVE  \E r, n : GoesOn(c, r, n)
<1> DEFINE q == Consumed(ses[c])
           r == [q EXCEPT !.size = IF @ > MaxSize THEN @ ELSE @ + 1]
           n == Unread(c, net[c])
<1>1. ses' = [ses EXCEPT ![c] = r] /\ net' = [net EXCEPT ![c] = n]
      /\ ses[c].phase = "data" /\ Input(c) # <<>>
  BY DEF BodyLine, Reads
<1>2. "tls" \in DOMAIN q /\ q.tls = ses[c].tls
  BY DEF SessionInv, Session, Consumed
<1> HIDE DEF q
<1>3. r.tls = ses[c].tls
  BY <1>2
<1> HIDE DEF r
<1>4. n \in NetRows /\ ToSet(n.wire) \subseteq ToSet(net[c].wire)
  BY <1>1, InputIsWire, UnreadRow
<1> HIDE DEF n
<1> QED
  BY <1>1, <1>3, <1>4, StepMoves

LEMMA VerdictIsCode == \A c : Verdict(c) \in Nat
BY DEF Verdict

LEMMA DeliverMoves ==
    ASSUME SessionInv, SessionInv', WireInv, NEW c \in Conns, NEW new,
           NEW rest \in NetRows, new \in {ses[c], Consumed(ses[c])}, ses[c].phase = "data",
           ToSet(rest.wire) \subseteq ToSet(net[c].wire), Deliver(c, new, rest)
    PROVE  \E r, n : GoesOn(c, r, n)
<1> DEFINE q == ResetEnvelope(new)
           r == [q EXCEPT !.phase = "command", !.size = 0, !.began = new.line]
<1>1. ses' = [ses EXCEPT ![c] = r] /\ net' = [net EXCEPT ![c] = rest]
  BY DEF Deliver
<1>2. "tls" \in DOMAIN new /\ new.tls = ses[c].tls
  <2>1. "tls" \in DOMAIN ses[c]
    BY DEF SessionInv, Session
  <2>2. "tls" \in DOMAIN Consumed(ses[c]) /\ Consumed(ses[c]).tls = ses[c].tls
    BY <2>1 DEF Consumed
  <2> QED
    BY <2>1, <2>2
<1>3. "tls" \in DOMAIN q /\ q.tls = ses[c].tls
  BY <1>2 DEF ResetEnvelope
<1> HIDE DEF q
<1>4. r.tls = ses[c].tls
  BY <1>3
<1> HIDE DEF r
<1> QED
  BY <1>1, <1>4, StepMoves

LEMMA FinalDotMoves ==
    ASSUME SessionInv, SessionInv', WireInv, NEW c \in Conns, FinalDot(c)
    PROVE  \E r, n : GoesOn(c, r, n)
<1> DEFINE t == Told(c, Verdict(c))
           rest == Unread(c, t)
           new == Consumed(ses[c])
<1>1. Deliver(c, new, rest) /\ ses[c].phase = "data" /\ Input(c) # <<>>
  BY DEF FinalDot, Reads
<1>2. t \in NetRows /\ t.wire = net[c].wire /\ t.wire # <<>>
  BY <1>1, ToldRow, InputIsWire, VerdictIsCode DEF WireInv, Told
<1> HIDE DEF t
<1>3. rest \in NetRows /\ ToSet(rest.wire) \subseteq ToSet(net[c].wire)
  BY <1>2, UnreadRow
<1>4. new \in {ses[c], Consumed(ses[c])}
  OBVIOUS
<1> HIDE DEF rest, new
<1> QED
  BY <1>1, <1>3, <1>4, DeliverMoves

LEMMA EndsMove ==
    ASSUME SessionInv, SessionInv', WireInv, NEW c \in Conns,
           \/ EndOfInput(c) \/ Timeout(c) \/ ReadError(c) \/ Quit(c) \/ HandshakeFailed(c)
    PROVE  \E r, n : GoesOn(c, r, n)
<1>1. net[c] \in NetRows /\ NetTyped
  BY DEF WireInv, NetTyped
<1>2. \A code \in Nat : Told(c, code) \in NetRows /\ Told(c, code).wire = net[c].wire
  BY <1>1, ToldRow DEF Told
<1>3. ASSUME ses[c].phase = "data", Deliver(c, ses[c], Told(c, Verdict(c)))
      PROVE  \E r, n : GoesOn(c, r, n)
  <2> DEFINE rest == Told(c, Verdict(c))
             new == ses[c]
  <2>1. rest \in NetRows /\ ToSet(rest.wire) \subseteq ToSet(net[c].wire)
    BY <1>2, VerdictIsCode
  <2>2. new \in {ses[c], Consumed(ses[c])} /\ Deliver(c, new, rest)
    BY <1>3
  <2> HIDE DEF rest, new
  <2> QED
    BY <1>3, <2>1, <2>2, DeliverMoves
<1>4. ASSUME NEW told \in NetRows, ses' = [ses EXCEPT ![c] = Over],
             net' = [net EXCEPT ![c] = Dropped(told)]
      PROVE  \E r, n : GoesOn(c, r, n)
  BY <1>4, OverMoves
<1>5. \/ ses[c].phase = "data" /\ Deliver(c, ses[c], Told(c, Verdict(c)))
      \/ /\ ses' = [ses EXCEPT ![c] = Over]
         /\ \/ net' = [net EXCEPT ![c] = Dropped(net[c])]
            \/ net' = [net EXCEPT ![c] = Dropped(Told(c, 421))]
            \/ net' = [net EXCEPT ![c] = Dropped(Told(c, 221))]
  BY DEF EndOfInput, Timeout, ReadError, Quit, HandshakeFailed, Closes
<1>6. CASE /\ ses' = [ses EXCEPT ![c] = Over]
           /\ net' = [net EXCEPT ![c] = Dropped(net[c])]
  BY <1>1, <1>4, <1>6
<1>7. CASE /\ ses' = [ses EXCEPT ![c] = Over]
           /\ net' = [net EXCEPT ![c] = Dropped(Told(c, 421))]
  <2>1. Told(c, 421) \in NetRows
    BY <1>2
  <2> QED
    BY <1>4, <1>7, <2>1
<1>8. CASE /\ ses' = [ses EXCEPT ![c] = Over]
           /\ net' = [net EXCEPT ![c] = Dropped(Told(c, 221))]
  BY <1>2, <1>4, <1>8
<1> QED
  BY <1>3, <1>5, <1>6, <1>7, <1>8

LEMMA AcceptMoves ==
    ASSUME SessionInv, SessionInv', WireInv, NEW c \in Conns, Accept(c)
    PROVE  \E r, n : GoesOn(c, r, n)
<1>1. net[c] \in NetRows /\ NetTyped /\ ses[c] \in Session /\ ses[c].phase = "new"
      /\ ses \in [Conns -> Session] /\ net \in [Conns -> NetRows]
  BY DEF WireInv, NetTyped, SessionInv, Accept
<1>2. \A code \in Nat : Told(c, code) \in NetRows /\ Told(c, code).wire = net[c].wire
  BY <1>1, ToldRow DEF Told
<1>3. CASE Cardinality(Serving) < MaxConns
  <2> DEFINE q == [ses[c] EXCEPT !.phase = IF c \in Implicit THEN "handshake" ELSE "command"]
             r == [q EXCEPT !.policy = policy]
             n == IF c \in Implicit THEN net[c] ELSE Told(c, 220)
  <2>1. ses' = [ses EXCEPT ![c] = r]
    BY <1>1, <1>3 DEF Accept
  <2>2. net' = [net EXCEPT ![c] = n]
    BY <1>1, <1>3 DEF Accept
  <2>3. "tls" \in DOMAIN q /\ q.tls = ses[c].tls
    BY <1>1 DEF Session
  <2> HIDE DEF q
  <2>4. r.tls = ses[c].tls
    BY <2>3
  <2> HIDE DEF r
  <2>5. n \in NetRows /\ ToSet(n.wire) \subseteq ToSet(net[c].wire)
    BY <1>1, <1>2
  <2> HIDE DEF n
  <2> QED
    BY <1>1, <2>1, <2>2, <2>4, <2>5, StepMoves
<1>4. CASE ~ (Cardinality(Serving) < MaxConns)
  <2>1. ses' = [ses EXCEPT ![c] = Over] /\ net' = [net EXCEPT ![c] = Dropped(Told(c, 421))]
    BY <1>4 DEF Accept
  <2>2. Told(c, 421) \in NetRows
    BY <1>2
  <2> QED
    BY <2>1, <2>2, OverMoves
<1> QED
  BY <1>3, <1>4

(* Every step of a session but a finished handshake keeps the wire in      *)
(* order.                                                                  *)
LEMMA ServerKeepsWire ==
    ASSUME SessionInv, SessionInv', WireInv, NEW c \in Conns, Serve(c) \/ Lobby(c)
    PROVE  WireInv'
<1>1. UNCHANGED mail
  BY DEF Serve, Lobby
<1>2. \/ Hello(c) \/ Quit(c) \/ StartTls(c) \/ BodyLine(c) \/ FinalDot(c) \/ EndOfInput(c)
      \/ Timeout(c) \/ ReadError(c) \/ Accept(c) \/ HandshakeFailed(c)
      \/ Reset(c) \/ Nothing(c) \/ AuthAsks(c) \/ AuthAtOnce(c) \/ AuthAnswer(c)
      \/ Refuse530(c) \/ MailFrom(c) \/ RcptTo(c) \/ BadAddress(c) \/ Data(c)
  BY DEF Serve, Lobby, Dialog
<1>3. \E r, n : GoesOn(c, r, n)
  BY <1>2, HelloMoves, StartTlsMoves, BodyLineMoves, FinalDotMoves, EndsMove, AcceptMoves,
     AnswersMove
<1> QED
  BY <1>1, <1>3, ServerStep

LEMMA ConnSame ==
    UNCHANGED <<mail.encryption, mail.try>> =>
        C!Conn' = C!Conn /\ \A k : (C!ConnOf(k))' = C!ConnOf(k)
BY DEF C!Conn, C!ConnOf

(* A finished handshake finds an empty wire and leaves it empty.           *)
LEMMA HandshakeWire ==
    ASSUME SessionInv, WireInv, NEW c \in Conns, HandshakeDone(c)
    PROVE  /\ NetTyped' /\ SameLayer'
           /\ \A d \in Conns : net'[d].wire = net[d].wire
           /\ ses'[c].tls = TRUE
           /\ \A d \in Conns \ {c} : ses'[d] = ses[d]
<1>1. /\ net \in [Conns -> NetRows] /\ ses \in [Conns -> Session] /\ net[c] \in NetRows
      /\ NetTyped /\ net[c].wire = <<>>
  BY DEF WireInv, NetTyped, SessionInv, HandshakeDone
<1> DEFINE n == IF c \in Implicit THEN Told(c, 220) ELSE net[c]
           q == StartOver(ses[c])
           r == [q EXCEPT !.phase = "command", !.tls = TRUE, !.began = ses[c].line, !.shown = {}]
<1>2. n \in NetRows /\ n.wire = net[c].wire
  <2>1. Told(c, 220) \in NetRows /\ Told(c, 220).wire = net[c].wire
    <3>1. NetTyped /\ 220 \in Nat /\ FALSE \in BOOLEAN
      BY <1>1
    <3> QED
      BY <3>1, ToldRow DEF Told
  <2> QED
    BY <1>1, <2>1
<1>3. net' = [net EXCEPT ![c] = n] /\ ses' = [ses EXCEPT ![c] = r]
  BY <1>1 DEF HandshakeDone
<1>4. {"tls", "phase"} \subseteq DOMAIN q
  BY <1>1 DEF StartOver, Session
<1> HIDE DEF n, q
<1>5. r.tls = TRUE /\ r.phase = "command"
  BY <1>4
<1> HIDE DEF r
<1>6. NetTyped'
  BY <1>1, <1>2, <1>3 DEF NetTyped
<1>7. /\ \A d \in Conns : net'[d].wire = net[d].wire
      /\ \A d \in Conns \ {c} : ses'[d] = ses[d]
      /\ ses'[c] = r
  BY <1>1, <1>2, <1>3
<1>8. SameLayer'
  <2> SUFFICES ASSUME NEW d \in Conns, ses'[d].phase # "handshake",
                      NEW l \in ToSet(net'[d].wire)
               PROVE  l.tls = ses'[d].tls
    BY DEF SameLayer
  <2>1. CASE d = c
    BY <1>1, <1>7, <2>1 DEF ToSet
  <2>2. CASE d # c
    BY <1>7, <2>2 DEF WireInv, SameLayer
  <2> QED
    BY <2>1, <2>2
<1> QED
  BY <1>5, <1>6, <1>7, <1>8

LEMMA HandshakeKeepsWire ==
    ASSUME SessionInv, SessionInv', WireInv, NEW c \in Conns, Handshake(c)
    PROVE  WireInv'
<1>1. HandshakeDone(c)
  BY DEF Handshake, C!Upgraded
<1>2. /\ NetTyped' /\ SameLayer'
      /\ \A d \in Conns : net'[d].wire = net[d].wire
      /\ ses'[c].tls = TRUE
      /\ \A d \in Conns \ {c} : ses'[d] = ses[d]
  BY <1>1, HandshakeWire
<1>3. MailTyped /\ Agreed /\ Guarded /\ (mail.step # "idle" => C!Conn \in Mailers)
  BY ConnIsMailer DEF WireInv
<1>4. CASE c \notin Mailers
  <2>1. UNCHANGED mail
    BY <1>4 DEF Handshake
  <2>2. MailTyped'
    BY <1>3, <2>1 DEF MailTyped
  <2>3. C!Conn' = C!Conn /\ \A k : (C!ConnOf(k))' = C!ConnOf(k)
    BY <2>1, ConnSame
  <2>4. Agreed'
    <3>1. mail.step # "idle" => ses'[C!Conn] = ses[C!Conn]
      BY <1>2, <1>3, <1>4, ClientConstants
    <3>2. \A d \in Mailers : ses'[d] = ses[d]
      BY <1>2, <1>4, ClientConstants
    <3> QED
      BY <1>3, <2>1, <2>3, <3>1, <3>2 DEF Agreed
  <2>5. Guarded'
    BY <1>2, <1>3, <2>1, ClientConstants DEF Guarded, Harmless
  <2> QED
    BY <1>2, <2>2, <2>4, <2>5 DEF WireInv
<1>5. CASE c \in Mailers
  <2> DEFINE m == [mail EXCEPT !.tls = TRUE,
                               !.step = IF mail.encryption = "tls" THEN "greeting" ELSE "upgraded"]
  <2>1. mail.step = "tls" /\ c = C!Conn /\ mail' = m /\ mail \in MailRows
    BY <1>3, <1>5 DEF Handshake, C!Upgraded, MailTyped
  <2>2. /\ m \in MailRows /\ m.step \in {"greeting", "upgraded"} /\ m.tls = TRUE
        /\ m.try = mail.try /\ m.encryption = mail.encryption /\ m.login = mail.login
        /\ m.result = mail.result
    BY <2>1 DEF MailRows, C!Steps, C!Waiting
  <2> HIDE DEF m
  <2>3. MailTyped'
    BY <1>3, <2>1, <2>2 DEF MailTyped
  <2>4. C!Conn' = C!Conn /\ \A k : (C!ConnOf(k))' = C!ConnOf(k)
    BY <2>1, <2>2, ConnSame
  <2>5. Agreed'
    <3>1. mail.try \in 1 .. mail.try /\ c = C!ConnOf(mail.try)
      BY <1>3, <2>1 DEF MailTyped, C!Conn, MailRows
    <3>2. \A d \in Mailers : ses'[d].tls => \E k \in 1 .. mail.try : d = C!ConnOf(k)
      BY <1>2, <1>3, <3>1, ClientConstants DEF Agreed
    <3> QED
      BY <1>2, <2>1, <2>2, <2>4, <3>2 DEF Agreed
  <2>6. Guarded'
    BY <1>2, <1>3, <2>1, <2>2, ClientConstants DEF Guarded, Harmless
  <2> QED
    BY <1>2, <2>3, <2>5, <2>6 DEF WireInv
<1> QED
  BY <1>4, <1>5

-----------------------------------------------------------------------------
(* The peers.                                                              *)

LEMMA DeviceKeepsWire ==
    ASSUME SessionInv, WireInv, NEW c \in Conns, c \notin Mailers, NEW n \in NetRows,
           net' = [net EXCEPT ![c] = n], UNCHANGED <<ses, mail>>,
           \A l \in ToSet(n.wire) : l \in ToSet(net[c].wire) \/ l.tls = ses[c].tls
    PROVE  WireInv'
<1>1. /\ net \in [Conns -> NetRows] /\ \A d \in Conns : net'[d] = IF d = c THEN n ELSE net[d]
      /\ net' \in [Conns -> NetRows]
  BY DEF WireInv, NetTyped
<1>2. NetTyped' /\ MailTyped'
  BY <1>1 DEF WireInv, NetTyped, MailTyped
<1>3. SameLayer'
  BY <1>1 DEF WireInv, SameLayer
<1>4. C!Conn' = C!Conn /\ \A k : (C!ConnOf(k))' = C!ConnOf(k)
  BY ConnSame
<1>5. Agreed'
  BY <1>4 DEF WireInv, Agreed
<1>6. \A d \in Mailers : net'[d] = net[d]
  BY <1>1, ClientConstants
<1>7. Guarded'
  BY <1>6 DEF WireInv, Guarded, Harmless
<1> QED
  BY <1>2, <1>3, <1>5, <1>7 DEF WireInv

LEMMA OneMore ==
    ASSUME NEW S, NEW seq \in Seq(S), NEW e \in S
    PROVE  Append(seq, e) \in Seq(S) /\ ToSet(Append(seq, e)) \subseteq ToSet(seq) \cup {e}
<1>1. /\ Append(seq, e) \in Seq(S) /\ Len(Append(seq, e)) = Len(seq) + 1
      /\ \A i \in 1 .. Len(seq) : Append(seq, e)[i] = seq[i]
      /\ Append(seq, e)[Len(seq) + 1] = e
  BY AppendProperties
<1>2. ASSUME NEW x \in ToSet(Append(seq, e)) PROVE x \in ToSet(seq) \cup {e}
  <2>1. PICK i \in 1 .. Len(seq) + 1 : x = Append(seq, e)[i]
    BY <1>1, <1>2 DEF ToSet
  <2>2. i \in 1 .. Len(seq) \/ i = Len(seq) + 1
    BY <2>1
  <2> QED
    BY <1>1, <2>1, <2>2 DEF ToSet
<1> QED
  BY <1>1, <1>2

LEMMA PeerKeepsWire ==
    ASSUME SessionInv, WireInv, NEW c \in Conns, Peer(c)
    PROVE  WireInv'
<1>1. /\ net[c] \in NetRows /\ net[c].wire \in Seq(Lines) /\ net[c].sent \in 0 .. MaxLines
      /\ net \in [Conns -> NetRows] /\ ses[c].tls \in BOOLEAN
      /\ UNCHANGED <<ses, mail>> /\ c \notin Mailers
  BY DEF WireInv, NetTyped, NetRows, SessionInv, Session, Peer, DeviceSends, HangsUp
<1>2. CASE DeviceSends(c)
  <2>1. PICK text \in Vocabulary :
          net' = [net EXCEPT ![c].wire = Append(@, Line(text, ses[c].tls)), ![c].sent = @ + 1]
    BY <1>2 DEF DeviceSends
  <2> DEFINE l == Line(text, ses[c].tls)
             wire == Append(net[c].wire, l)
             sent == net[c].sent + 1
             q == [net[c] EXCEPT !.wire = wire]
             n == [q EXCEPT !.sent = sent]
  <2>2. net' = [net EXCEPT ![c] = n]
    BY <1>1, <2>1
  <2>3. l \in Lines /\ l.tls = ses[c].tls
    BY <1>1, ServerAssumption DEF Line, Lines
  <2> HIDE DEF l
  <2>4. wire \in Seq(Lines) /\ ToSet(wire) \subseteq ToSet(net[c].wire) \cup {l}
    BY <1>1, <2>3, OneMore
  <2>5. sent \in 0 .. MaxLines
    BY <1>1, <1>2, ServerAssumption DEF DeviceSends
  <2> HIDE DEF wire, sent
  <2>6. q \in NetRows /\ q.wire = wire
    BY <1>1, <2>4 DEF NetRows
  <2> HIDE DEF q
  <2>7. n \in NetRows /\ n.wire = wire
    BY <2>5, <2>6 DEF NetRows
  <2> HIDE DEF n
  <2> QED
    BY <1>1, <2>2, <2>3, <2>4, <2>7, DeviceKeepsWire
<1>3. CASE HangsUp(c)
  <2> DEFINE p == [net[c] EXCEPT !.gone = "closed"]
             q == [net[c] EXCEPT !.gone = "reset"]
             n == [q EXCEPT !.wire = <<>>]
  <2>1. net' = [net EXCEPT ![c] = p] \/ net' = [net EXCEPT ![c] = n]
    BY <1>1, <1>3 DEF HangsUp
  <2>2. p \in NetRows /\ p.wire = net[c].wire /\ q \in NetRows
    BY <1>1 DEF NetRows
  <2> HIDE DEF p, q
  <2>3. <<>> \in Seq(Lines) /\ ToSet(<<>>) = {}
    BY DEF ToSet
  <2>4. n \in NetRows /\ n.wire = <<>>
    BY <2>2, <2>3 DEF NetRows
  <2> HIDE DEF n
  <2>5. CASE net' = [net EXCEPT ![c] = p]
    BY <1>1, <2>2, <2>5, DeviceKeepsWire
  <2>6. CASE net' = [net EXCEPT ![c] = n]
    BY <1>1, <2>3, <2>4, <2>6, DeviceKeepsWire
  <2> QED
    BY <2>1, <2>5, <2>6
<1> QED
  BY <1>2, <1>3 DEF Peer

-----------------------------------------------------------------------------
(* The mail client.                                                        *)

Said == {"auth", "from", "rcpt", "data", "dot", "body", "quit"}

(* The client goes on with the attempt: at most one line is sent, on the   *)
(* layer the client is on.                                                 *)
LEMMA ClientStep ==
    ASSUME SessionInv, WireInv, UNCHANGED ses, NetTyped', MailTyped',
           mail.step # "idle", mail'.step # "idle",
           UNCHANGED <<mail.encryption, mail.try, mail.tls>>,
           \A d \in Conns :
              \/ net'[d].wire = net[d].wire
              \/ /\ d = C!Conn /\ ses[d].phase # "closed"
                 /\ \E l \in Lines : /\ net'[d].wire = Append(net[d].wire, l)
                                     /\ l.tls = mail.tls
                                     /\ mail.encryption # "none" => Harmless(l),
           mail.encryption # "none" /\ mail'.step \in Said => mail.tls,
           mail.encryption = "tls" =>
              mail.tls \/ mail'.step \in {"connecting", "tls", "failed", "done"}
    PROVE  WireInv'
<1>1. C!Conn \in Mailers /\ C!Conn \in Conns
  BY ConnIsMailer DEF WireInv
<1>2. \A d \in Conns : \A l \in ToSet(net'[d].wire) :
        \/ l \in ToSet(net[d].wire)
        \/ /\ d = C!Conn /\ ses[d].phase # "closed" /\ l.tls = mail.tls
           /\ mail.encryption # "none" => Harmless(l)
  <2> SUFFICES ASSUME NEW d \in Conns, NEW l \in ToSet(net'[d].wire), l \notin ToSet(net[d].wire)
               PROVE  /\ d = C!Conn /\ ses[d].phase # "closed" /\ l.tls = mail.tls
                      /\ mail.encryption # "none" => Harmless(l)
    OBVIOUS
  <2>1. /\ d = C!Conn /\ ses[d].phase # "closed"
        /\ \E k \in Lines : /\ net'[d].wire = Append(net[d].wire, k)
                            /\ k.tls = mail.tls
                            /\ mail.encryption # "none" => Harmless(k)
    OBVIOUS
  <2>2. PICK k \in Lines : /\ net'[d].wire = Append(net[d].wire, k)
                           /\ k.tls = mail.tls
                           /\ mail.encryption # "none" => Harmless(k)
    BY <2>1
  <2>3. net[d].wire \in Seq(Lines)
    BY DEF WireInv, NetTyped, NetRows
  <2>4. l = k
    BY <2>2, <2>3, OneMore
  <2> QED
    BY <2>1, <2>2, <2>4
<1>3. SameLayer'
  <2> SUFFICES ASSUME NEW d \in Conns, ses[d].phase # "handshake",
                      NEW l \in ToSet(net'[d].wire)
               PROVE  l.tls = ses[d].tls
    BY DEF SameLayer
  <2>1. CASE l \in ToSet(net[d].wire)
    BY <2>1 DEF WireInv, SameLayer
  <2>2. CASE l \notin ToSet(net[d].wire)
    BY <1>2, <2>2 DEF WireInv, Agreed
  <2> QED
    BY <2>1, <2>2
<1>4. C!Conn' = C!Conn /\ \A k : (C!ConnOf(k))' = C!ConnOf(k)
  BY ConnSame
<1>5. Agreed'
  BY <1>4 DEF WireInv, Agreed
<1>6. mail.encryption # "none" => \A d \in Mailers : \A l \in ToSet(net'[d].wire) : Harmless(l)
  BY <1>2, ClientConstants DEF WireInv, Guarded
<1>7. Guarded'
  BY <1>6 DEF Guarded, Said, Harmless
<1> QED
  BY <1>3, <1>5, <1>7 DEF WireInv

(* The row of the attempt after a line was sent and an answer was read.    *)
LEMMA SentRow ==
    ASSUME SessionInv, WireInv, mail.step # "idle", NEW text \in Texts, NEW w,
           w = IF C!Conn \in {c \in Conns : ses[c].phase = "closed"}
               THEN net[C!Conn].wire
               ELSE Append(net[C!Conn].wire, [text |-> text, tls |-> mail.tls]),
           NEW rs \in Seq(Replies),
           net' = [net EXCEPT ![C!Conn] = [[net[C!Conn] EXCEPT !.wire = w] EXCEPT !.replies = rs]],
           mail.encryption # "none" => mail.tls \/ text \in {"HELLO", "STARTTLS"}
    PROVE  /\ NetTyped'
           /\ \A d \in Conns :
              \/ net'[d].wire = net[d].wire
              \/ /\ d = C!Conn /\ ses[d].phase # "closed"
                 /\ \E l \in Lines : /\ net'[d].wire = Append(net[d].wire, l)
                                     /\ l.tls = mail.tls
                                     /\ mail.encryption # "none" => Harmless(l)
<1> DEFINE c == C!Conn
           l == [text |-> text, tls |-> mail.tls]
           q == [net[c] EXCEPT !.wire = w]
           n == [q EXCEPT !.replies = rs]
<1>1. c \in Conns /\ net \in [Conns -> NetRows] /\ net[c] \in NetRows
      /\ net[c].wire \in Seq(Lines) /\ mail.tls \in BOOLEAN
  BY ConnIsMailer DEF WireInv, NetTyped, NetRows, MailTyped, MailRows
<1>2. net' = [net EXCEPT ![c] = n]
  OBVIOUS
<1>3. w = net[c].wire \/ (ses[c].phase # "closed" /\ w = Append(net[c].wire, l))
  BY <1>1
<1>4. l \in Lines /\ l.tls = mail.tls /\ (mail.encryption # "none" => Harmless(l))
  BY <1>1 DEF Lines, Harmless
<1> HIDE DEF l, c
<1>5. w \in Seq(Lines)
  <2>1. Append(net[c].wire, l) \in Seq(Lines)
    BY <1>1, <1>4
  <2> QED
    BY <1>1, <1>3, <2>1
<1>6. q \in NetRows /\ q.wire = w
  BY <1>1, <1>5 DEF NetRows
<1> HIDE DEF q
<1>7. n \in NetRows /\ n.wire = w
  BY <1>6 DEF NetRows
<1> HIDE DEF n
<1>8. NetTyped'
  BY <1>1, <1>2, <1>7 DEF NetTyped
<1>9. \A d \in Conns : net'[d].wire = IF d = c THEN w ELSE net[d].wire
  BY <1>1, <1>2, <1>7
<1>10. \A d \in Conns :
         \/ net'[d].wire = net[d].wire
         \/ /\ d = c /\ ses[d].phase # "closed"
            /\ \E k \in Lines : /\ net'[d].wire = Append(net[d].wire, k)
                                /\ k.tls = mail.tls
                                /\ mail.encryption # "none" => Harmless(k)
  BY <1>3, <1>4, <1>9
<1> QED
  BY <1>8, <1>10 DEF c

(* mail.step moves and no more of the attempt but mail.to.                 *)
LEMMA MailMoved ==
    ASSUME WireInv, mail.step # "idle", NEW m \in MailRows, mail' = m,
           m.step \notin {"idle", "failed"}, m.try = mail.try,
           m.encryption = mail.encryption, m.login = mail.login, m.result = mail.result
    PROVE  MailTyped'
BY DEF WireInv, MailTyped

(* The client says a line: in reply to an answer, or while none is due.     *)
Speaks(text, step) ==
    C!SaysMore(text, step) \/ (net[C!Conn].replies # <<>> /\ C!Sends(text, step))

LEMMA SpeaksKeeps ==
    ASSUME SessionInv, WireInv, UNCHANGED ses, mail.step # "idle", NEW text \in Texts,
           NEW step \in C!Steps \ {"idle", "failed"}, Speaks(text, step),
           mail.encryption # "none" => mail.tls \/ text \in {"HELLO", "STARTTLS"},
           mail.encryption # "none" /\ step \in Said => mail.tls,
           mail.encryption = "tls" => mail.tls \/ step \in {"connecting", "tls", "failed", "done"}
    PROVE  WireInv'
<1> DEFINE c == C!Conn
           w == IF C!Conn \in {d \in Conns : ses[d].phase = "closed"}
                THEN net[C!Conn].wire
                ELSE Append(net[C!Conn].wire, [text |-> text, tls |-> mail.tls])
           m == [mail EXCEPT !.step = step]
<1>1. c \in Conns /\ net \in [Conns -> NetRows] /\ mail \in MailRows
  BY ConnIsMailer DEF WireInv, NetTyped, MailTyped
<1>2. net[c].replies \in Seq(Replies)
  BY <1>1 DEF NetRows
<1>3. PICK rs \in Seq(Replies) : C!Says(text, step, rs)
  <2>1. net[c].replies # <<>> => Tail(net[c].replies) \in Seq(Replies)
    BY <1>2
  <2> QED
    BY <1>2, <2>1 DEF Speaks, C!Sends, C!SaysMore
<1>4. net' = [net EXCEPT ![C!Conn] = [[net[C!Conn] EXCEPT !.wire = w] EXCEPT !.replies = rs]]
  BY <1>1, <1>3 DEF C!Says, NetRows
<1>5. mail' = m /\ m \in MailRows /\ m.step = step /\ m.tls = mail.tls /\ m.try = mail.try
      /\ m.encryption = mail.encryption /\ m.login = mail.login /\ m.result = mail.result
  BY <1>1, <1>3 DEF C!Says, MailRows
<1> HIDE DEF m
<1>6. MailTyped'
  BY <1>5, MailMoved
<1>7. /\ NetTyped'
      /\ \A d \in Conns :
         \/ net'[d].wire = net[d].wire
         \/ /\ d = C!Conn /\ ses[d].phase # "closed"
            /\ \E l \in Lines : /\ net'[d].wire = Append(net[d].wire, l)
                                /\ l.tls = mail.tls
                                /\ mail.encryption # "none" => Harmless(l)
  <2>1. w = IF C!Conn \in {d \in Conns : ses[d].phase = "closed"}
            THEN net[C!Conn].wire
            ELSE Append(net[C!Conn].wire, [text |-> text, tls |-> mail.tls])
    OBVIOUS
  <2> HIDE DEF w
  <2> QED
    BY <1>3, <1>4, <2>1, SentRow
<1> QED
  BY <1>5, <1>6, <1>7, ClientStep

LEMMA FailsKeeps ==
    ASSUME SessionInv, WireInv, UNCHANGED ses, mail.step # "idle", NEW result \in C!Results,
           C!Fails(result)
    PROVE  WireInv'
<1> DEFINE c == C!Conn
           list == [mail.result EXCEPT ![mail.try] = result]
           step == IF result \in C!Retryable /\ mail.try < Len(Tries[mail.encryption])
                   THEN "failed" ELSE "done"
           p == [mail EXCEPT !.result = list]
           m == [p EXCEPT !.step = step]
           gone == IF c \in {d \in Conns : ses[d].phase = "closed"} THEN net[c].gone ELSE "closed"
           q == [net[c] EXCEPT !.replies = <<>>]
           r == [q EXCEPT !.up = FALSE]
           n == [r EXCEPT !.gone = gone]
<1>1. /\ c \in Conns /\ net \in [Conns -> NetRows] /\ net[c] \in NetRows /\ mail \in MailRows
      /\ MailTyped /\ mail.encryption \in Encryption
  BY ConnIsMailer DEF WireInv, NetTyped, MailTyped
<1>2. mail' = m
  BY <1>1 DEF C!Fails, C!EndTry, MailRows
<1>3. net' = [net EXCEPT ![c] = n]
  BY <1>1 DEF C!Fails, C!HangUp, NetRows
<1>4. n \in NetRows /\ n.wire = net[c].wire
  <2>1. gone \in {"no", "closed", "reset"} /\ <<>> \in Seq(Replies)
    BY <1>1 DEF NetRows
  <2> HIDE DEF gone
  <2>2. q \in NetRows /\ q.wire = net[c].wire
    BY <1>1, <2>1 DEF NetRows
  <2> HIDE DEF q
  <2>3. r \in NetRows /\ r.wire = net[c].wire
    BY <2>2 DEF NetRows
  <2> HIDE DEF r
  <2> QED
    BY <2>1, <2>3 DEF NetRows
<1> HIDE DEF n
<1>5. list \in Seq(C!Results) /\ Len(list) = Len(mail.result)
  <2>1. mail.result \in Seq(C!Results) /\ mail.try \in 1 .. Len(mail.result)
    BY <1>1 DEF MailRows, MailTyped
  <2> QED
    BY <2>1, ExceptSeq
<1> HIDE DEF list
<1>6. /\ p \in MailRows /\ p.result = list /\ p.try = mail.try /\ p.tls = mail.tls
      /\ p.encryption = mail.encryption /\ p.login = mail.login
  BY <1>1, <1>5 DEF MailRows
<1> HIDE DEF p
<1>7. /\ step \in {"failed", "done"}
      /\ step = "failed" => mail.try < Len(Tries[mail.encryption])
  OBVIOUS
<1> HIDE DEF step
<1>8. /\ m \in MailRows /\ m.result = list /\ m.try = mail.try /\ m.tls = mail.tls
      /\ m.encryption = mail.encryption /\ m.login = mail.login /\ m.step = step
  BY <1>6, <1>7 DEF MailRows, C!Steps
<1> HIDE DEF m
<1>9. MailTyped'
  BY <1>1, <1>2, <1>5, <1>7, <1>8 DEF MailTyped
<1>10. NetTyped' /\ \A d \in Conns : net'[d].wire = net[d].wire
  BY <1>1, <1>3, <1>4 DEF NetTyped
<1> QED
  BY <1>2, <1>7, <1>8, <1>9, <1>10, ClientStep DEF Said

(* An attempt begins, on a connection that is not encrypted.               *)
LEMMA DialKeeps ==
    ASSUME SessionInv, WireInv, UNCHANGED ses, C!Dial \/ C!DialAgain
    PROVE  WireInv'
<1>1. /\ net \in [Conns -> NetRows] /\ mail \in MailRows /\ MailTyped /\ Agreed /\ Guarded
      /\ SameLayer
  BY DEF WireInv, NetTyped, MailTyped
<1>2. ASSUME NEW d \in Conns, net' = [net EXCEPT ![d].up = TRUE]
      PROVE  NetTyped' /\ SameLayer' /\ \A x \in Conns : net'[x].wire = net[x].wire
  <2> DEFINE n == [net[d] EXCEPT !.up = TRUE]
  <2>1. n \in NetRows /\ n.wire = net[d].wire
    BY <1>1 DEF NetRows
  <2>2. net' = [net EXCEPT ![d] = n]
    BY <1>2
  <2> HIDE DEF n
  <2> QED
    BY <1>1, <2>1, <2>2 DEF NetTyped, SameLayer
<1>3. CASE C!Dial
  <2>1. PICK e \in Encryption, l \in Login :
          /\ mail' = [mail EXCEPT !.try = 1, !.step = "connecting", !.encryption = e, !.login = l,
                                  !.result = [k \in 1 .. Len(Tries[e]) |-> "none"]]
          /\ net' = [net EXCEPT ![Tries[e][1]].up = TRUE]
    BY <1>3 DEF C!Dial
  <2> DEFINE list == [k \in 1 .. Len(Tries[e]) |-> "none"]
             m == [mail EXCEPT !.try = 1, !.step = "connecting", !.encryption = e, !.login = l,
                               !.result = list]
  <2>2. mail' = m
    BY <2>1
  <2>3. /\ Tries[e][1] \in Mailers /\ Tries[e][1] \in Conns /\ 1 \in 1 .. Len(Tries[e])
        /\ mail.step = "idle" /\ mail.try = 0 /\ mail.tls = FALSE
    <3>1. mail.step = "idle"
      BY <1>3 DEF C!Dial
    <3>2. mail.try = 0 /\ mail.tls = FALSE
      BY <1>1, <3>1 DEF MailTyped, MailRows
    <3>3. 1 \in 1 .. Len(Tries[e])
      BY ClientConstants
    <3> QED
      BY <3>1, <3>2, <3>3, ClientConstants
  <2>4. list \in Seq(C!Results) /\ Len(list) = Len(Tries[e])
    BY ClientConstants DEF C!Results
  <2> HIDE DEF list
  <2>5. /\ m \in MailRows /\ m.try = 1 /\ m.step = "connecting" /\ m.encryption = e
        /\ m.login = l /\ m.result = list /\ m.tls = FALSE
    BY <1>1, <2>3, <2>4 DEF MailRows, C!Steps, C!Waiting
  <2> HIDE DEF m
  <2>6. MailTyped'
    BY <2>2, <2>3, <2>4, <2>5 DEF MailTyped
  <2>7. NetTyped' /\ SameLayer' /\ \A x \in Conns : net'[x].wire = net[x].wire
    BY <1>2, <2>1, <2>3
  <2>8. \A d \in Mailers : ses[d].tls = FALSE
    <3>1. \A d \in Mailers : ~ ses[d].tls /\ ses[d].tls \in BOOLEAN
      BY <1>1, <2>3, ClientConstants DEF Agreed, SessionInv, Session
    <3> QED
      BY <3>1
  <2>9. C!Conn' = Tries[e][1]
    BY <2>2, <2>5 DEF C!Conn, C!ConnOf
  <2>10. Agreed'
    BY <2>2, <2>3, <2>5, <2>8, <2>9 DEF Agreed
  <2>11. Guarded'
    <3>1. \A d \in Mailers : ToSet(net'[d].wire) = {}
      BY <1>1, <2>3, <2>7, ClientConstants DEF Guarded, ToSet
    <3> QED
      BY <2>2, <2>5, <3>1 DEF Guarded
  <2> QED
    BY <2>6, <2>7, <2>10, <2>11 DEF WireInv
<1>4. CASE C!DialAgain
  <2> DEFINE e == mail.encryption
             next == mail.try + 1
             m == [mail EXCEPT !.try = next, !.step = "connecting", !.tls = FALSE, !.to = 0]
  <2>1. /\ mail.step = "failed" /\ mail' = m
        /\ net' = [net EXCEPT ![Tries[e][next]].up = TRUE]
    BY <1>4 DEF C!DialAgain, C!ConnOf
  <2>2. /\ e \in Encryption /\ mail.try \in 1 .. Len(Tries[e]) /\ mail.try < Len(Tries[e])
        /\ Len(mail.result) = Len(Tries[e])
    BY <1>1, <2>1 DEF MailTyped
  <2>3. next \in 1 .. Len(Tries[e]) /\ next \in Nat /\ mail.try \in Nat
    BY <2>2, ClientConstants
  <2>4. next \notin 1 .. mail.try /\ 1 .. mail.try \subseteq 1 .. Len(Tries[e])
    BY <2>2, ClientConstants
  <2>5. Tries[e][next] \in Mailers /\ Tries[e][next] \in Conns
    BY <2>2, <2>3, ClientConstants
  <2>6. 0 \in 0 .. Recipients
    BY ClientConstants
  <2>7. /\ m \in MailRows /\ m.try = next /\ m.step = "connecting" /\ m.encryption = e
        /\ m.login = mail.login /\ m.result = mail.result /\ m.tls = FALSE
    <3> HIDE DEF next
    <3> QED
      BY <1>1, <2>3, <2>6 DEF MailRows, C!Steps
  <2> HIDE DEF m
  <2>8. MailTyped'
    BY <1>1, <2>1, <2>2, <2>3, <2>7 DEF MailTyped
  <2>9. NetTyped' /\ SameLayer' /\ \A x \in Conns : net'[x].wire = net[x].wire
    BY <1>2, <2>1, <2>5
  <2>10. ses[Tries[e][next]].tls = FALSE
    <3>1. \A k \in 1 .. mail.try : Tries[e][next] # Tries[e][k]
      BY <2>2, <2>3, <2>4, ClientConstants
    <3>2. ~ ses[Tries[e][next]].tls /\ ses[Tries[e][next]].tls \in BOOLEAN
      BY <1>1, <2>5, <3>1 DEF Agreed, C!ConnOf, SessionInv, Session
    <3> QED
      BY <3>2
  <2>11. C!Conn' = Tries[e][next] /\ \A k : (C!ConnOf(k))' = C!ConnOf(k)
    BY <2>1, <2>7 DEF C!Conn, C!ConnOf
  <2>12. 1 .. mail.try \subseteq 1 .. next
    BY <2>3
  <2>13. Agreed'
    BY <1>1, <2>1, <2>7, <2>10, <2>11, <2>12 DEF Agreed
  <2>14. Guarded'
    BY <1>1, <2>1, <2>7, <2>9, ClientConstants DEF Guarded, Harmless
  <2> QED
    BY <2>8, <2>9, <2>13, <2>14 DEF WireInv
<1> QED
  BY <1>3, <1>4

LEMMA GoesOnQuietly ==
    ASSUME SessionInv, WireInv, UNCHANGED ses, C!Connected \/ C!TlsGranted
    PROVE  WireInv'
<1>1. /\ net \in [Conns -> NetRows] /\ mail \in MailRows /\ MailTyped /\ Guarded
      /\ mail.step # "idle" /\ C!Conn \in Conns
  BY ConnIsMailer DEF WireInv, NetTyped, MailTyped, C!Connected, C!TlsGranted
<1> DEFINE step == IF mail.step = "starttls" \/ mail.encryption = "tls" THEN "tls" ELSE "greeting"
           m == [mail EXCEPT !.step = step]
<1>2. mail' = m
  BY DEF C!Connected, C!TlsGranted
<1>3. step \in {"tls", "greeting"} /\ (mail.encryption = "tls" => step = "tls")
  OBVIOUS
<1> HIDE DEF step
<1>4. /\ m \in MailRows /\ m.step = step /\ m.try = mail.try /\ m.tls = mail.tls
      /\ m.encryption = mail.encryption /\ m.login = mail.login /\ m.result = mail.result
  BY <1>1, <1>3 DEF MailRows, C!Steps, C!Waiting
<1> HIDE DEF m
<1>5. MailTyped'
  BY <1>1, <1>2, <1>3, <1>4, MailMoved
<1>6. NetTyped' /\ \A d \in Conns : net'[d].wire = net[d].wire
  <2>1. CASE UNCHANGED net
    BY <1>1, <2>1 DEF NetTyped
  <2>2. CASE net' = [net EXCEPT ![C!Conn].replies = <<>>]
    <3> DEFINE n == [net[C!Conn] EXCEPT !.replies = <<>>]
    <3>1. <<>> \in Seq(Replies)
      OBVIOUS
    <3>2. n \in NetRows /\ n.wire = net[C!Conn].wire
      BY <1>1, <3>1 DEF NetRows
    <3>3. net' = [net EXCEPT ![C!Conn] = n]
      BY <1>1, <2>2
    <3> HIDE DEF n
    <3> QED
      BY <1>1, <3>2, <3>3 DEF NetTyped
  <2> QED
    BY <2>1, <2>2 DEF C!Connected, C!TlsGranted
<1> QED
  BY <1>1, <1>2, <1>3, <1>4, <1>5, <1>6, ClientStep DEF Said

LEMMA ToRecipientsKeeps ==
    ASSUME SessionInv, WireInv, UNCHANGED ses, C!ToRecipients
    PROVE  WireInv'
<1>1. /\ net \in [Conns -> NetRows] /\ mail \in MailRows /\ MailTyped /\ Guarded
      /\ mail.step \in {"from", "rcpt"} /\ C!Conn \in Conns /\ net[C!Conn].replies # <<>>
      /\ mail.encryption \in Encryption
  BY ConnIsMailer DEF WireInv, NetTyped, MailTyped, C!ToRecipients, C!Answered
<1>2. mail.encryption # "none" => mail.tls
  BY <1>1 DEF Guarded
<1>3. CASE mail.to < Recipients
  <2> DEFINE w == IF C!Conn \in {d \in Conns : ses[d].phase = "closed"}
                  THEN net[C!Conn].wire
                  ELSE Append(net[C!Conn].wire, [text |-> "RCPT", tls |-> mail.tls])
             rs == Tail(net[C!Conn].replies)
             to == mail.to + 1
             p == [mail EXCEPT !.step = "rcpt"]
             m == [p EXCEPT !.to = to]
  <2>1. rs \in Seq(Replies)
    <3>1. net[C!Conn].replies \in Seq(Replies)
      BY <1>1 DEF NetRows
    <3> QED
      BY <1>1, <3>1
  <2>2. net' = [net EXCEPT ![C!Conn] = [[net[C!Conn] EXCEPT !.wire = w] EXCEPT !.replies = rs]]
    BY <1>1, <1>3 DEF C!ToRecipients, NetRows
  <2>3. mail' = m
    BY <1>1, <1>3 DEF C!ToRecipients, MailRows
  <2>4. to \in 0 .. Recipients
    BY <1>1, <1>3, ClientConstants DEF MailRows
  <2> HIDE DEF to
  <2>5. /\ p \in MailRows /\ p.step = "rcpt" /\ p.try = mail.try /\ p.tls = mail.tls
        /\ p.encryption = mail.encryption /\ p.login = mail.login /\ p.result = mail.result
    BY <1>1 DEF MailRows, C!Steps, C!Waiting
  <2> HIDE DEF p
  <2>6. /\ m \in MailRows /\ m.step = "rcpt" /\ m.try = mail.try /\ m.tls = mail.tls
        /\ m.encryption = mail.encryption /\ m.login = mail.login /\ m.result = mail.result
    BY <2>4, <2>5 DEF MailRows
  <2> HIDE DEF m, rs
  <2>7. MailTyped'
    BY <1>1, <2>3, <2>6, MailMoved
  <2>8. w = IF C!Conn \in {d \in Conns : ses[d].phase = "closed"}
            THEN net[C!Conn].wire
            ELSE Append(net[C!Conn].wire, [text |-> "RCPT", tls |-> mail.tls])
    OBVIOUS
  <2> HIDE DEF w
  <2>9. "RCPT" \in Texts
    BY DEF Texts, Commands
  <2>10. /\ NetTyped'
         /\ \A d \in Conns :
            \/ net'[d].wire = net[d].wire
            \/ /\ d = C!Conn /\ ses[d].phase # "closed"
               /\ \E l \in Lines : /\ net'[d].wire = Append(net[d].wire, l)
                                   /\ l.tls = mail.tls
                                   /\ mail.encryption # "none" => Harmless(l)
    BY <1>1, <1>2, <2>1, <2>2, <2>8, <2>9, SentRow
  <2> QED
    BY <1>1, <1>2, <2>3, <2>6, <2>7, <2>10, ClientStep
<1>4. CASE ~ (mail.to < Recipients)
  <2>1. Speaks("DATA", "data")
    BY <1>1, <1>4 DEF C!ToRecipients, Speaks
  <2>2. "DATA" \in Texts /\ "data" \in C!Steps \ {"idle", "failed"}
    BY DEF Texts, Commands, C!Steps, C!Waiting
  <2> QED
    BY <1>1, <1>2, <2>1, <2>2, SpeaksKeeps
<1> QED
  BY <1>3, <1>4

(* The lines that are sent in the clear, and those that are not.           *)
LEMMA SaidKeeps ==
    ASSUME SessionInv, WireInv, UNCHANGED ses,
           \/ C!Greeted \/ C!HelloAgain \/ C!HelloRefused \/ C!LoggedIn \/ C!Body \/ C!Dot
           \/ C!Accepted
    PROVE  WireInv'
<1>1. mail.encryption \in Encryption /\ Guarded /\ mail.step # "idle"
  BY DEF WireInv, MailTyped, C!Greeted, C!HelloAgain, C!HelloRefused, C!LoggedIn, C!Body, C!Dot,
     C!Accepted
<1>2. mail.encryption = "tls" => mail.tls
  BY <1>1 DEF Guarded, C!Greeted, C!HelloAgain, C!HelloRefused, C!LoggedIn, C!Body, C!Dot,
     C!Accepted
<1>3. CASE C!Greeted \/ C!HelloAgain \/ C!HelloRefused
  <2>1. PICK step \in {"hello", "helo"} : Speaks("HELLO", step)
    BY <1>3 DEF C!Greeted, C!HelloAgain, C!HelloRefused, C!Answered, Speaks
  <2>2. "HELLO" \in Texts /\ step \in C!Steps \ {"idle", "failed"} /\ step \notin Said
    BY DEF Texts, Commands, C!Steps, C!Waiting, Said
  <2> QED
    BY <1>1, <1>2, <2>1, <2>2, SpeaksKeeps
<1>4. CASE C!LoggedIn \/ C!Body \/ C!Dot \/ C!Accepted
  <2>1. mail.encryption # "none" => mail.tls
    BY <1>1, <1>4 DEF Guarded, C!LoggedIn, C!Body, C!Dot, C!Accepted
  <2>2. \/ Speaks("MAIL", "from") \/ Speaks("text", "dot") \/ Speaks(".", "body")
        \/ Speaks("QUIT", "quit")
    BY <1>4 DEF C!LoggedIn, C!Body, C!Dot, C!Accepted, C!Answered, Speaks
  <2>3. {"MAIL", "text", ".", "QUIT"} \subseteq Texts
    BY DEF Texts, Commands
  <2>4. {"from", "dot", "body", "quit"} \subseteq C!Steps \ {"idle", "failed"}
    BY DEF C!Steps, C!Waiting
  <2>5. PICK text \in {"MAIL", "text", ".", "QUIT"}, step \in {"from", "dot", "body", "quit"} :
          Speaks(text, step)
    BY <2>2
  <2> QED
    BY <1>1, <1>2, <2>1, <2>3, <2>4, <2>5, SpeaksKeeps
<1> QED
  BY <1>3, <1>4

(* What follows the capabilities depends on the encryption asked for.      *)
LEMMA HelloedKeeps ==
    ASSUME SessionInv, WireInv, UNCHANGED ses, C!Helloed
    PROVE  WireInv'
<1>1. /\ mail.encryption \in Encryption /\ Guarded /\ mail.step = "hello"
      /\ net[C!Conn].replies # <<>>
  BY DEF WireInv, MailTyped, C!Helloed, C!Answered
<1>2. mail.encryption = "tls" => mail.tls
  BY <1>1 DEF Guarded
<1>3. "noStartTls" \in C!Results /\ {"STARTTLS", "MAIL", "PLAIN right", "PLAIN wrong"} \subseteq Texts
      /\ {"starttls", "from", "auth"} \subseteq C!Steps \ {"idle", "failed"}
      /\ "starttls" \notin Said
  BY DEF C!Results, Texts, Commands, C!Steps, C!Waiting, Said
<1>4. CASE C!Fails("noStartTls")
  BY <1>1, <1>3, <1>4, FailsKeeps
<1>5. CASE Speaks("STARTTLS", "starttls")
  BY <1>1, <1>2, <1>3, <1>5, SpeaksKeeps
<1>6. CASE C!LogsIn /\ net[C!Conn].replies # <<>> /\ (mail.encryption # "none" => mail.tls)
  <2>1. PICK text \in {"MAIL", "PLAIN right", "PLAIN wrong"}, step \in {"from", "auth"} :
          Speaks(text, step)
    BY <1>6 DEF C!LogsIn, Speaks
  <2> QED
    BY <1>1, <1>2, <1>3, <1>6, <2>1, SpeaksKeeps
<1>7. \/ C!Fails("noStartTls") \/ Speaks("STARTTLS", "starttls")
      \/ C!LogsIn /\ net[C!Conn].replies # <<>> /\ (mail.encryption # "none" => mail.tls)
  <2>1. \/ C!Fails("noStartTls") \/ C!Sends("STARTTLS", "starttls")
        \/ C!LogsIn /\ (mail.encryption # "none" => mail.tls)
    BY <1>1, <1>2, ClientConstants DEF C!Helloed, C!AfterHello
  <2> QED
    BY <1>1, <2>1 DEF Speaks
<1> QED
  BY <1>4, <1>5, <1>6, <1>7

LEMMA EndsKeep ==
    ASSUME SessionInv, WireInv, UNCHANGED ses,
           \/ C!NoConnection \/ C!NotUpgraded \/ C!Finished \/ C!Refused \/ C!EndOfAnswers
           \/ C!OutOfTime
    PROVE  WireInv'
<1>1. mail.step # "idle"
  BY DEF C!NoConnection, C!NotUpgraded, C!Finished, C!Refused, C!EndOfAnswers, C!OutOfTime,
     C!Waiting
<1>2. \E result \in C!Results : C!Fails(result)
  BY DEF C!NoConnection, C!NotUpgraded, C!Finished, C!Refused, C!EndOfAnswers, C!OutOfTime,
     C!Results
<1> QED
  BY <1>1, <1>2, FailsKeeps

LEMMA MailingKeepsWire ==
    ASSUME SessionInv, WireInv, Mailing
    PROVE  WireInv'
<1>1. UNCHANGED ses /\ C!MailNext
  BY DEF Mailing
<1>2. \/ C!Dial \/ C!DialAgain \/ C!Connected \/ C!NoConnection \/ C!NotUpgraded
      \/ C!Greeted \/ C!HelloAgain \/ C!Helloed \/ C!HelloRefused \/ C!TlsGranted \/ C!LoggedIn
      \/ C!ToRecipients \/ C!Body \/ C!Dot \/ C!Accepted \/ C!Finished \/ C!Refused
      \/ C!EndOfAnswers \/ C!OutOfTime
  BY <1>1 DEF C!MailNext
<1> QED
  BY <1>1, <1>2, DialKeeps, GoesOnQuietly, ToRecipientsKeeps, SaidKeeps, HelloedKeeps, EndsKeep

LEMMA WireRests ==
    ASSUME WireInv, UNCHANGED <<ses, net, mail>>
    PROVE  WireInv'
<1>1. C!Conn' = C!Conn /\ \A k : (C!ConnOf(k))' = C!ConnOf(k)
  BY ConnSame
<1>2. NetTyped' /\ MailTyped' /\ SameLayer'
  BY DEF WireInv, NetTyped, MailTyped, SameLayer
<1>3. Agreed'
  BY <1>1 DEF WireInv, Agreed
<1>4. Guarded'
  BY DEF WireInv, Guarded
<1> QED
  BY <1>2, <1>3, <1>4 DEF WireInv

LEMMA WireStep == SessionInv /\ SessionInv' /\ WireInv /\ [Next]_vars => WireInv'
<1> SUFFICES ASSUME SessionInv, SessionInv', WireInv, [Next]_vars PROVE WireInv'
  OBVIOUS
<1>1. CASE UNCHANGED vars
  BY <1>1, WireRests DEF vars, serverVars
<1>2. CASE Mailing
  BY <1>2, MailingKeepsWire
<1>3. CASE Taking
  BY <1>3, WireRests DEF Taking
<1>4. CASE SetUp
  BY <1>4, WireRests DEF SetUp, SetRuntime
<1>5. ASSUME NEW c \in Conns, Serve(c) \/ Lobby(c) PROVE WireInv'
  BY <1>5, ServerKeepsWire
<1>6. ASSUME NEW c \in Conns, Handshake(c) PROVE WireInv'
  BY <1>6, HandshakeKeepsWire
<1>7. ASSUME NEW c \in Conns, Peer(c) PROVE WireInv'
  BY <1>7, PeerKeepsWire
<1> QED
  BY <1>1, <1>2, <1>3, <1>4, <1>5, <1>6, <1>7 DEF Next

(* The inductive invariant of what is on the way between the peers and the *)
(* sessions.                                                               *)
THEOREM WireCorrect == Spec => []WireInv
BY SessionsCorrect, WireInit, WireStep, PTL DEF Spec

(* What a peer said in the clear is never read by an encrypted session,    *)
(* nor the other way round, whatever is sent ahead and read ahead.         *)
THEOREM PlaintextIsLeft == Spec => []PlaintextStaysOut
<1>1. SessionInv /\ WireInv => PlaintextStaysOut
  <2> SUFFICES ASSUME SessionInv, WireInv, NEW c \in Conns, ses[c].phase \in Reading,
                      NEW l \in ToSet(Input(c))
               PROVE  l.tls = ses[c].tls
    BY DEF PlaintextStaysOut
  <2>1. Input(c) = net[c].wire
    BY InputIsWire
  <2> QED
    BY <2>1 DEF WireInv, SameLayer, Reading
<1> QED
  BY SessionsCorrect, WireCorrect, <1>1, PTL

(* A mail client that was told to encrypt does so, on every attempt and    *)
(* against every server, or gives up.                                      *)
THEOREM NeverDowngraded == Spec => []NoDowngrade
<1>1. SessionInv /\ WireInv => NoDowngrade
  <2> SUFFICES ASSUME SessionInv, WireInv, mail.encryption # "none", NEW c \in Mailers,
                      NEW l \in ToSet(net[c].wire \o ses[c].buf)
               PROVE  l.tls \/ l.text \in {"HELLO", "STARTTLS"}
    BY DEF NoDowngrade
  <2>1. c \in Conns /\ ses[c].buf = <<>> /\ net[c].wire \in Seq(Lines)
    BY ClientConstants DEF SessionInv, WireInv, NetTyped, NetRows
  <2>2. net[c].wire \o ses[c].buf = net[c].wire
    BY <2>1, ConcatEmptySeq
  <2> QED
    BY <2>2 DEF WireInv, Guarded, Harmless
<1> QED
  BY SessionsCorrect, WireCorrect, <1>1, PTL

-----------------------------------------------------------------------------
(* Types.                                                                  *)

TroubleInv ==
    /\ trouble \subseteq {Ip[c] : c \in Conns}
    /\ IsFiniteSet(trouble)
    /\ Cardinality(trouble) <= MaxTrouble

LEMMA TroubleStep == TroubleInv /\ [Next]_vars => TroubleInv'
<1> SUFFICES ASSUME TroubleInv, [Next]_vars PROVE TroubleInv'
  OBVIOUS
<1>1. CASE UNCHANGED trouble
  BY <1>1 DEF TroubleInv
<1>2. ASSUME NEW c \in Conns, HandshakeFailed(c) PROVE TroubleInv'
  <2> DEFINE room == IF Cardinality(trouble) >= MaxTrouble THEN {} ELSE trouble
  <2>1. trouble' = trouble \/ trouble' = room \cup {Ip[c]}
    BY <1>2 DEF HandshakeFailed
  <2>2. IsFiniteSet(room) /\ Cardinality(room) + 1 <= MaxTrouble
    <3>1. Cardinality({}) = 0 /\ IsFiniteSet({})
      BY FS_EmptySet
    <3>2. Cardinality(trouble) \in Nat /\ MaxTrouble \in Nat \ {0}
      BY FS_CardinalityType, ServerAssumption DEF TroubleInv
    <3> QED
      BY <3>1, <3>2 DEF TroubleInv
  <2>3. room \subseteq trouble
    OBVIOUS
  <2> HIDE DEF room
  <2>4. /\ IsFiniteSet(room \cup {Ip[c]})
        /\ Cardinality(room \cup {Ip[c]}) = Cardinality(room)
           \/ Cardinality(room \cup {Ip[c]}) = Cardinality(room) + 1
    BY <2>2, FS_AddElement
  <2>5. Cardinality(room) \in Nat /\ MaxTrouble \in Nat
    BY <2>2, FS_CardinalityType, ServerAssumption
  <2>6. room \cup {Ip[c]} \subseteq {Ip[d] : d \in Conns}
    BY <2>3 DEF TroubleInv
  <2>7. CASE trouble' = room \cup {Ip[c]}
    BY <2>2, <2>4, <2>5, <2>6, <2>7 DEF TroubleInv
  <2> QED
    BY <1>1, <2>1, <2>7
<1>3. CASE UNCHANGED vars \/ Mailing \/ Taking \/ SetUp
  BY <1>1, <1>3 DEF vars, serverVars, Mailing, Taking, SetUp, SetRuntime
<1>4. ASSUME NEW c \in Conns, Serve(c) PROVE TroubleInv'
  <2>1. UNCHANGED trouble
    BY <1>4 DEF Serve, Dialog, Hello, Reset, Nothing, Quit, StartTls, AuthAsks, AuthAtOnce,
       AuthAnswer, Refuse530, MailFrom, RcptTo, BadAddress, Data, BodyLine, FinalDot, EndOfInput,
       Timeout, ReadError, Deliver, Closes
  <2> QED
    BY <1>1, <2>1
<1>5. ASSUME NEW c \in Conns, Handshake(c) \/ Peer(c) PROVE TroubleInv'
  BY <1>1, <1>5 DEF Handshake, HandshakeDone, C!Upgraded, Peer, DeviceSends, HangsUp
<1>6. ASSUME NEW c \in Conns, Lobby(c) PROVE TroubleInv'
  BY <1>1, <1>2, <1>6 DEF Lobby, Accept
<1> QED
  BY <1>3, <1>4, <1>5, <1>6 DEF Next

THEOREM TroubleCorrect == Spec => []TroubleInv
<1>1. Init => TroubleInv
  <2>1. Cardinality({}) = 0 /\ IsFiniteSet({}) /\ MaxTrouble \in Nat
    BY FS_EmptySet, ServerAssumption
  <2> QED
    BY <2>1 DEF Init, ServerInit, TroubleInv
<1> QED
  BY <1>1, TroubleStep, PTL DEF Spec

(* Every part of the state has its type: the bounds of the channel, of the *)
(* recipients of a session and of the addresses remembered included.       *)
THEOREM TypesCorrect == Spec => []TypeOK
<1>1. SessionInv /\ MessagesInv /\ WireInv /\ TroubleInv => ServerTypeOK
  <2> SUFFICES ASSUME SessionInv, MessagesInv, WireInv, TroubleInv PROVE ServerTypeOK
    OBVIOUS
  <2>1. sink \in Seq(Message) /\ Len(sink) <= SinkSize
    BY DEF MessagesInv, GoodMessages
  <2>2. ASSUME NEW c \in Conns
        PROVE  /\ ses[c] \in Session
               /\ ses[c].rcpt \subseteq 1 .. ses[c].line
               /\ Cardinality(ses[c].rcpt) <= MaxRcpt
               /\ net[c].wire \in Seq(Lines)
               /\ net[c].gone \in {"no", "closed", "reset"}
               /\ net[c].up \in BOOLEAN
               /\ net[c].sent \in 0 .. MaxLines
    <3>1. ses[c] \in Session /\ Enclosed(ses[c]) /\ net[c] \in NetRows
      BY DEF SessionInv, WireInv, NetTyped
    <3>2. ses[c].rcpt \subseteq Nat /\ ses[c].line \in Nat
      BY <3>1 DEF Session
    <3>3. ses[c].rcpt \subseteq 1 .. ses[c].line /\ Cardinality(ses[c].rcpt) <= MaxRcpt
      BY <3>1, <3>2 DEF Enclosed, Envelope, Few
    <3> QED
      BY <3>1, <3>3 DEF NetRows
  <2> QED
    BY <2>1, <2>2 DEF ServerTypeOK, SessionInv, TroubleInv
<1>2. WireInv => C!MailTypeOK
  <2> SUFFICES ASSUME WireInv PROVE C!MailTypeOK
    OBVIOUS
  <2>1. mail \in MailRows /\ MailTyped
    BY DEF WireInv, MailTyped
  <2>2. mail.result \in Seq(C!Results) /\ Len(mail.result) \in Nat
    BY <2>1 DEF MailRows
  <2>3. mail.try \in 0 .. Len(mail.result)
    BY <2>1, <2>2 DEF MailTyped
  <2> QED
    BY <2>1, <2>2, <2>3 DEF C!MailTypeOK, MailTyped, MailRows
<1>3. MessagesInv => I!IntakeTypeOK
  BY DEF MessagesInv, I!IntakeTypeOK, GoodAsides
<1> QED
  BY SessionsCorrect, MessagesCorrect, WireCorrect, TroubleCorrect, <1>1, <1>2, <1>3, PTL
     DEF TypeOK
=============================================================================
