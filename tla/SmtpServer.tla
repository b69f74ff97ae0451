----------------------------- MODULE SmtpServer -----------------------------
(***************************************************************************)
(* The SMTP server of stmp2log (crate s2l-smtp): the accept loops, the     *)
(* dialog of a connection (session.rs) and the step up to TLS (lib.rs).    *)
(*                                                                         *)
(* A peer sends lines when it likes, several ahead of the answers if it    *)
(* likes (PIPELINING is offered), goes silent, hangs up or is cut off.     *)
(* A session is one task; between two of its awaits nothing else of it     *)
(* runs, so one line read, acted on and answered is one action.            *)
(*                                                                         *)
(* A line is one member of a small vocabulary: what the dialog does with   *)
(* it, not its characters.  A login has two parts, each right or wrong.    *)
(* A line of a body has length 1.  Lines are numbered as the session reads *)
(* them: a sender and a recipient are the numbers of their lines, so a     *)
(* message tells which commands it was made from.                          *)
(*                                                                         *)
(* A definition marked "Slip" is no part of the model: it is the next one  *)
(* with a mistake that a property has to notice.                           *)
(***************************************************************************)
EXTENDS Naturals, FiniteSets, SequencesExt

CONSTANTS
    Conns,      \* connections, each used once
    Mailers,    \* those of them that stmp2log's own mail client opens
    Implicit,   \* those that come in on the implicit-TLS port
    Ip,         \* [Conns -> addresses]
    Vocabulary, \* the lines devices send
    Ahead,      \* bound: pairs of lines devices send without a pause
    Policies,   \* the values Config.auth takes: [user, pass], what is checked
    HasTls,     \* Config.tls is there
    MaxConns,   \* Config.max_conns, 64
    MaxRcpt,    \* MAX_RCPT, 100
    MaxSize,    \* Config.max_size, in lines
    MaxTrouble, \* MAX_TLS_TROUBLE, 256
    SinkSize,   \* the channel to the intake, 256
    MaxLines    \* bound: lines a device sends on one connection

Answers  == {"right", "name", "wrong"}
Commands == {"HELLO", "STARTTLS", "AUTH?", "PLAIN", "PLAIN right", "PLAIN wrong", "LOGIN",
             "LOGIN right", "CRAM", "MAIL", "MAIL?", "RCPT", "RCPT?", "DATA", "RSET",
             "NOOP", "QUIT"}
Texts    == Commands \cup Answers \cup {"*", ".", "text"}

ASSUME ServerAssumption ==
    /\ Mailers \subseteq Conns
    /\ Implicit \subseteq Conns
    /\ Implicit # {} => HasTls
    /\ Conns \subseteq DOMAIN Ip
    /\ Ahead \subseteq Vocabulary \X Vocabulary
    /\ Vocabulary \subseteq Texts
    /\ Policies \subseteq [user : BOOLEAN, pass : BOOLEAN]
    /\ Policies # {}
    /\ HasTls \in BOOLEAN
    /\ {MaxConns, MaxRcpt, MaxSize, MaxTrouble, SinkSize} \subseteq Nat \ {0}
    /\ MaxLines \in Nat

VARIABLES
    policy,  \* Config.auth behind the Handle, what the next connection gets
    trouble, \* TlsTrouble, the addresses whose handshake was refused
    sink,    \* the channel to the intake
    ses,     \* per connection: the session task with its State and BufReader
    net      \* per connection: what is under way between the peer and the task

serverVars == <<policy, trouble, sink, ses, net>>

Reading == {"command", "plain", "name", "pass", "cram", "data"}
Phases  == Reading \cup {"new", "handshake", "closed"}

(* A task that has not begun; its State is State::default: no sender, no    *)
(* recipients, nobody logged in.                                           *)
Fresh ==
    [from |-> 0, rcpt |-> {}, user |-> "none", phase |-> "new", tls |-> FALSE, policy |-> [user |-> FALSE, pass |-> FALSE],
     name |-> "none", size |-> 0, buf |-> <<>>,
     line |-> 0,     \* lines read so far
     began |-> 0,    \* history: the line that began the mail transaction
     shown |-> {}]   \* history: the logins shown on this layer

(* The task has ended and dropped its State and its socket; what is still   *)
(* on the way to it goes nowhere, what it said last can still be read.     *)
Over      == [Fresh EXCEPT !.phase = "closed"]
Dropped(n) == [n EXCEPT !.wire = <<>>, !.gone = "no", !.up = FALSE]

Line(text, tls) == [text |-> text, tls |-> tls]
Lines    == [text : Texts, tls : BOOLEAN]
Logins   == {"right", "wrong"} \X {"right", "wrong", "none"}

Session == [from : Nat, rcpt : SUBSET Nat, user : {"none", "right", "wrong"},
            phase : Phases, tls : BOOLEAN, policy : Policies \cup {Fresh.policy},
            name : {"none", "right", "wrong"}, size : 0 .. MaxSize + 1, buf : Seq(Lines),
            line : Nat, began : Nat, shown : SUBSET Logins]

Message == [conn : Conns, line : Nat, from : Nat, rcpt : SUBSET Nat, began : Nat,
            size : 0 .. MaxSize, tls : BOOLEAN,
            user : {"none", "right", "wrong"}, shown : SUBSET Logins,
            policy : Policies \cup {Fresh.policy}]

ServerTypeOK ==
    /\ policy \in Policies
    /\ trouble \subseteq {Ip[c] : c \in Conns}
    /\ Cardinality(trouble) <= MaxTrouble
    /\ sink \in Seq(Message)
    /\ Len(sink) <= SinkSize
    /\ \A c \in Conns :
        /\ ses[c] \in Session
        /\ ses[c].rcpt \subseteq 1 .. ses[c].line
        /\ Cardinality(ses[c].rcpt) <= MaxRcpt
        /\ net[c].wire \in Seq(Lines)
        /\ net[c].gone \in {"no", "closed", "reset"}
        /\ net[c].up \in BOOLEAN
        /\ net[c].sent \in 0 .. MaxLines

ServerInit ==
    /\ policy \in Policies
    /\ trouble = {}
    /\ sink = <<>>
    /\ ses = [c \in Conns |-> Fresh]
    /\ net = [c \in Conns |-> [up |-> c \notin Mailers, wire |-> <<>>, replies |-> <<>>,
                               gone |-> "no", sent |-> 0]]

-----------------------------------------------------------------------------
(* The peer and the network.                                               *)

(* What a device is told is up to it: only the mail client reads answers,  *)
(* until it hangs up.                                                      *)
ToldMore(c, code, starttls) ==
    IF c \in Mailers /\ net[c].gone = "no"
    THEN [net[c] EXCEPT !.replies = Append(@, [code |-> code, starttls |-> starttls])]
    ELSE net[c]
Told(c, code) == ToldMore(c, code, FALSE)

(* A device sends a line, in the clear until the handshake is done.        *)
DeviceSends(c) ==
    /\ c \notin Mailers
    /\ ses[c].phase \in Reading \cup {"handshake"}
    /\ net[c].gone = "no"
    /\ net[c].sent < MaxLines
    /\ \E text \in Vocabulary :
        /\ \/ net[c].wire = <<>>
           \/ Len(net[c].wire) = 1 /\ <<net[c].wire[1].text, text>> \in Ahead
        /\ net' = [net EXCEPT ![c].wire = Append(@, Line(text, ses[c].tls)),
                              ![c].sent = @ + 1]
    /\ UNCHANGED <<policy, trouble, sink, ses>>

(* A device hangs up: orderly, after what it sent (the order in which the  *)
(* server sees it), or with a reset, which takes what is under way along.  *)
HangsUp(c) ==
    /\ c \notin Mailers
    /\ ses[c].phase \in Reading \cup {"handshake"}
    /\ net[c].gone = "no"
    /\ \/ net[c].wire = <<>> /\ net' = [net EXCEPT ![c].gone = "closed"]
       \/ net' = [net EXCEPT ![c].gone = "reset", ![c].wire = <<>>]
    /\ UNCHANGED <<policy, trouble, sink, ses>>

-----------------------------------------------------------------------------
(* The accept loop (spawn_accept_loop) and the runtime settings.           *)

Serving == {c \in Conns : ses[c].phase \in Reading \cup {"handshake"}}

(* A connection takes a permit and the configuration of the moment, or is  *)
(* told 421 and dropped.  On the implicit-TLS port the handshake is first. *)
Accept(c) ==
    /\ ses[c].phase = "new"
    /\ net[c].up
    /\ IF Cardinality(Serving) < MaxConns
       THEN /\ ses' = [ses EXCEPT ![c].phase = IF c \in Implicit THEN "handshake" ELSE "command",
                                  ![c].policy = policy]
            /\ net' = IF c \in Implicit THEN net ELSE [net EXCEPT ![c] = Told(c, 220)]
       ELSE /\ ses' = [ses EXCEPT ![c] = Over]
            /\ net' = [net EXCEPT ![c] = Dropped(Told(c, 421))]
    /\ UNCHANGED <<policy, trouble, sink>>

(* Handle::set_runtime: later connections get the new configuration.       *)
SetRuntime ==
    /\ policy' \in Policies \ {policy}
    /\ UNCHANGED <<trouble, sink, ses, net>>

-----------------------------------------------------------------------------
(* Reading and answering.  Lines are read one by one; how many more of     *)
(* them the BufReader holds already matters at STARTTLS only, and it is    *)
(* settled there.                                                          *)

Input(c) == ses[c].buf \o net[c].wire
Text(c) == Head(Input(c)).text
Reads(c, phase) == ses[c].phase = phase /\ Input(c) # <<>>
Command(c, texts) == Reads(c, "command") /\ Text(c) \in texts

(* One line is consumed, and the session goes on as `new`.                 *)
Consumed(new)   == [new EXCEPT !.line = @ + 1, !.buf = IF @ = <<>> THEN @ ELSE Tail(@)]
Unread(c, n)    == [n EXCEPT !.wire = IF ses[c].buf = <<>> THEN Tail(@) ELSE @]
Answer(c, code, new) ==
    /\ ses' = [ses EXCEPT ![c] = Consumed(new)]
    /\ net' = [net EXCEPT ![c] = Unread(c, Told(c, code))]

ResetEnvelope(s) == [s EXCEPT !.from = 0, !.rcpt = {}]

Begin(s) == [s EXCEPT !.began = s.line + 1]

Offered(c) == HasTls /\ ~ ses[c].tls /\ Ip[c] \notin trouble

(* EHLO and HELO.                                                          *)
Hello(c) ==
    /\ Command(c, {"HELLO"})
    /\ ses' = [ses EXCEPT ![c] = Consumed(Begin(ResetEnvelope(ses[c])))]
    /\ net' = [net EXCEPT ![c] = Unread(c, ToldMore(c, 250, Offered(c)))]
    /\ UNCHANGED <<policy, trouble, sink>>

Reset(c) ==
    /\ Command(c, {"RSET"})
    /\ Answer(c, 250, Begin(ResetEnvelope(ses[c])))
    /\ UNCHANGED <<policy, trouble, sink>>

(* NOOP, VRFY, HELP, blank and unknown lines, an AUTH without a mechanism   *)
(* or with one that is not there: answered by their codes (500 here).      *)
Nothing(c) ==
    /\ Command(c, Texts \ (Commands \ {"NOOP", "AUTH?"}))
    /\ Answer(c, 500, ses[c])
    /\ UNCHANGED <<policy, trouble, sink>>

Quit(c) ==
    /\ Command(c, {"QUIT"})
    /\ ses' = [ses EXCEPT ![c] = Over]
    /\ net' = [net EXCEPT ![c] = Dropped(Told(c, 221))]
    /\ UNCHANGED <<policy, trouble, sink>>

-----------------------------------------------------------------------------
(* TLS: STARTTLS, and accept_tls.                                          *)

(* (Slip: what was read ahead in the clear is kept for the new session.)   *)
AheadKept(lines) == lines

(* The BufReader goes, with all it read ahead.                             *)
AheadDropped(lines) == <<>>

(* After 220 `run` returns; of the lines that follow, some were read ahead *)
(* and the rest is still in the socket.                                    *)
StartTls(c) ==
    /\ Command(c, {"STARTTLS"})
    /\ IF Offered(c)
       THEN \E k \in 1 .. Len(Input(c)) :
            /\ ses' = [ses EXCEPT ![c] = [Consumed(@) EXCEPT
                           !.phase = "handshake", !.buf = AheadDropped(SubSeq(Input(c), 2, k))]]
            /\ net' = [net EXCEPT ![c] = [Told(c, 220) EXCEPT
                           !.wire = SubSeq(Input(c), k + 1, Len(Input(c)))]]
       ELSE Answer(c, IF ses[c].tls THEN 503 ELSE 454, ses[c])
    /\ UNCHANGED <<policy, trouble, sink>>

(* The encrypted session starts with State::default.                       *)
StartOver(s) == [s EXCEPT !.from = 0, !.rcpt = {}, !.user = "none"]

(* The handshake works out only if nothing but it is on the wire: a line   *)
(* sent in the clear and not read ahead is no ClientHello.                 *)
HandshakeDone(c) ==
    /\ ses[c].phase = "handshake"
    /\ net[c].wire = <<>>
    /\ net[c].gone = "no"
    /\ ses' = [ses EXCEPT ![c] = [StartOver(@) EXCEPT !.phase = "command", !.tls = TRUE,
                                  !.began = ses[c].line, !.shown = {}]]
    /\ net' = IF c \in Implicit THEN [net EXCEPT ![c] = Told(c, 220)] ELSE net
    /\ UNCHANGED <<policy, trouble, sink>>

(* handshake_failed: rustls refused it and the address is remembered, or   *)
(* the connection broke (or the legacy stack failed) and it is not.        *)
HandshakeFailed(c) ==
    /\ ses[c].phase = "handshake"
    /\ trouble' \in {trouble,
                     {Ip[c]} \cup IF Cardinality(trouble) >= MaxTrouble THEN {} ELSE trouble}
    /\ ses' = [ses EXCEPT ![c] = Over]
    /\ net' = [net EXCEPT ![c] = Dropped(@)]
    /\ UNCHANGED <<policy, sink>>

-----------------------------------------------------------------------------
(* AUTH (handle_auth, read_auth_line).                                     *)

NameIn(answer) == IF answer \in {"right", "name"} THEN "right" ELSE "wrong"
PassIn(answer) == IF answer = "right" THEN "right" ELSE "wrong"

RequiresAuth(p) == p.user \/ p.pass

(* (Slip: a password that was not given is not checked.)                   *)
CredentialsOkIfGiven(p, name, pass) ==
    /\ p.user => name = "right"
    /\ p.pass => pass \in {"right", "none"}

CredentialsOk(p, name, pass) ==
    /\ p.user => name = "right"
    /\ p.pass => pass = "right"

(* 235 and a user, or 535 and the user there was before.                   *)
Conclude(c, name, pass) ==
    LET ok == CredentialsOk(ses[c].policy, name, pass)
        s  == [ses[c] EXCEPT !.phase = "command", !.name = "none",
                             !.shown = @ \cup {<<name, pass>>}]
    IN  Answer(c, IF ok THEN 235 ELSE 535, IF ok THEN [s EXCEPT !.user = name] ELSE s)

(* What a mechanism asks for first, with a first answer or without.        *)
Asks == [t \in {"PLAIN", "LOGIN", "LOGIN right", "CRAM"} |->
            CASE t = "PLAIN" -> "plain" [] t = "LOGIN" -> "name"
              [] t = "LOGIN right" -> "pass" [] t = "CRAM" -> "cram"]

AuthAsks(c) ==
    /\ Command(c, DOMAIN Asks)
    /\ Answer(c, 334, [ses[c] EXCEPT !.phase = Asks[Text(c)],
                          !.name = IF Text(c) = "LOGIN right" THEN "right" ELSE "none"])
    /\ UNCHANGED <<policy, trouble, sink>>

AuthAtOnce(c) ==
    /\ Command(c, {"PLAIN right", "PLAIN wrong"})
    /\ LET given == IF Text(c) = "PLAIN right" THEN "right" ELSE "wrong"
       IN  Conclude(c, given, given)
    /\ UNCHANGED <<policy, trouble, sink>>

(* The answer to a 334: whatever the line is, it is taken for credentials. *)
AuthAnswer(c) ==
    /\ UNCHANGED <<policy, trouble, sink>>
    /\ Input(c) # <<>>
    /\ IF Text(c) = "*"
       THEN /\ ses[c].phase \in {"plain", "name", "pass", "cram"}
            /\ Answer(c, 501, [ses[c] EXCEPT !.phase = "command", !.name = "none"])
       ELSE \/ ses[c].phase = "plain" /\ Conclude(c, NameIn(Text(c)), PassIn(Text(c)))
            \/ ses[c].phase = "pass" /\ Conclude(c, ses[c].name, PassIn(Text(c)))
            \/ ses[c].phase = "cram" /\ Conclude(c, NameIn(Text(c)), "none")
            \/ /\ ses[c].phase = "name"
               /\ Answer(c, 334, [ses[c] EXCEPT !.phase = "pass", !.name = NameIn(Text(c))])

-----------------------------------------------------------------------------
(* The envelope and the message.                                           *)

Barred(c) == RequiresAuth(ses[c].policy) /\ ses[c].user = "none"

Refuse530(c) ==
    /\ Command(c, {"MAIL", "MAIL?", "RCPT", "RCPT?", "DATA"})
    /\ Barred(c)
    /\ Answer(c, 530, ses[c])
    /\ UNCHANGED <<policy, trouble, sink>>

(* (Slip: a new sender keeps the recipients of the one before.)            *)
MailFromKept(c) ==
    /\ Command(c, {"MAIL"})
    /\ ~ Barred(c)
    /\ Answer(c, 250, Begin([ses[c] EXCEPT !.from = ses[c].line + 1]))
    /\ UNCHANGED <<policy, trouble, sink>>

MailFrom(c) ==
    /\ Command(c, {"MAIL"})
    /\ ~ Barred(c)
    /\ Answer(c, 250, Begin([ses[c] EXCEPT !.from = ses[c].line + 1, !.rcpt = {}]))
    /\ UNCHANGED <<policy, trouble, sink>>

(* (Slip: recipients without end.)                                         *)
RcptToAll(c) ==
    /\ Command(c, {"RCPT"})
    /\ ~ Barred(c)
    /\ Answer(c, 250, [ses[c] EXCEPT !.rcpt = @ \cup {ses[c].line + 1}])
    /\ UNCHANGED <<policy, trouble, sink>>

RcptTo(c) ==
    /\ Command(c, {"RCPT"})
    /\ ~ Barred(c)
    /\ IF Cardinality(ses[c].rcpt) >= MaxRcpt
       THEN Answer(c, 452, ses[c])
       ELSE Answer(c, 250, [ses[c] EXCEPT !.rcpt = @ \cup {ses[c].line + 1}])
    /\ UNCHANGED <<policy, trouble, sink>>

BadAddress(c) ==
    /\ Command(c, {"MAIL?", "RCPT?"})
    /\ ~ Barred(c)
    /\ Answer(c, 501, ses[c])
    /\ UNCHANGED <<policy, trouble, sink>>

Data(c) ==
    /\ Command(c, {"DATA"})
    /\ ~ Barred(c)
    /\ Answer(c, 354, [ses[c] EXCEPT !.phase = "data", !.size = 0])
    /\ UNCHANGED <<policy, trouble, sink>>

(* read_data: a line over the limit makes the message too big for good.    *)
BodyLine(c) ==
    /\ Reads(c, "data")
    /\ Text(c) # "."
    /\ ses' = [ses EXCEPT ![c] = [Consumed(ses[c]) EXCEPT
                  !.size = IF @ > MaxSize THEN @ ELSE @ + 1]]
    /\ net' = [net EXCEPT ![c] = Unread(c, @)]
    /\ UNCHANGED <<policy, trouble, sink>>

MessageOf(c) ==
    [conn |-> c, line |-> ses[c].line, from |-> ses[c].from, rcpt |-> ses[c].rcpt,
     began |-> ses[c].began, size |-> ses[c].size, tls |-> ses[c].tls,
     user |-> ses[c].user, shown |-> ses[c].shown, policy |-> ses[c].policy]

(* (Slip: a message that finds the channel full is accepted all the same.) *)
VerdictRegardless(c) == IF ses[c].size > MaxSize THEN 552 ELSE 250

(* What DATA answers: too big, accepted, or the channel is full.  (Closed  *)
(* never is the answer: the intake holds its end as long as the process.)  *)
Verdict(c) ==
    IF ses[c].size > MaxSize THEN 552
    ELSE IF Len(sink) < SinkSize THEN 250 ELSE 451

(* The body is over; `new` and `rest` are the two ends without its last    *)
(* line.                                                                   *)
Deliver(c, new, rest) ==
    /\ sink' = IF Verdict(c) = 250 /\ Len(sink) < SinkSize
               THEN Append(sink, MessageOf(c)) ELSE sink
    /\ ses' = [ses EXCEPT ![c] = [ResetEnvelope(new) EXCEPT
                  !.phase = "command", !.size = 0, !.began = new.line]]
    /\ net' = [net EXCEPT ![c] = rest]
    /\ UNCHANGED <<policy, trouble>>

FinalDot(c) ==
    /\ Reads(c, "data")
    /\ Text(c) = "."
    /\ Deliver(c, Consumed(ses[c]), Unread(c, Told(c, Verdict(c))))

-----------------------------------------------------------------------------
(* The input ends.                                                         *)

Drained(c) == ses[c].phase \in Reading /\ Input(c) = <<>>

Closes(c, told) ==
    /\ ses' = [ses EXCEPT ![c] = Over]
    /\ net' = [net EXCEPT ![c] = Dropped(told)]
    /\ UNCHANGED <<policy, trouble, sink>>

(* End of file, and no line within the timeout: a command or an answer to   *)
(* AUTH ends the session, a body ends as if the final dot had come.        *)
EndOfInput(c) ==
    /\ Drained(c)
    /\ net[c].gone = "closed"
    /\ IF ses[c].phase = "data" THEN Deliver(c, ses[c], Told(c, Verdict(c))) ELSE Closes(c, net[c])

(* (Slip: only the wait for a command has an end.)                         *)
TimeoutOfCommands(c) ==
    /\ Drained(c)
    /\ net[c].gone = "no"
    /\ ses[c].phase = "command"
    /\ Closes(c, Told(c, 421))

Timeout(c) ==
    /\ Drained(c)
    /\ net[c].gone = "no"
    /\ IF ses[c].phase = "data" THEN Deliver(c, ses[c], Told(c, Verdict(c)))
       ELSE Closes(c, IF ses[c].phase = "command" THEN Told(c, 421) ELSE net[c])

(* A read fails: `?` ends the session, and with it the body at hand.       *)
ReadError(c) ==
    /\ Drained(c)
    /\ net[c].gone = "reset"
    /\ Closes(c, net[c])

-----------------------------------------------------------------------------
Dialog(c) ==
    \/ Hello(c) \/ Reset(c) \/ Nothing(c) \/ Quit(c) \/ StartTls(c)
    \/ AuthAsks(c) \/ AuthAtOnce(c) \/ AuthAnswer(c) \/ Refuse530(c) \/ MailFrom(c) \/ RcptTo(c) \/ BadAddress(c)
    \/ Data(c) \/ BodyLine(c) \/ FinalDot(c)
    \/ EndOfInput(c) \/ Timeout(c) \/ ReadError(c)

ServerNext ==
    \/ SetRuntime
    \/ \E c \in Conns : \/ DeviceSends(c) \/ HangsUp(c)
                        \/ Accept(c) \/ HandshakeDone(c) \/ HandshakeFailed(c) \/ Dialog(c)
=============================================================================
