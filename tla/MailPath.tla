------------------------------ MODULE MailPath ------------------------------
(***************************************************************************)
(* The way of a message through stmp2log: devices and stmp2log's own mail  *)
(* client talk to the SMTP server (SmtpServer, MailClient), the server     *)
(* puts what it accepts on a bounded channel, and the intake stores it and *)
(* pushes it to another instance (Intake).                                 *)
(***************************************************************************)
EXTENDS SmtpServer

CONSTANTS Encryption, Tries, Login, Recipients,              \* see MailClient
          Nodes, Here, HostName, Targets, PushLimit, MaxLost, \* see Intake
          FewLines, \* bound: lines a device has said when the mail client dials
          PushLines, PushWords \* bound: how many it says, and which, where messages are pushed

ASSUME PathAssumption ==
    /\ \A e \in Encryption : Tries[e] \in Seq(Mailers)
    /\ \A e \in Encryption : ToSet(Tries[e]) \subseteq Implicit <=> e = "tls"

VARIABLES mail, taken, shelf, aside, pushUrl, pushes, lost

intakeOnly == <<taken, shelf, aside, pushUrl, pushes, lost>>
vars == <<serverVars, mail, intakeOnly>>

C == INSTANCE MailClient WITH ended <- {c \in Conns : ses[c].phase = "closed"}
I == INSTANCE Intake

ASSUME PartsAssumption == C!ClientAssumption /\ I!IntakeAssumption

Init ==
    /\ ServerInit
    /\ C!MailInit
    /\ I!IntakeInit

(* The bounds on what devices say, so that not every dialog is crossed with *)
(* everything else that can go on.                                         *)
Pushing == pushes # {} \/ \E n \in Nodes : pushUrl[n] # "off"
Devices == Conns \ Mailers
Within(n) == \A c \in Devices : net[c].sent <= n
At(phases) == \A c \in Devices : ses[c].phase \in phases

(* The mail client, the handshake excepted, which is a step of both ends.  *)
Mailing ==
    /\ C!MailNext
    /\ mail.step = "idle" =>
           /\ ~ Pushing
           /\ \/ mail'.encryption = "starttls" /\ Within(FewLines) /\ At({"closed"})
              \/ Within(0) /\ At({"new", "command"})
    /\ UNCHANGED <<policy, trouble, sink, ses, intakeOnly>>

Handshake(c) ==
    /\ IF c \in Mailers
       THEN mail.try > 0 /\ c = C!Conn /\ C!Upgraded(HandshakeDone(c))
       ELSE HandshakeDone(c) /\ UNCHANGED mail
    /\ UNCHANGED intakeOnly

Peer(c) ==
    /\ mail.step = "idle"
    /\ \/ /\ DeviceSends(c)
          /\ Pushing => /\ Within(PushLines)'
                        /\ \A l \in ToSet(net'[c].wire) : l.text \in PushWords
       \/ HangsUp(c)
    /\ UNCHANGED <<mail, intakeOnly>>

Lobby(c) ==
    /\ \/ Accept(c) /\ (c \notin Mailers => mail.step = "idle")
       \/ HandshakeFailed(c)
    /\ UNCHANGED <<mail, intakeOnly>>

(* Bound: push_url changes while a push is under way.                      *)
Taking ==
    /\ I!IntakeNext
    /\ pushUrl' # pushUrl => pushes # {}
    /\ UNCHANGED <<policy, trouble, ses, net, mail>>

(* Bound: settings change while no connection is open.  One that is open   *)
(* has read what it needs of them, so a change commutes with its steps.    *)
SetUp ==
    /\ SetRuntime
    /\ Serving = {}
    /\ mail.step = "idle"
    /\ UNCHANGED <<mail, intakeOnly>>

(* What the runtime is bound to do: serve a connection that is being read. *)
Serve(c) == Dialog(c) /\ UNCHANGED <<mail, intakeOnly>>

Next ==
    \/ Mailing \/ Taking
    \/ SetUp
    \/ \E c \in Conns : Serve(c) \/ Handshake(c) \/ Peer(c) \/ Lobby(c)

Fairness == \A c \in Devices : WF_vars(Serve(c))

Spec == Init /\ [][Next]_vars /\ Fairness

-----------------------------------------------------------------------------
TypeOK == ServerTypeOK /\ C!MailTypeOK /\ I!IntakeTypeOK

(* Every message this node accepted by mail, wherever it is by now.        *)
Accepted == ToSet(sink) \cup ToSet(taken)
            \cup {r.msg : r \in {x \in ToSet(shelf[Here]) : x.origin = ""}}
            \cup {x.msg : x \in {y \in aside : y.node = Here /\ y.origin = ""}}

(* A message is made of one mail transaction: its sender and all of its    *)
(* recipients were given after the last EHLO, RSET, MAIL, message or TLS   *)
(* handshake, whatever came in between and however often.                  *)
EnvelopeOfOneTransaction ==
    \A msg \in Accepted : \A line \in msg.rcpt \cup ({msg.from} \ {0}) :
        msg.began <= line /\ line < msg.line

(* Nothing that arrived in the clear is read as part of the encrypted      *)
(* session, so nobody can put commands in front of it.                     *)
PlaintextStaysOut ==
    \A c \in Conns : ses[c].phase \in Reading =>
        \A l \in ToSet(Input(c)) : l.tls = ses[c].tls

(* A message says truly who sent it: the login it names was shown on the   *)
(* same connection and the same layer, and whatever of it the server's     *)
(* policy checks was right.                                                *)
LoginOfThisSession ==
    \A msg \in Accepted :
        msg.user # "none" \/ msg.policy.user \/ msg.policy.pass =>
            \E login \in msg.shown : /\ login[1] = msg.user
                                     /\ msg.policy.user => login[1] = "right"
                                     /\ msg.policy.pass => login[2] = "right"

(* With encryption asked for, the mail client says nothing in the clear    *)
(* but EHLO and STARTTLS, whatever the server offers or refuses.           *)
NoDowngrade ==
    mail.encryption # "none" =>
        \A c \in Mailers : \A l \in ToSet(net[c].wire \o ses[c].buf) :
            l.tls \/ l.text \in {"HELLO", "STARTTLS"}

(* What an attempt to mail an alert ends with is true: "yes" means that    *)
(* the server accepted the message for all recipients, a refusal that it   *)
(* has nothing of it.  Only an attempt that broke off or ran out of time   *)
(* may have been accepted and be repeated.                                 *)
AttemptsTellTheTruth ==
    \A k \in 1 .. mail.try :
        LET got == {msg \in Accepted : msg.conn = C!ConnOf(k)}
        IN  /\ mail.result[k] = "yes" =>
                   \E msg \in got : Cardinality(msg.rcpt) = Recipients
            /\ got # {} => mail.result[k] \in {"yes", "none", "timeout", "io", "protocol"}

(* The intake stores the messages of a connection in the order the server  *)
(* accepted them.                                                          *)
StoredInOrder ==
    \A i, j \in DOMAIN shelf[Here] :
        LET a == shelf[Here][i]  b == shelf[Here][j]
        IN  a.origin = "" /\ b.origin = "" /\ a.msg.conn = b.msg.conn /\ i < j =>
                a.msg.line < b.msg.line

(* Instances that push at each other do not send a message round: on all   *)
(* nodes together there is one copy at most that counts as mailed, and one *)
(* that was pushed, with one more for every answer that got lost.          *)
NoForwardingLoop ==
    \A msg \in Accepted :
        LET copies == I!Copies(I!Key(msg))
        IN  /\ Cardinality({x \in copies : shelf[x[1]][x[2]].origin = ""}) <= 1
            /\ Cardinality(copies) <= 2 + Cardinality(I!LostOf(I!Key(msg)))

(* A connection the server reads from does not keep its slot for ever:     *)
(* once its peer has no more to say it is closed (or goes over to a TLS    *)
(* handshake, which has no limit of time).                                 *)
SlotComesBack ==
    \A c \in Devices : ses[c].phase \in Reading ~> ses[c].phase \notin Reading
=============================================================================
