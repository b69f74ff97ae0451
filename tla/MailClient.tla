----------------------------- MODULE MailClient -----------------------------
(***************************************************************************)
(* How stmp2log mails an alert (s2l-notify, smtp.rs): the dialog of        *)
(* `converse` on one connection, the time limit `send` puts around it, and *)
(* the attempts `deliver` makes, each on a connection of its own.          *)
(*                                                                         *)
(* The client waits for every answer before it goes on.  It shares net     *)
(* with the server: it appends lines to a connection's wire and takes the  *)
(* answers from its replies.                                               *)
(***************************************************************************)
EXTENDS Naturals, Sequences, TLC

CONSTANTS
    Encryption, \* the channel's encryption: "none", "starttls" or "tls"
    Tries,      \* per encryption: the connections of the attempts, in order
    Login,      \* "none", "right" or "wrong": the account the channel has
    Recipients  \* how many

(* Assumed by the module that instantiates this one.                       *)
ClientAssumption ==
    /\ Encryption \subseteq {"none", "starttls", "tls"}
    /\ \A e \in Encryption : Tries[e] # <<>>
    /\ \A e \in Encryption : \A i, j \in DOMAIN Tries[e] : i # j => Tries[e][i] # Tries[e][j]
    /\ Login \subseteq {"none", "right", "wrong"}
    /\ Recipients \in Nat \ {0}

VARIABLES
    net,   \* see SmtpServer
    ended, \* the connections whose server side is over
    mail   \* the client

Waiting == {"greeting", "hello", "helo", "starttls", "auth", "from", "rcpt", "data", "body"}
Steps   == Waiting \cup {"idle", "connecting", "tls", "upgraded", "dot", "quit", "failed", "done"}

(* What became of an attempt.  "yes" is Ok, the rest are SmtpErrors:       *)
(* Connect/Resolve, Tls, NoStartTls, Refused 4xx, Refused 5xx, Io, Timeout *)
(* and Protocol (the server hung up).                                      *)
Results == {"none", "yes", "connect", "tls", "noStartTls", "refused4", "refused5",
            "io", "timeout", "protocol"}
Retryable == {"connect", "refused4", "io", "timeout"}

MailTypeOK ==
    /\ mail.step \in Steps
    /\ mail.step # "idle" => mail.encryption \in Encryption /\ mail.login \in Login
    /\ mail.try \in 0 .. Len(mail.result)
    /\ mail.tls \in BOOLEAN
    /\ mail.to \in 0 .. Recipients
    /\ mail.result \in Seq(Results)

Idle == [step |-> "idle", try |-> 0, tls |-> FALSE, to |-> 0, encryption |-> "none",
         login |-> "none", result |-> <<>>]

MailInit == mail = Idle

(* The connection of the n-th attempt.                                     *)
ConnOf(n) == Tries[mail.encryption][n]
Conn == ConnOf(mail.try)

-----------------------------------------------------------------------------
(* A line goes out; the client then is at `step`, with `heard` yet to read. *)
Says(text, step, heard) ==
    /\ mail' = [mail EXCEPT !.step = step]
    /\ net' = [net EXCEPT ![Conn].wire = IF Conn \in ended THEN @
                   ELSE Append(@, [text |-> text, tls |-> mail.tls]),
                          ![Conn].replies = heard]

(* ... in reply to an answer, or while none is due.                        *)
Sends(text, step) == Says(text, step, Tail(net[Conn].replies))
SaysMore(text, step) == Says(text, step, net[Conn].replies)

(* The socket is dropped; the server reads what is on the way, and then    *)
(* the end.                                                                *)
HangUp == [net EXCEPT ![Conn].replies = <<>>,
                      ![Conn].up = FALSE,
                      ![Conn].gone = IF Conn \in ended THEN @ ELSE "closed"]

(* The attempt is over.  deliver tries again after a failure that is worth *)
(* it, as long as attempts are left.                                       *)
EndTry(result) ==
    mail' = [mail EXCEPT !.result[mail.try] = result,
                         !.step = IF result \in Retryable /\ mail.try < Len(Tries[mail.encryption])
                                  THEN "failed" ELSE "done"]

Fails(result) == EndTry(result) /\ net' = HangUp

(* The alert is due for the channel as it is now; resolve and connect.     *)
Dial ==
    /\ mail.step = "idle"
    /\ \E e \in Encryption, l \in Login :
        /\ mail' = [mail EXCEPT !.try = 1, !.step = "connecting", !.encryption = e, !.login = l,
                                !.result = [k \in 1 .. Len(Tries[e]) |-> "none"]]
        /\ net' = [net EXCEPT ![Tries[e][1]].up = TRUE]

(* The next attempt, after its backoff.                                    *)
DialAgain ==
    /\ mail.step = "failed"
    /\ mail' = [mail EXCEPT !.try = @ + 1, !.step = "connecting", !.tls = FALSE, !.to = 0]
    /\ net' = [net EXCEPT ![ConnOf(mail.try + 1)].up = TRUE]

Connected ==
    /\ mail.step = "connecting"
    /\ mail' = [mail EXCEPT !.step = IF mail.encryption = "tls" THEN "tls" ELSE "greeting"]
    /\ UNCHANGED net

NoConnection ==
    /\ mail.step = "connecting"
    /\ Fails("connect")

(* The handshake, on both sides at once: `server` is what the server does. *)
Upgraded(server) ==
    /\ mail.step = "tls"
    /\ server
    /\ mail' = [mail EXCEPT !.tls = TRUE,
                            !.step = IF mail.encryption = "tls" THEN "greeting" ELSE "upgraded"]

NotUpgraded ==
    /\ mail.step = "tls"
    /\ Fails("tls")

-----------------------------------------------------------------------------
Answered(codes) == net[Conn].replies # <<>> /\ Head(net[Conn].replies).code \in codes
Offered == Head(net[Conn].replies).starttls

LogsIn ==
    IF mail.login = "none" THEN Sends("MAIL", "from")
    ELSE Sends(IF mail.login = "right" THEN "PLAIN right" ELSE "PLAIN wrong", "auth")

(* (Slip: no STARTTLS on offer, so the client does without.)               *)
AfterHelloAnyway ==
    IF mail.encryption = "starttls" /\ ~ mail.tls /\ Offered
    THEN Sends("STARTTLS", "starttls") ELSE LogsIn

(* After the capabilities: STARTTLS if the channel wants it and is not     *)
(* encrypted yet, an account's login, or straight to the envelope.  The    *)
(* server here always offers PLAIN, which auth() prefers.                  *)
AfterHello ==
    IF mail.encryption = "starttls" /\ ~ mail.tls
    THEN IF Offered THEN Sends("STARTTLS", "starttls") ELSE Fails("noStartTls")
    ELSE LogsIn

Greeted    == mail.step = "greeting" /\ Answered({220}) /\ Sends("HELLO", "hello")
HelloAgain == mail.step = "upgraded" /\ SaysMore("HELLO", "hello")
Helloed    == mail.step = "hello" /\ Answered({250}) /\ AfterHello

(* A refused EHLO is followed by a HELO.  This server refuses one only by   *)
(* the 421 of a timeout, so nothing comes of it.                           *)
HelloRefused == mail.step = "hello" /\ Answered(400 .. 599) /\ Sends("HELLO", "helo")

(* The reader is dropped with what it holds, then the handshake begins.    *)
TlsGranted ==
    /\ mail.step = "starttls"
    /\ Answered({220})
    /\ mail' = [mail EXCEPT !.step = "tls"]
    /\ net' = [net EXCEPT ![Conn].replies = <<>>]

LoggedIn == mail.step = "auth" /\ Answered({235}) /\ Sends("MAIL", "from")

(* One RCPT after the other, then DATA.                                    *)
ToRecipients ==
    /\ mail.step \in {"from", "rcpt"}
    /\ Answered({250})
    /\ IF mail.to < Recipients
       THEN /\ mail' = [mail EXCEPT !.step = "rcpt", !.to = @ + 1]
            /\ net' = [net EXCEPT ![Conn].replies = Tail(@),
                          ![Conn].wire = IF Conn \in ended THEN @
                              ELSE Append(@, [text |-> "RCPT", tls |-> mail.tls])]
       ELSE Sends("DATA", "data")

(* write_message: the lines (base64, so none begins with a dot), the dot.  *)
Body == mail.step = "data" /\ Answered({354}) /\ Sends("text", "dot")
Dot  == mail.step = "dot" /\ SaysMore(".", "body")

(* The message is accepted; QUIT is sent and its answer does not matter.   *)
Accepted == mail.step = "body" /\ Answered({250}) /\ Sends("QUIT", "quit")

(* The answer to QUIT, or the end of the connection.                       *)
Finished ==
    /\ mail.step = "quit"
    /\ net[Conn].replies # <<>> \/ Conn \in ended
    /\ Fails("yes")

-----------------------------------------------------------------------------
Refused ==
    /\ mail.step \in Waiting \ {"hello"}
    /\ \/ Answered(400 .. 499) /\ Fails("refused4")
       \/ Answered(500 .. 599) /\ Fails("refused5")

(* The server's end of the connection is over: after its last answer that  *)
(* is a Protocol error; to a client that writes, or if the connection is   *)
(* broken and answers are lost with it, an Io error.                       *)
EndOfAnswers ==
    /\ mail.step \in Waiting \cup {"upgraded", "dot"}
    /\ Conn \in ended
    /\ \/ mail.step \in Waiting /\ net[Conn].replies = <<>> /\ Fails("protocol")
       \/ Fails("io")

(* The limit `send` puts around the whole dialog, QUIT included, runs out. *)
OutOfTime ==
    /\ mail.step \notin {"idle", "failed", "done"}
    /\ Fails("timeout")

MailNext ==
    \/ Dial \/ DialAgain \/ Connected \/ NoConnection \/ NotUpgraded
    \/ Greeted \/ HelloAgain \/ Helloed \/ HelloRefused \/ TlsGranted \/ LoggedIn \/ ToRecipients
    \/ Body \/ Dot \/ Accepted \/ Finished \/ Refused \/ EndOfAnswers \/ OutOfTime
=============================================================================
