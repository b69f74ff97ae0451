------------------------------ MODULE Replies ------------------------------
(***************************************************************************)
(* A notification over HTTP: the request that a channel makes              *)
(* (s2l-notify/src/providers.rs, build), the exchanges and redirects       *)
(* (http.rs), what the reply is taken for (check), and the attempts        *)
(* (lib.rs, deliver).  The channel for mail is in MailClient.              *)
(*                                                                         *)
(* A script says what each exchange meets, in their order; the last goes   *)
(* on for ever.  An entry says how far the connection comes, and of the    *)
(* reply its status, its location, its JSON fields, how it is framed, how  *)
(* many pieces of it arrive, and whether the connection ends abruptly.     *)
(*                                                                         *)
(* A definition marked "Slip" is no part of the model.                     *)
(***************************************************************************)
EXTENDS Integers, SequencesExt

CONSTANTS
    Attempts,     \* DEFAULT_ATTEMPTS, 3
    MaxRedirects, \* 3
    MaxBody       \* MAX_BODY, in pieces

(* Assumed by the module that instantiates this one.                       *)
RepliesAssumption == Attempts \in Nat \ {0} /\ MaxRedirects \in Nat /\ MaxBody \in Nat \ {0}

Kinds == {"ntfy", "bark", "telegram", "dingtalk", "feishu", "wecom", "serverchan", "aliyunsms"}

Null    == [none |-> TRUE] \* no JSON, and so none of its fields
Nowhere == [kind |-> "none"]
BadUrl  == [host |-> "", path |-> <<>>]

-----------------------------------------------------------------------------
(* The request.  Some kinds take title and body apart, some in one text,   *)
(* and the text message has only the first characters of the title.        *)

Joined(payload) ==
    IF payload.title = <<>> THEN <<payload.body>>
    ELSE IF payload.body = <<>> THEN <<payload.title>> ELSE <<payload.title, payload.body>>

Content(kind, payload) ==
    IF kind \in {"ntfy", "bark", "serverchan"} THEN {payload.title, payload.body}
    ELSE IF kind = "aliyunsms"
    THEN {SubSeq(payload.title, 1, IF Len(payload.title) < 2 THEN Len(payload.title) ELSE 2)}
    ELSE ToSet(Joined(payload))

Build(kind, payload) ==
    [method |-> "POST", url |-> [host |-> kind, path |-> <<"a", "b">>], content |-> Content(kind, payload)]

-----------------------------------------------------------------------------
(* One exchange.                                                           *)

Pieces(m) == <<"{", m.fields, "}">> \o [i \in 1 .. m.blanks |-> " "]

(* The reply on the wire, its head in one piece; two chunks, if chunked.   *)
Wire(m) ==
    LET body == Pieces(m)
        rest == SubSeq(body, 3, Len(body))
        Size(n) == <<[size |-> n]>>
    IN  <<"head">> \o IF ~ m.chunked THEN body
                      ELSE Size(2) \o SubSeq(body, 1, 2) \o Size(Len(rest)) \o rest \o Size(0)

Arrived(m) == SubSeq(Wire(m), 1, IF m.pieces < Len(Wire(m)) THEN m.pieces ELSE Len(Wire(m)))

Error(what) == [error |-> what]

Failed(result) == "error" \in DOMAIN result

(* The loop of dechunk: left is to be read, out is the body so far.        *)
Chunks(left, out, end) == [left |-> left, out |-> out, end |-> end]

Data(s) == SubSeq(s.left, 2, Head(s.left).size + 1)
AfterData(s) == SubSeq(s.left, Head(s.left).size + 2, Len(s.left))

(* (Slip: takes what is there.)                                            *)
ChunkThatCame(s) ==
    IF s.end # "no" THEN s
    ELSE IF s.left = <<>> \/ Head(s.left).size = 0 THEN Chunks(s.left, s.out, "done")
    ELSE IF Len(s.out) + Head(s.left).size > MaxBody THEN Chunks(s.left, s.out, "oversize")
    ELSE IF Len(s.left) <= Head(s.left).size THEN Chunks(<<>>, s.out \o Tail(s.left), "done")
    ELSE Chunks(AfterData(s), s.out \o Data(s), "no")

Chunk(s) ==
    IF s.end # "no" THEN s
    ELSE IF s.left = <<>> THEN Chunks(s.left, s.out, "unterminated")
    ELSE IF Head(s.left).size = 0 THEN Chunks(s.left, s.out, "done")
    ELSE IF Len(s.out) + Head(s.left).size > MaxBody THEN Chunks(s.left, s.out, "oversize")
    ELSE IF Len(s.left) <= Head(s.left).size THEN Chunks(s.left, s.out, "truncated")
    ELSE Chunks(AfterData(s), s.out \o Data(s), "no")

(* Each chunk takes something from what is left, and then there is the end.*)
LastChunk(buf) ==
    LET at[i \in 0 .. Len(buf) + 1] == IF i = 0 THEN Chunks(buf, <<>>, "no") ELSE Chunk(at[i - 1])
    IN  at[Len(buf) + 1]

BodyOf(s) == IF s.end = "done" THEN [body |-> s.out] ELSE Error(s.end)

Dechunk(buf) == BodyOf(LastChunk(buf))

WithBody(m, body) ==
    IF Failed(body) THEN body
    ELSE [status |-> m.status, body |-> body.body,
          location |-> IF m.status \in 300 .. 399 THEN m.location ELSE Nowhere]

(* parse_response: without the chunks, a body ends where the reply does.   *)
ParseResponse(m) ==
    IF Arrived(m) = <<>> THEN Error("incomplete")
    ELSE WithBody(m, IF m.chunked THEN Dechunk(Tail(Arrived(m))) ELSE [body |-> Tail(Arrived(m))])

(* once and exchange.  What comes is read until the connection ends,       *)
(* whatever the reply says of its own length: of one that stays open, the  *)
(* time limit is the end (send).  An abrupt end is like any other, after a *)
(* first piece.                                                            *)
Ends == {"closed", "abrupt", "open"}

Exchange(url, m) ==
    IF url = BadUrl THEN Error("badurl")
    ELSE IF m.comes # "reply" THEN Error(m.comes)
    ELSE IF Len(Arrived(m)) > MaxBody THEN Error("oversize")
    ELSE IF m.ends = "open" THEN Error("timeout")
    ELSE IF m.ends = "abrupt" /\ m.pieces = 0 THEN Error("io")
    ELSE ParseResponse(m)

Absolutize(base, location) ==
    CASE location.kind = "absolute" -> location.url
      [] location.kind = "rooted"   -> [base EXCEPT !.path = location.path]
      [] location.kind = "relative" -> [base EXCEPT !.path = Append(Front(@), location.path)]

-----------------------------------------------------------------------------
(* Redirects.  n counts the exchanges of the delivery.                     *)

Meets(script, n) == script[IF n < Len(script) THEN n ELSE Len(script)]

AfterRedirect(request, status, location) ==
    LET get == status \in 301 .. 303
    IN  [method |-> IF get THEN "GET" ELSE request.method, url |-> Absolutize(request.url, location),
         content |-> IF get THEN {} ELSE request.content]

SendsOn(reply) ==
    ~ Failed(reply) /\ reply.location # Nowhere /\ reply.status \in {301, 302, 303, 307, 308}

(* The loop of follow: the exchange that comes next, or, when it is over,  *)
(* the one that was the last, and its result.                              *)
Leg(n, request, over, result) == [n |-> n, request |-> request, over |-> over, result |-> result]

Begins(n, request) == Leg(n, request, FALSE, Null)

AfterReply(leg, reply) ==
    IF SendsOn(reply)
    THEN Begins(leg.n + 1, AfterRedirect(leg.request, reply.status, reply.location))
    ELSE Leg(leg.n, leg.request, TRUE, reply)

Hop(script, leg) ==
    IF leg.over THEN leg ELSE AfterReply(leg, Exchange(leg.request.url, Meets(script, leg.n)))

LastLeg(script, n, request) ==
    LET at[i \in 0 .. MaxRedirects + 1] == IF i = 0 THEN Begins(n, request) ELSE Hop(script, at[i - 1])
    IN  at[MaxRedirects + 1]

NoFurther(leg) ==
    IF leg.over THEN leg ELSE Leg(leg.n - 1, leg.request, TRUE, Error("redirects"))

Follow(script, n, request) == NoFurther(LastLeg(script, n, request))

-----------------------------------------------------------------------------
(* What a reply is taken for.                                              *)

Json(body) == IF Len(body) < 3 THEN Null ELSE body[2]

(* A field is fine if it is not there, or has the value it should have.    *)
FieldErr(json, key, fine) == key \in DOMAIN json /\ json[key] # fine

Complains(kind, json) ==
    \/ kind \in {"dingtalk", "wecom"} /\ FieldErr(json, "errcode", 0)
    \/ kind \in {"feishu", "serverchan"} /\ FieldErr(json, "code", 0)
    \/ kind = "feishu" /\ FieldErr(json, "StatusCode", 0)
    \/ kind = "aliyunsms" /\ FieldErr(json, "Code", "OK")

Works(status) == status \in 200 .. 299

Check(kind, reply) == ~ Complains(kind, Json(reply.body)) /\ Works(reply.status)

IsRetryableStatus(status) == status = 0 \/ status = 429 \/ status \in 500 .. 599

Retryable(result) ==
    IF Failed(result) THEN result.error # "badurl" ELSE IsRetryableStatus(result.status)

(* The loop of deliver.                                                    *)
AfterTry(kind, out, sent) ==
    LET ok == ~ Failed(sent.result) /\ Check(kind, sent.result)
    IN  [ok |-> ok, attempts |-> out.attempts + 1, met |-> sent.n, request |-> sent.request,
         retryable |-> ~ ok /\ Retryable(sent.result)]

Try(kind, payload, script, out) ==
    IF ~ out.retryable THEN out
    ELSE AfterTry(kind, out, Follow(script, out.met + 1, Build(kind, payload)))

NotYet == [ok |-> FALSE, attempts |-> 0, met |-> 0, request |-> Null, retryable |-> TRUE]

Deliver(kind, payload, script) ==
    LET at[i \in 0 .. Attempts] == IF i = 0 THEN NotYet ELSE Try(kind, payload, script, at[i - 1])
    IN  at[Attempts]

-----------------------------------------------------------------------------
(* What the properties ask.                                                *)

(* All of the reply has come, and then the end of the connection.          *)
Whole(m) ==
    m.comes = "reply" /\ m.ends # "open" /\ m.pieces >= Len(Wire(m)) /\ Len(Wire(m)) <= MaxBody

TakenBy(kind, m) == Works(m.status) /\ ~ Complains(kind, m.fields)

(* A delivery counts as made only if the last one asked has accepted it:   *)
(* a reply in chunks is believed only whole.  One without chunks, of which *)
(* a piece is missing, counts by its status alone.  A connection that      *)
(* stays open tells nothing, whatever has come on it.                      *)
SuccessIsMeant(kind, payload, script) ==
    LET out  == Deliver(kind, payload, script)
        last == Meets(script, out.met)
    IN  out.ok => /\ last.ends # "open"
                  /\ \/ TakenBy(kind, last)
                     \/ Works(last.status) /\ ~ last.chunked /\ ~ Whole(last)

(* Once one has accepted, its reply has come whole and it has ended the    *)
(* connection, as it is asked to, nothing is sent again, and neither after *)
(* one that has refused for good.  (One that accepts and leaves the        *)
(* connection open is asked again, once in each attempt that is left.)     *)
NothingAfterTheVerdict(kind, payload, script) ==
    LET out == Deliver(kind, payload, script)
    IN  \A n \in 1 .. out.met - 1 :
            ~ /\ Whole(Meets(script, n))
              /\ TakenBy(kind, Meets(script, n)) \/ Meets(script, n).status \in 400 .. 428

(* Who accepts it has been told all of it, unless a redirect made it a     *)
(* GET, or it is a text message.                                           *)
AcceptedIsTold(kind, payload, script) ==
    LET out == Deliver(kind, payload, script)
    IN  out.ok => \/ {payload.title, payload.body} \ {<<>>} \subseteq out.request.content
                  \/ kind = "aliyunsms"
                  \/ out.request.method = "GET"
=============================================================================
