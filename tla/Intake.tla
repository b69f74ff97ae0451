------------------------------- MODULE Intake -------------------------------
(***************************************************************************)
(* What becomes of an accepted message (pipeline.rs, push.rs, accept_push  *)
(* of api.rs): the intake takes messages from the SMTP server's channel    *)
(* one at a time, asks the access list, stores each, and hands it on to    *)
(* the push target, another instance of the same program.                  *)
(*                                                                         *)
(* Here is the node with the SMTP server; the others take pushes.  What an *)
(* access list says, whether the disk takes a message, whether a push gets *)
(* through and whether the far side refuses it (its password, its clock)   *)
(* are not predicted.  The order of retries is RetryQueue's subject; here  *)
(* a queued push is simply tried again.                                    *)
(***************************************************************************)
EXTENDS Naturals, SequencesExt

CONSTANTS
    Nodes, Here,
    HostName,   \* [Nodes -> STRING], stmp_hostname; it may be blank
    Targets,    \* the values push_url takes, here and there: [Nodes -> Nodes \cup {"off"}]
    PushLimit,  \* MAX_BODY of the far web server, in lines of a message
    MaxLost     \* bound: answers lost per message after the far side was done

(* Assumed by the module that instantiates this one.                       *)
IntakeAssumption ==
    /\ Here \in Nodes
    /\ "off" \notin Nodes
    /\ DOMAIN HostName = Nodes
    /\ Targets # {}
    /\ Targets \subseteq [Nodes -> Nodes \cup {"off"}]
    /\ PushLimit \in Nat
    /\ MaxLost \in Nat

VARIABLES
    sink,     \* the channel from the SMTP server
    taken,    \* the messages being ingested from it, in the order taken
    shelf,    \* per node: the stored messages with their origin, in order
    aside,    \* messages taken and not stored
    pushUrl,  \* per node: push_url
    pushes,   \* the pushes under way, waiting in a retry queue, or over
    lost      \* history: the answers lost, as a set of [msg, nth]

intakeVars == <<sink, taken, shelf, aside, pushUrl, pushes, lost>>

PushStates == {"sending", "queued", "sent", "dropped"}

Key(msg) == <<msg.conn, msg.line>>
Copies(key) == {x \in UNION {{n} \X DOMAIN shelf[n] : n \in Nodes} :
                   Key(shelf[x[1]][x[2]].msg) = key}
LostOf(key) == {x \in lost : x.key = key}

IntakeTypeOK ==
    /\ Len(taken) <= 1
    /\ DOMAIN shelf = Nodes
    /\ \A x \in aside : x.node \in Nodes
    /\ pushUrl \in Targets
    /\ \A p \in pushes : p.node \in Nodes /\ p.state \in PushStates

IntakeInit ==
    /\ taken = <<>>
    /\ shelf = [n \in Nodes |-> <<>>]
    /\ aside = {}
    /\ pushUrl \in Targets
    /\ pushes = {}
    /\ lost = {}

-----------------------------------------------------------------------------
(* (Slip: the next message is taken while one is being ingested.)          *)
TakeAhead ==
    /\ Len(taken) < 2
    /\ sink # <<>>
    /\ taken' = Append(taken, Head(sink))
    /\ sink' = Tail(sink)
    /\ UNCHANGED <<shelf, aside, pushUrl, pushes, lost>>

(* run: the next message, when the one before is done.                     *)
Take ==
    /\ taken = <<>>
    /\ sink # <<>>
    /\ taken' = <<Head(sink)>>
    /\ sink' = Tail(sink)
    /\ UNCHANGED <<shelf, aside, pushUrl, pushes, lost>>

(* A push is made of messages that came in by mail, if there is a target.  *)
Pushed(n, msg, origin) ==
    IF pushUrl[n] # "off" /\ origin = ""
    THEN {[node |-> n, msg |-> msg, state |-> "sending"]} ELSE {}

(* ingest_from, up to the store: the record, and the job's push.           *)
Stored(n, msg, origin) ==
    /\ shelf' = [shelf EXCEPT ![n] = Append(@, [msg |-> msg, origin |-> origin])]
    /\ UNCHANGED aside

(* ... or no record: the access list, a failed write (which still alerts,  *)
(* and is not pushed), a panic.                                            *)
SetAside(n, msg, origin) ==
    /\ aside' = aside \cup {[node |-> n, msg |-> msg, origin |-> origin]}
    /\ UNCHANGED shelf

(* The intake's blocking task ends, well or in a panic.                    *)
Ingest ==
    \E k \in DOMAIN taken :
        /\ taken' = RemoveAt(taken, k)
        /\ \/ /\ Stored(Here, taken[k], "")
              /\ pushes' = pushes \cup Pushed(Here, taken[k], "")
           \/ /\ SetAside(Here, taken[k], "")
              /\ UNCHANGED pushes
        /\ UNCHANGED <<sink, pushUrl, lost>>

-----------------------------------------------------------------------------
(* A settings request changes push_url.                                    *)
SetPushUrl ==
    /\ pushUrl' \in Targets \ {pushUrl}
    /\ UNCHANGED <<sink, taken, shelf, aside, pushes, lost>>

Becomes(p, state) == (pushes \ {p}) \cup {[p EXCEPT !.state = state]}

(* forward and send_queued read push_url when they send, not when the push *)
(* was made: with no target any more the URL is bad and the push dropped.  *)
Target(p) == pushUrl[p.node]

PushNowhere(p) ==
    /\ p.state = "sending"
    /\ Target(p) = "off"
    /\ pushes' = Becomes(p, "dropped")
    /\ UNCHANGED <<sink, taken, shelf, aside, pushUrl, lost>>

(* The request does not get there, or is answered 429 or 5xx.              *)
PushFails(p) ==
    /\ p.state = "sending"
    /\ Target(p) # "off"
    /\ pushes' = Becomes(p, "queued")
    /\ UNCHANGED <<sink, taken, shelf, aside, pushUrl, lost>>

(* 400, 401 or 403, or 413 for a body the far web server does not take.    *)
PushRefused(p) ==
    /\ p.state = "sending"
    /\ Target(p) # "off"
    /\ pushes' = Becomes(p, "dropped")
    /\ UNCHANGED <<sink, taken, shelf, aside, pushUrl, lost>>

(* (Slip: the sender's name is taken as it is.)                            *)
OriginAsSent(n) == HostName[n]

(* accept_push: a pushed message always has an origin.                     *)
Origin(n) == IF HostName[n] = "" THEN "unknown" ELSE HostName[n]

(* The far side ingests the message, as one that nobody logged in for, and *)
(* answers ok, stored or not; the answer may get lost.                     *)
PushArrives(p) ==
    /\ p.state = "sending"
    /\ Target(p) # "off"
    /\ p.msg.size <= PushLimit
    /\ LET msg  == [p.msg EXCEPT !.user = "none", !.tls = FALSE]
           key  == Key(msg)
           answered == pushes' = Becomes(p, "sent") \cup Pushed(Target(p), msg, Origin(p.node))
                       /\ UNCHANGED lost
           unheard  == /\ Cardinality(LostOf(key)) < MaxLost
                       /\ lost' = lost \cup {[key |-> key, nth |-> Cardinality(LostOf(key))]}
                       /\ pushes' = Becomes(p, "queued")
                                    \cup Pushed(Target(p), msg, Origin(p.node))
       IN  /\ \/ Stored(Target(p), msg, Origin(p.node))
              \/ SetAside(Target(p), msg, Origin(p.node))
           /\ answered \/ unheard
    /\ UNCHANGED <<sink, taken, pushUrl>>

(* A queued push is tried again.                                           *)
PushAgain(p) ==
    /\ p.state = "queued"
    /\ pushes' = Becomes(p, "sending")
    /\ UNCHANGED <<sink, taken, shelf, aside, pushUrl, lost>>

IntakeNext ==
    \/ Take \/ Ingest \/ SetPushUrl
    \/ \E p \in pushes : \/ PushNowhere(p) \/ PushFails(p) \/ PushRefused(p)
                         \/ PushArrives(p) \/ PushAgain(p)
=============================================================================
