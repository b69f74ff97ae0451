------------------------------ MODULE EventFeed ------------------------------
(***************************************************************************)
(* The stream of new messages to the web page (stream_events of            *)
(* s2l-web/src/server.rs): each stored message is announced on a broadcast *)
(* channel that keeps the last Capacity of them; every stream reads at its *)
(* own pace, behind a socket that may be slow.  A stream that fell too far *)
(* behind is told how many it missed.                                      *)
(*                                                                         *)
(* The channel is tokio's, modelled from its use here: recv gives the next *)
(* one, or says how many are gone and goes on with the oldest one kept.    *)
(*                                                                         *)
(* A definition marked "Slip" is no part of the model.                     *)
(***************************************************************************)
EXTENDS Naturals, SequencesExt

CONSTANTS
    Streams,
    Capacity,   \* of the channel, 64
    MaxEvents   \* bound

(* Assumed by the module that instantiates this one.                       *)
EventFeedAssumption == Capacity \in Nat \ {0} /\ MaxEvents \in Nat

VARIABLES
    sent,    \* how many were announced: they are 1 .. sent
    stream   \* per stream: its place and what it wrote

feedVars == <<sent, stream>>

Fresh == [state |-> "none", start |-> 0, next |-> 1, frame |-> <<>>, told |-> <<>>, missed |-> 0]

FeedInit ==
    /\ sent = 0
    /\ stream = [s \in Streams |-> Fresh]

(* The end of ingest_from; nobody may be listening.                        *)
Announce ==
    /\ sent < MaxEvents
    /\ sent' = sent + 1
    /\ UNCHANGED stream

(* subscribe, before the head of the reply is written: what is announced   *)
(* from now on counts.                                                     *)
Subscribe(s) ==
    /\ stream[s].state = "none"
    /\ stream' = [stream EXCEPT ![s] = [Fresh EXCEPT !.state = "idle", !.start = sent, !.next = sent + 1]]
    /\ UNCHANGED sent

Oldest == IF sent > Capacity THEN sent - Capacity + 1 ELSE 1

(* (Slip: what is gone is passed over.)                                    *)
SkipLagged(s) ==
    /\ stream[s].next < Oldest
    /\ stream' = [stream EXCEPT ![s].next = Oldest]

(* recv: some are gone, ...                                                *)
Lagged(s) ==
    /\ stream[s].next < Oldest
    /\ stream' = [stream EXCEPT ![s].next = Oldest, ![s].state = "writing",
                                ![s].frame = <<"lagged", Oldest - stream[s].next>>]

(* ... or here is the next one.                                            *)
Next1(s) ==
    /\ stream[s].next \in Oldest .. sent
    /\ stream' = [stream EXCEPT ![s].next = @ + 1, ![s].state = "writing",
                                ![s].frame = <<"data", stream[s].next>>]

(* After 20 s without one a keepalive is written, which may fail as well.  *)
Recv(s) ==
    /\ stream[s].state = "idle"
    /\ \/ Lagged(s)
       \/ Next1(s)
       \/ /\ stream[s].next = sent + 1
          /\ stream' = [stream EXCEPT ![s].state = "writing", ![s].frame = <<"keepalive">>]
    /\ UNCHANGED sent

(* The socket takes the frame; until then nothing is received.             *)
Written(s) ==
    /\ stream[s].state = "writing"
    /\ LET f == stream[s].frame
       IN  stream' = [stream EXCEPT
              ![s].state  = "idle",
              ![s].frame  = <<>>,
              ![s].told   = IF f[1] = "data" THEN Append(@, f[2]) ELSE @,
              ![s].missed = IF f[1] = "lagged" THEN @ + f[2] ELSE @]
    /\ UNCHANGED sent

(* Or it does not: the stream ends.                                        *)
WriteFails(s) ==
    /\ stream[s].state = "writing"
    /\ stream' = [stream EXCEPT ![s] = [Fresh EXCEPT !.state = "closed"]]
    /\ UNCHANGED sent

Forward(s) == Recv(s) \/ Written(s) \/ WriteFails(s)

-----------------------------------------------------------------------------
(* A page that keeps reading knows of every message since it subscribed:   *)
(* it was told of it, in order and once, or it was told how many it        *)
(* missed, however the channel overran while the socket was slow.          *)
NoSilentGap ==
    \A s \in Streams :
        LET t == stream[s].told
        IN  stream[s].state = "idle" =>
              /\ stream[s].missed + Len(t) = stream[s].next - 1 - stream[s].start
              /\ \A i, j \in DOMAIN t : i < j => t[i] < t[j]
              /\ ToSet(t) \subseteq stream[s].start + 1 .. sent
=============================================================================
