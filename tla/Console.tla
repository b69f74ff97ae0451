------------------------------- MODULE Console -------------------------------
(***************************************************************************)
(* The web console: requests with a token (handle and dispatch of          *)
(* s2l-web/src/server.rs) over WebAuth, and the stream of new messages     *)
(* over EventFeed.  A stream shows its token once, when it is opened: it   *)
(* goes on when the token is logged out or displaced.                      *)
(***************************************************************************)
EXTENDS WebAuth

CONSTANTS Streams, Capacity, MaxEvents

VARIABLES sent, stream

F == INSTANCE EventFeed

ASSUME FeedAssumption == F!EventFeedAssumption

vars == <<authVars, sent, stream>>

Init == AuthInit /\ F!FeedInit

(* api/auth/challenge and api/auth/login are open to all, ...              *)
Public ==
    /\ Challenge \/ \E a \in Addresses : Login(a)
    /\ UNCHANGED <<sent, stream>>

(* ... other routes ask verify first; logout is one of them.               *)
Authorized ==
    /\ \E token \in 1 .. Len(history.opened) : Use(token) \/ Logout(token)
    /\ UNCHANGED <<sent, stream>>

(* api/events, with the token in the header or in the query.               *)
Watch(s) == \E token \in 1 .. Len(history.opened) : Use(token) /\ F!Subscribe(s)

Feed ==
    /\ F!Announce \/ \E s \in Streams : F!Forward(s)
    /\ UNCHANGED authVars

Time == Tick /\ UNCHANGED <<sent, stream>>

Next ==
    \/ Public \/ Authorized \/ Feed \/ Time
    \/ \E s \in Streams : Watch(s)

Spec == Init /\ [][Next]_vars

TypeOK ==
    /\ AuthTypeOK
    /\ sent \in 0 .. MaxEvents
    /\ \A s \in Streams : stream[s].next \in 1 .. sent + 1

NoSilentGap == F!NoSilentGap
=============================================================================
