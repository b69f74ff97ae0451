----------------------------- MODULE MCMailPath -----------------------------
(* Constants of MailPath for TLC: a device, and the mail client with two   *)
(* attempts on the plain port or one on the implicit-TLS port; two nodes.  *)
EXTENDS MailPath

ipOf == [d |-> "lan", a1 |-> "lan", a2 |-> "lan", s1 |-> "lan"]
triesFor == [none |-> <<"a1", "a2">>, starttls |-> <<"a1">>, tls |-> <<"s1">>]
ahead == {<<"STARTTLS", "MAIL">>, <<"DATA", "text">>, <<"LOGIN", "right">>, <<".", "QUIT">>}
policies == {[user |-> FALSE, pass |-> FALSE], [user |-> TRUE, pass |-> TRUE]}
names == [here |-> "", there |-> "far"]
targets == {[here |-> "off", there |-> "off"], [here |-> "there", there |-> "here"]}
=============================================================================
