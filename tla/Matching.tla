------------------------------ MODULE Matching ------------------------------
(***************************************************************************)
(* Conditions on a message (s2l-store/src/match_.rs) and what is decided   *)
(* by them (state.rs, pipeline.rs, regroup in api.rs): whether the access  *)
(* list takes a message, its group when it comes in and when the history   *)
(* is sorted again, and the rules that it sets off.                        *)
(*                                                                         *)
(* A text is a sequence of characters.  A message is a record of the       *)
(* fields that the parser found; headers are a function of their names.    *)
(*                                                                         *)
(* A definition marked "Slip" is no part of the model: it is the next one  *)
(* with a mistake that a property has to notice.                           *)
(***************************************************************************)
EXTENDS Integers, SequencesExt, Lists

CONSTANT PreviewChars \* 160

(* Assumed by the module that instantiates this one.                       *)
PreviewAssumption == PreviewChars \in Nat

Small(c) == CASE c = "A" -> "a" [] c = "B" -> "b" [] OTHER -> c
Lower(text) == [i \in DOMAIN text |-> Small(text[i])]

(* The loop of glob: h[hi] and p[pi] are next, the last star was at star   *)
(* (0 for none) and stands for what is up to starHi.                       *)
At(hi, pi, star, starHi) ==
    [hi |-> hi, pi |-> pi, star |-> star, starHi |-> starHi, lost |-> FALSE]

Over(h, s) == s.lost \/ s.hi > Len(h)

(* (Slip: after a star it goes on where it failed.)                        *)
PassGoesOn(h, p, s) ==
    IF Over(h, s) THEN s
    ELSE IF s.pi <= Len(p) /\ p[s.pi] = h[s.hi] THEN At(s.hi + 1, s.pi + 1, s.star, s.starHi)
    ELSE IF s.pi <= Len(p) /\ p[s.pi] = "*" THEN At(s.hi, s.pi + 1, s.pi, s.hi)
    ELSE IF s.star # 0 THEN At(s.hi + 1, s.star + 1, s.star, s.starHi)
    ELSE [s EXCEPT !.lost = TRUE]

Pass(h, p, s) ==
    IF Over(h, s) THEN s
    ELSE IF s.pi <= Len(p) /\ p[s.pi] = h[s.hi] THEN At(s.hi + 1, s.pi + 1, s.star, s.starHi)
    ELSE IF s.pi <= Len(p) /\ p[s.pi] = "*" THEN At(s.hi, s.pi + 1, s.pi, s.hi)
    ELSE IF s.star # 0 THEN At(s.starHi + 1, s.star + 1, s.star, s.starHi + 1)
    ELSE [s EXCEPT !.lost = TRUE]

(* No loop takes more passes than this.                                    *)
Passes(h, p) == Len(p) + (Len(h) + 2) * (Len(h) + 2)

LastPass(h, p) ==
    LET at[n \in 0 .. Passes(h, p)] == IF n = 0 THEN At(1, 1, 0, 0) ELSE Pass(h, p, at[n - 1])
    IN  at[Passes(h, p)]

(* What is left of the pattern has to be stars.                            *)
Glob(h, p) ==
    LET s == LastPass(h, p)
    IN  ~ s.lost /\ s.hi > Len(h) /\ \A i \in s.pi .. Len(p) : p[i] = "*"

Within(h, n) == \E i \in 0 .. Len(h) - Len(n) : SubSeq(h, i + 1, i + Len(n)) = n
StartsWith(h, n) == IsPrefix(n, h)
EndsWith(h, n) == IsSuffix(n, h)

Space   == " "
LineEnd == "\n"
White   == {Space, LineEnd}
Blank(text) == ToSet(text) \subseteq White

(* Condition::test.                                                        *)
Test(c, text) ==
    LET h == IF c.cs THEN text ELSE Lower(text)
        n == IF c.cs THEN c.value ELSE Lower(c.value)
    IN  CASE c.op = "contains"     -> Within(h, n)
          [] c.op = "not_contains" -> ~ Within(h, n)
          [] c.op = "equals"       -> h = n
          [] c.op = "not_equals"   -> h # n
          [] c.op = "starts_with"  -> StartsWith(h, n)
          [] c.op = "ends_with"    -> EndsWith(h, n)
          [] c.op = "matches"      -> Glob(h, n)
          [] c.op = "empty"        -> Blank(text)
          [] c.op = "not_empty"    -> ~ Blank(text)

Field ==
    {"from", "from_user", "from_domain", "from_name", "subject", "body", "rcpt", "peer_ip", "group",
     "auth_user", "header"}

(* A header that is not there is empty.                                    *)
Extract(c, t) ==
    IF c.field # "header" THEN t[c.field]
    ELSE IF c.name \in DOMAIN t.headers THEN t.headers[c.name]
    ELSE <<>>

(* Of the recipients one has to fit, or all have to miss.                  *)
HoldsForAny(c, rcpt) ==
    CASE c.op \in {"not_contains", "not_equals"} -> \A r \in ToSet(rcpt) : Test(c, r)
      [] c.op = "empty" -> rcpt = <<>>
      [] c.op = "not_empty" -> rcpt # <<>>
      [] OTHER -> \E r \in ToSet(rcpt) : Test(c, r)

Holds(c, t) ==
    IF c.field = "rcpt" THEN HoldsForAny(c, t.rcpt) ELSE Test(c, Extract(c, t))

Unconditional(m) == m.conditions = <<>>

Matches(m, t) ==
    \/ Unconditional(m)
    \/ m.logic = "all" /\ \A c \in ToSet(m.conditions) : Holds(c, t)
    \/ m.logic = "any" /\ \E c \in ToSet(m.conditions) : Holds(c, t)

-----------------------------------------------------------------------------
(* The access list: without conditions it is off.                          *)
Accepts(access, t) ==
    \/ access.mode = "off"
    \/ Unconditional(access.matcher)
    \/ (access.mode = "whitelist") = Matches(access.matcher, t)

(* classify: the first group with conditions that hold; else the first     *)
(* without conditions; else none, 0.                                       *)
Classify(groups, t) ==
    LET fit  == Retain(groups, {g \in ToSet(groups) : /\ g.enabled
                                                     /\ ~ Unconditional(g.matcher)
                                                     /\ Matches(g.matcher, t)})
        rest == Retain(groups, {g \in ToSet(groups) : g.enabled /\ Unconditional(g.matcher)})
    IN  IF fit # <<>> THEN fit[1].id
        ELSE IF rest # <<>> THEN rest[1].id
        ELSE 0

(* rsplit_once('@').                                                       *)
UserOf(addr) ==
    LET at == SelectLastInSeq(addr, LAMBDA c : c = "@")
    IN  IF at = 0 THEN addr ELSE SubSeq(addr, 1, at - 1)
DomainOf(addr) ==
    LET at == SelectLastInSeq(addr, LAMBDA c : c = "@")
    IN  IF at = 0 THEN <<>> ELSE SubSeq(addr, at + 1, Len(addr))

(* What trim leaves of the lines of a text.                                *)
Kept(text) ==
    {i \in DOMAIN text : \E a, b \in DOMAIN text :
        /\ a <= i /\ i <= b /\ text[a] \notin White /\ text[b] \notin White
        /\ \A k \in a .. b : text[k] # LineEnd}

(* The place before each of them that starts a line, but the first.        *)
Joints(text) ==
    {i \in DOMAIN text \ Kept(text) : i + 1 \in Kept(text) /\ \E k \in Kept(text) : k < i}

(* The lines that are not blank, joined with a blank.                      *)
OneLine(text) ==
    LET at == Retain([i \in DOMAIN text |-> i], Kept(text) \cup Joints(text))
    IN  [n \in DOMAIN at |-> IF at[n] \in Kept(text) THEN text[at[n]] ELSE Space]

(* preview_of: that is cut with a mark.                                    *)
Preview(text) ==
    LET all == OneLine(text)
    IN  IF Len(all) <= PreviewChars THEN all ELSE Append(SubSeq(all, 1, PreviewChars), "~")

(* The target of ingest_from: the sender is the one in the mail, if it has *)
(* one, or that of the envelope.                                           *)
Sender(mail) == IF mail.header_from = <<>> THEN mail.envelope_from ELSE mail.header_from

AtIntake(mail) ==
    [from |-> Sender(mail), from_user |-> UserOf(Sender(mail)), from_domain |-> DomainOf(Sender(mail)),
     from_name |-> mail.from_name, subject |-> mail.subject, body |-> mail.text, rcpt |-> mail.rcpt,
     peer_ip |-> mail.peer, group |-> <<>>, auth_user |-> mail.auth_user, headers |-> mail.headers]

(* What append keeps in memory of a mail.                                  *)
Meta(mail) ==
    [from |-> Sender(mail), from_name |-> mail.from_name, subject |-> mail.subject,
     preview |-> Preview(mail.text), rcpt |-> mail.rcpt, peer |-> mail.peer,
     auth_user |-> mail.auth_user]

(* The target of regroup: the preview for the body, and no headers.        *)
AtRegroup(meta) ==
    [from |-> meta.from, from_user |-> UserOf(meta.from), from_domain |-> DomainOf(meta.from),
     from_name |-> meta.from_name, subject |-> meta.subject, body |-> meta.preview, rcpt |-> meta.rcpt,
     peer_ip |-> meta.peer, group |-> <<>>, auth_user |-> meta.auth_user, headers |-> <<>>]

(* The target that notify shows the rules: with the group, without         *)
(* recipients and headers.                                                 *)
AtRules(mail, group) ==
    [AtIntake(mail) EXCEPT !.rcpt = <<>>, !.headers = <<>>, !.group = group]

-----------------------------------------------------------------------------
(* What the properties compare with.                                       *)

(* What a star says of the text between two places, and what another       *)
(* character says of it.                                                   *)
Piece(h, c, from, to) ==
    IF c = "*" THEN from <= to ELSE to = from + 1 /\ h[from] = c

(* The text from k on is what the pattern from j on says: it parts into    *)
(* one piece for each character.  (Piece i starts at cut[i].)              *)
FitsFrom(h, p, k, j) ==
    \E cut \in [j .. Len(p) + 1 -> 1 .. Len(h) + 1] :
        /\ cut[j] = k /\ cut[Len(p) + 1] = Len(h) + 1
        /\ \A i \in j .. Len(p) : Piece(h, p[i], cut[i], cut[i + 1])

Fits(h, p) == FitsFrom(h, p, 1, 1)

Asks(matchers, fields) ==
    \E m \in matchers : \E c \in ToSet(m.conditions) : c.field \in fields

MatchersOf(groups) == {g.matcher : g \in {x \in ToSet(groups) : x.enabled}}

(* A text of one line without blanks around it.                            *)
Plain(text) ==
    \/ text = <<>>
    \/ /\ text[1] \notin White /\ text[Len(text)] \notin White
       /\ LineEnd \notin ToSet(text)

(* The conditions that what is kept of a mail answers as the mail does:    *)
(* none on headers; on the body whether there is one, and, if all of it    *)
(* fits in the preview, those on a plain text and whether a word is in it. *)
Answerable(c, text) ==
    CASE c.field = "header" -> FALSE
      [] c.field = "body" ->
           \/ c.op \in {"empty", "not_empty"}
           \/ /\ Len(text) <= PreviewChars
              /\ \/ Plain(text)
                 \/ /\ c.op \in {"contains", "not_contains"}
                    /\ ToSet(c.value) \cap White = {}
      [] OTHER -> TRUE

(* A message stays in its group when the history is sorted again with the  *)
(* same groups, whatever its sender, its recipients, its account and its   *)
(* text, unless a condition asks for what is not kept.                     *)
StaysInGroup(groups, mail) ==
    \/ \E m \in MatchersOf(groups) : \E c \in ToSet(m.conditions) : ~ Answerable(c, mail.text)
    \/ Classify(groups, AtRegroup(Meta(mail))) = Classify(groups, AtIntake(mail))

(* A rule with the conditions of a group fires for the messages of that    *)
(* group's kind, unless it asks for recipients or headers.                 *)
RuleAgrees(m, mail, group) ==
    \/ Asks({m}, {"rcpt", "header", "group"})
    \/ Matches(m, AtRules(mail, group)) = Matches(m, AtIntake(mail))

(* A group without conditions takes only what no other group takes,        *)
(* wherever it stands in the order.                                        *)
CatchAllIsLast(groups, t) ==
    \A g \in ToSet(groups) :
        /\ g.id = Classify(groups, t)
        /\ Unconditional(g.matcher)
        => ~ \E o \in ToSet(groups) : o.enabled /\ ~ Unconditional(o.matcher) /\ Matches(o.matcher, t)

(* Of the access list with one matcher, the whitelist takes what the       *)
(* blacklist turns away, and a list without conditions turns none away.    *)
AccessIsExact(groups, t) ==
    \A m \in MatchersOf(groups) :
        LET Takes(mode) == Accepts([mode |-> mode, matcher |-> m], t)
        IN  /\ Takes("off")
            /\ IF Unconditional(m) THEN Takes("whitelist") /\ Takes("blacklist")
               ELSE Takes("whitelist") # Takes("blacklist")

(* A pattern means what it says, for a text without a star of its own.     *)
GlobAgrees(h, p) == "*" \in ToSet(h) \/ Glob(h, p) = Fits(h, p)
=============================================================================
