------------------------------ MODULE Questions ------------------------------
(***************************************************************************)
(* Conditions, queries and notifications, put to the question: one         *)
(* question is asked, and each property is about the answer to one kind of *)
(* question.                                                               *)
(***************************************************************************)
EXTENDS Matching, Queries, Replies

CONSTANTS
    Patterns, \* texts with a pattern for each
    Sortings, \* mails with the groups that meet them
    Pagings,  \* queries with what the store holds at the time of each page
    Deliveries \* notifications with a script of what they meet

VARIABLE asked

(* Ids of groups are given out once (state.rs, take_id), and a condition   *)
(* has one of the fields there are and a text (match_.rs, Condition).      *)
Sorting(q) ==
    /\ q.about = "sorting"
    /\ q.groups \in Seq(ToSet(q.groups))
    /\ q.mail.text \in Seq(STRING)
    /\ \A a, b \in ToSet(q.groups) : a.id = b.id => a = b
    /\ \A g \in ToSet(q.groups) : \A c \in ToSet(g.matcher.conditions) :
          c.field \in Field /\ c.value \in Seq(STRING)

(* Times and ids are numbers, and no two messages in the store have one id *)
(* (lib.rs, append).                                                       *)
Paging(q) ==
    /\ q.about = "paging"
    /\ q.indexes \in Seq(ToSet(q.indexes)) /\ q.indexes # <<>>
    /\ \A index \in ToSet(q.indexes) :
          /\ IsFiniteSet(index)
          /\ \A m \in index : m.id \in Nat /\ m.ts \in Int
          /\ \A a, b \in index : a.id = b.id => a = b

(* A reply has a status and so many pieces.                                *)
Met(m) ==
    m.comes = "reply" =>
        /\ m.status \in Nat /\ m.pieces \in Nat /\ m.blanks \in Nat
        /\ m.chunked \in BOOLEAN /\ m.ends \in Ends

Delivering(q) ==
    /\ q.about = "delivery"
    /\ q.script \in Seq(ToSet(q.script)) /\ q.script # <<>>
    /\ \A m \in ToSet(q.script) : Met(m)

ASSUME QuestionsAssumption ==
    /\ PreviewAssumption
    /\ QueriesAssumption
    /\ RepliesAssumption
    /\ \A q \in Patterns : q.about = "pattern" /\ q.text \in Seq(STRING) /\ q.pattern \in Seq(STRING)
    /\ \A q \in Sortings : Sorting(q)
    /\ \A q \in Pagings : Paging(q)
    /\ \A q \in Deliveries : Delivering(q)

Nothing == [about |-> "nothing"]

Init == asked = Nothing

Ask(questions) == asked = Nothing /\ asked' \in questions

AskAny == Ask(Patterns) \/ Ask(Sortings) \/ Ask(Pagings) \/ Ask(Deliveries)

QuestionsSpec == Init /\ [][AskAny]_asked

-----------------------------------------------------------------------------
(* A condition means the same wherever it is asked, as far as what is kept *)
(* of a message can answer it (rec.rs, preview_of): a message keeps its    *)
(* group when the history is sorted again (api.rs, regroup), a rule sees   *)
(* what the groups saw (pipeline.rs, notify), a group without conditions   *)
(* takes only what is left (state.rs, classify), and a pattern takes back  *)
(* what its star took too much (match_.rs, glob).                          *)
SameVerdicts ==
    /\ asked.about = "pattern" => GlobAgrees(asked.text, asked.pattern)
    /\ asked.about = "sorting" =>
          /\ StaysInGroup(asked.groups, asked.mail)
          /\ CatchAllIsLast(asked.groups, AtIntake(asked.mail))
          /\ \A g \in ToSet(asked.groups) : RuleAgrees(g.matcher, asked.mail, <<>>)
          /\ AccessIsExact(asked.groups, AtIntake(asked.mail))

(* Who turns the pages of a query (lib.rs, query) misses no message that   *)
(* stays in the store, while others come in and the oldest go; while       *)
(* nothing changes, the pages are the whole list, once and in order.       *)
PagesCoverOnce ==
    asked.about = "paging" =>
        /\ PagesMissNothing(asked.query, asked.indexes)
        /\ PagesAreTheList(asked.query, asked.indexes[1], Len(asked.indexes))

(* A notification counts as delivered only if who was asked last has taken *)
(* it (http.rs, providers.rs, lib.rs), as far as its reply tells, and has  *)
(* been told in full, and it is not sent again after a verdict that has    *)
(* come whole on a connection that has ended.                              *)
RepliesJudged ==
    asked.about = "delivery" =>
        /\ SuccessIsMeant(asked.kind, asked.payload, asked.script)
        /\ NothingAfterTheVerdict(asked.kind, asked.payload, asked.script)
        /\ AcceptedIsTold(asked.kind, asked.payload, asked.script)
=============================================================================
