------------------------------- MODULE Queries -------------------------------
(***************************************************************************)
(* Queries of the stored messages (s2l-store/src/query.rs and query of     *)
(* lib.rs, parse_query in api.rs): which messages a query is about, in     *)
(* which order, and the page of them that is answered.                     *)
(*                                                                         *)
(* A record has an id, a time, a group (0 for none), a number of           *)
(* attachments and the set of words that are in each of its texts.         *)
(*                                                                         *)
(* A definition marked "Slip" is no part of the model.                     *)
(***************************************************************************)
EXTENDS Integers, SequencesExt

CONSTANTS
    DefaultLimit, \* 50
    MaxLimit      \* 500

(* Assumed by the module that instantiates this one.                       *)
QueriesAssumption == MaxLimit \in Nat /\ DefaultLimit \in 1 .. MaxLimit

Unasked == {} \* a parameter that is not given, or blank; else a set of one value

(* parse_query: a number that is none, or below zero, is as good as 0.     *)
Number(p) == IF p \in Int /\ p >= 0 THEN p ELSE 0

Clamp(limit) ==
    LET n == IF limit = 0 THEN DefaultLimit ELSE limit
    IN  IF n < MaxLimit THEN n ELSE MaxLimit

(* matches_meta: all that is asked for has to hold.                        *)
AboutMeta(q, m) ==
    /\ \A t \in q.start : m.ts >= t
    /\ \A t \in q.end : m.ts <= t
    /\ q.group = Unasked \/ m.group \in q.group
    /\ q.attached = Unasked \/ (m.attachments > 0) \in q.attached
    /\ q.subject \subseteq m.subject
    /\ q.text \subseteq m.subject \cup m.from \cup m.preview

(* body_matches reads the bodies of those, in their segments.              *)
AboutBody(q, m) == q.body \subseteq m.text \cup m.html

Hits(q, index) == {m \in index : AboutMeta(q, m) /\ AboutBody(q, m)}

(* By time, and by id for messages of one moment.                          *)
Earlier(a, b) ==
    \/ a.ts < b.ts
    \/ a.ts = b.ts /\ a.id < b.id

Before(q, a, b) == IF q.sort = "asc" THEN Earlier(a, b) ELSE Earlier(b, a)

(* Each of them comes after as many as there are before it.                *)
Place(q, hits, m) == Cardinality({x \in hits : Before(q, x, m)}) + 1

Sorted(q, index) ==
    LET hits == Hits(q, index)
    IN  [n \in 1 .. Cardinality(hits) |-> CHOOSE m \in hits : Place(q, hits, m) = n]

(* (Slip: the bodies are read of the page only.)                           *)
PageThenBody(q, offset, index) ==
    LET all   == Sorted([q EXCEPT !.body = Unasked], index)
        first == Number(offset)
        last  == first + Clamp(Number(q.limit))
    IN  [items |-> SelectSeq(SubSeq(all, first + 1, IF last < Len(all) THEN last ELSE Len(all)),
                             LAMBDA m : AboutBody(q, m)),
         total |-> Len(all)]

(* Store::query: what is left of the list after the offset, up to a limit. *)
Page(q, offset, index) ==
    LET all   == Sorted(q, index)
        first == Number(offset)
        last  == first + Clamp(Number(q.limit))
    IN  [items |-> SubSeq(all, first + 1, IF last < Len(all) THEN last ELSE Len(all)),
         total |-> Len(all)]

-----------------------------------------------------------------------------
(* The pages that someone turns, one after the other, over what the store  *)
(* holds at the time of each: the first starts at 0, the next after what   *)
(* was on it.                                                              *)
Onward(q, offset, index) == offset + Len(Page(q, offset, index).items)

Offsets(q, indexes) ==
    LET offset[k \in 0 .. Len(indexes)] == IF k = 0 THEN 0 ELSE Onward(q, offset[k - 1], indexes[k])
    IN  offset

Turn(q, indexes, k) == Page(q, Offsets(q, indexes)[k - 1], indexes[k])

LastIsEmpty(q, indexes) == Turn(q, indexes, Len(indexes)).items = <<>>

(* What goes is older than what stays.                                     *)
OldestGo(indexes) ==
    \A k \in 1 .. Len(indexes) - 1 :
        \A gone \in indexes[k] \ indexes[k + 1] : \A m \in indexes[k] \cap indexes[k + 1] :
            Earlier(gone, m)

(* Who turns the pages, the newest first, until one is empty, has seen     *)
(* every message the query is about that was there all the time, however   *)
(* many came in and however many of the oldest were evicted meanwhile; no  *)
(* page is longer than it may be.  (With the oldest first, an eviction     *)
(* shifts the pages, and one is missed.)                                   *)
PagesMissNothing(q, indexes) ==
    LET all   == {m \in indexes[1] : \A k \in DOMAIN indexes : m \in indexes[k]}
        pages == [k \in DOMAIN indexes |-> Turn(q, indexes, k)]
    IN  /\ \A k \in DOMAIN indexes : Len(pages[k].items) <= MaxLimit
        /\ q.sort = "desc" /\ OldestGo(indexes) /\ LastIsEmpty(q, indexes) =>
              \A m \in Hits(q, all) : \E k \in DOMAIN indexes : m \in ToSet(pages[k].items)

(* While nothing changes, they are all there, once and in order, and the   *)
(* total is right from the start: item j of page k is number j after what  *)
(* came before that page, and each number is on a page.                    *)
PagesAreTheList(q, index, n) ==
    LET indexes == [k \in 1 .. n |-> index]
        list    == Sorted(q, index)
        before  == [k \in 1 .. n |-> Offsets(q, indexes)[k - 1]]
        pages   == [k \in 1 .. n |-> Turn(q, indexes, k)]
    IN  /\ ToSet(list) = Hits(q, index)
        /\ \A i, j \in DOMAIN list : i < j => Before(q, list[i], list[j])
        /\ \A k \in 1 .. n : pages[k].total = Cardinality(Hits(q, index))
        /\ \A k \in 1 .. n : \A j \in DOMAIN pages[k].items :
              before[k] + j \in DOMAIN list /\ pages[k].items[j] = list[before[k] + j]
        /\ LastIsEmpty(q, indexes) =>
              \A i \in DOMAIN list :
                  \E k \in 1 .. n : \E j \in DOMAIN pages[k].items : before[k] + j = i
=============================================================================
