------------------------------ MODULE LogStore ------------------------------
(***************************************************************************)
(* The message store of stmp2log (s2l-store: lib.rs, seg.rs).              *)
(*                                                                         *)
(* Messages live in numbered segments.  A segment has a body file and a    *)
(* meta file, to which lines are only ever appended: a message, or a copy  *)
(* of one with another group; a deletion; a floor, below which everything  *)
(* is evicted.  The index in memory says what there is; after a restart it *)
(* is what the lines, read segment by segment, amount to (Store::open).    *)
(* A segment no indexed message lies in is unlinked (reclaim), with every  *)
(* line that is in it.                                                     *)
(*                                                                         *)
(* All operations hold the store's mutex, so only a crash comes between    *)
(* the writes of one; each write is an action.  A crash is the end of the  *)
(* process: what was written stays, memory is gone.  Errors of the file    *)
(* system are not modelled.  Sizes are in units of Reserve.                *)
(*                                                                         *)
(* A definition marked "Slip" is no part of the model: it is the next one  *)
(* with a mistake that a property below has to notice.                     *)
(***************************************************************************)
EXTENDS Integers, FiniteSetsExt, SequencesExt

CONSTANTS Groups,     \* the groups a message can be put in
          NewGroups,  \* those classify puts a new one in, None among them
          None,       \* no group, no segment, no message
          Sizes,      \* [att, body]: what appended messages add to the files
          Reserve,    \* the 4096 bytes a body is taken to need
          MaxBody,    \* MAX_BODY_BYTES, the size at which a segment is full
          MaxRecords, \* MAX_RECORDS, the number of messages at which it is
          Entries,    \* the values max_entries is ever given
          ByAge,      \* max_days > 0: old messages are evicted as well
          Tears,      \* how a crash can leave a line: see Tails
          MaxId,      \* bound: messages appended, and ids asked for
          MaxEdits,   \* bound: requests that change the store
          MaxCrashes  \* bound: crashes

ASSUME StoreAssumption ==
    /\ Reserve \in Nat \ {0}
    /\ MaxBody \in Nat
    /\ Reserve <= MaxBody
    /\ MaxRecords \in Nat \ {0}
    /\ \A size \in Sizes : size \in [att : Nat, body : Nat \ {0}]
    /\ Entries \subseteq Nat \ {0}
    /\ Entries # {}
    /\ ByAge \in BOOLEAN
    /\ Tears \subseteq {"cut", "garbled", "unended"}
    /\ MaxId \in Nat
    /\ MaxEdits \in Nat
    /\ MaxCrashes \in Nat
    /\ None \notin Nat
    /\ None \notin Groups
    /\ NewGroups \subseteq Groups \cup {None}

VARIABLES
    disk,       \* the segments that have a meta file, by number
    running,    \* the process runs
    cur,        \* Segments.cur, the segment written to, or None
    records,    \* cur.records
    index,      \* Inner.index, by id: where each message lies, and its group
    nextId,     \* Inner.next_id
    maxEntries, \* Inner.retention.max_entries
    op,         \* what the operation that holds the mutex does next
    msg,        \* the message it appends, or None
    todo,       \* the lines it still has to write
    sweep,      \* it ends with reclaim
    gone,       \* history: ids any operation has taken out of the index
    byHand,     \* history: those of them that delete has taken out
    edits,      \* bounded by MaxEdits
    crashes     \* bounded by MaxCrashes

memory  == <<cur, records, index, nextId, maxEntries>>
request == <<op, msg, todo, sweep>>
history == <<gone, byHand, edits, crashes>>
vars == <<disk, running, memory, request, history>>

Ids == 1 .. MaxId

MsgLine(id, group, seg) == [t |-> "m", id |-> id, group |-> group, seg |-> seg]
DelLine(id)             == [t |-> "d", id |-> id, group |-> None, seg |-> None]
FloorLine(id)           == [t |-> "f", id |-> id, group |-> None, seg |-> None]

Lines == [t : {"m", "d", "f"}, id : Nat, group : Groups \cup {None}, seg : Nat \cup {None}]

(* A segment's lines; how its meta file ends: after a line, in the midst   *)
(* of one, in the midst of a character of one (the lines are UTF-8), or at *)
(* the end of one whose newline is missing; the length of its body file    *)
(* and the messages in it.                                                 *)
Tails    == {"ended", "cut", "garbled", "unended"}
Segment  == [lines : Seq(Lines), tail : Tails, used : Nat, bodies : SUBSET Nat]
EmptySeg == [lines |-> <<>>, tail |-> "ended", used |-> 0, bodies |-> {}]
Entry    == [seg : Nat, group : Groups \cup {None}]

TypeOK ==
    /\ DOMAIN disk \subseteq Nat
    /\ \A n \in DOMAIN disk : disk[n] \in Segment
    /\ running \in BOOLEAN
    /\ cur \in DOMAIN disk \cup {None}
    /\ records \in Nat
    /\ DOMAIN index \subseteq Nat
    /\ \A id \in DOMAIN index : index[id] \in Entry
    /\ nextId \in Nat \ {0}
    /\ maxEntries \in Entries
    /\ op \in {"idle", "body", "meta", "lines", "reclaim"}
    /\ msg = None \/ msg \in [id : Nat, att : Nat, body : Nat, group : Groups \cup {None}]
    /\ todo \subseteq Lines
    /\ sweep \in BOOLEAN
    /\ gone \subseteq Nat
    /\ byHand \subseteq gone
    /\ edits \in 0 .. MaxEdits
    /\ crashes \in 0 .. MaxCrashes

-----------------------------------------------------------------------------
(* What the lines on disk amount to: Store::open reads the segments in the *)
(* order of their numbers.                                                 *)

Places == UNION {{n} \X DOMAIN disk[n].lines : n \in DOMAIN disk}
LineAt(p) == disk[p[1]].lines[p[2]]
Before(p, q) == p[1] < q[1] \/ (p[1] = q[1] /\ p[2] < q[2])

Messages(id) == {p \in Places : LineAt(p).t = "m" /\ LineAt(p).id = id}
Deletes(id)  == {p \in Places : LineAt(p).t = "d" /\ LineAt(p).id = id}
Floors       == {LineAt(p).id : p \in {q \in Places : LineAt(q).t = "f"}}
Seen         == {LineAt(p).id : p \in Places}

(* A message is live when a line of it comes after every deletion of it    *)
(* and no floor is above it; its last line counts.                         *)
Alive(id) ==
    /\ \E p \in Messages(id) : \A q \in Deletes(id) : Before(q, p)
    /\ \A f \in Floors : f <= id
Live == {id \in Seen : Alive(id)}
LastMessage(id) ==
    CHOOSE p \in Messages(id) : \A q \in Messages(id) : q = p \/ Before(q, p)
Replay ==
    [id \in Live |-> LET line == LineAt(LastMessage(id))
                     IN  [seg |-> line.seg, group |-> line.group]]
NextIdOf(ids) == IF ids = {} THEN 1 ELSE Max(ids) + 1

-----------------------------------------------------------------------------
(* ensure_open: the segment the next write goes to.  incoming is what the  *)
(* caller says it will add; the text of a body is taken to fit Reserve.    *)

LastSegment == Max(DOMAIN disk)

NeedRoll(incoming) ==
    \/ cur = None
    \/ disk[cur].used + incoming > MaxBody
    \/ records >= MaxRecords

SegmentFor(incoming) ==
    IF ~ NeedRoll(incoming) THEN cur
    ELSE IF DOMAIN disk = {} THEN 1
    ELSE IF cur = None /\ disk[LastSegment].used + incoming <= MaxBody THEN LastSegment
    ELSE LastSegment + 1

(* A fresh segment that is "full" at once makes ensure_open call itself    *)
(* again, and the next one is just as full: it does not return.            *)
Returns(incoming) == SegmentFor(incoming) \in DOMAIN disk \/ incoming <= MaxBody

Opened(incoming) ==
    LET n == SegmentFor(incoming) IN IF n \in DOMAIN disk THEN disk[n] ELSE EmptySeg
RecordsIn(incoming) == IF NeedRoll(incoming) THEN 0 ELSE records

PutSegment(n, seg) == [k \in DOMAIN disk \cup {n} |-> IF k = n THEN seg ELSE disk[k]]

(* (Slip: what a crash has left is never got past.)                        *)
GluedForEver(seg, line) ==
    [seg EXCEPT !.tail = IF @ = "unended" THEN "cut" ELSE @,
                !.lines = CASE seg.tail = "ended"   -> Append(@, line)
                            [] seg.tail = "unended" -> Front(@)
                            [] seg.tail \in {"cut", "garbled"} -> @]

(* Appending a line to what a crash has left makes one line of both, which *)
(* read_meta skips.  When a character was cut that line is not UTF-8, and  *)
(* read_meta stops there.                                                  *)
Written(seg, line) ==
    [seg EXCEPT !.tail = IF @ = "garbled" THEN @ ELSE "ended",
                !.lines = CASE seg.tail = "ended"   -> Append(@, line)
                            [] seg.tail = "unended" -> Front(@)
                            [] seg.tail \in {"cut", "garbled"} -> @]

(* A line that is not written to its end, or not its newline.              *)
TornOff(seg, line, tail) ==
    IF seg.tail # "ended"
    THEN [Written(seg, line) EXCEPT
             !.tail = IF "garbled" \in {seg.tail, tail} THEN "garbled" ELSE "cut"]
    ELSE [seg EXCEPT !.tail = tail,
                     !.lines = IF tail = "unended" THEN Append(@, line) ELSE @]

-----------------------------------------------------------------------------
(* enforce: the newest max_entries messages stay, and fewer if the age     *)
(* limit takes some of those (the clock is not modelled: any number).      *)

Newest(ix, from) == [id \in {i \in DOMAIN ix : i >= from} |-> ix[id]]
Enforced(ix, max) ==
    {kept \in {Newest(ix, from) : from \in 1 .. MaxId + 1} :
        /\ Cardinality(DOMAIN kept) <= max
        /\ ByAge \/ kept = ix \/ Cardinality(DOMAIN kept) = max}

(* (Slip: the floor of an empty index is 0.)                               *)
FloorOrZero(ix, next) == IF DOMAIN ix = {} THEN 0 ELSE Min(DOMAIN ix)

(* (Slip: the floor is the last id evicted.)                               *)
FloorAtEvicted(ix, next) == IF DOMAIN ix = {} THEN next - 1 ELSE Min(DOMAIN ix) - 1

FloorOf(ix, next) == IF DOMAIN ix = {} THEN next ELSE Min(DOMAIN ix)

(* What an operation that ends with enforce leaves to do.                  *)
Enforce(ix, max, next) ==
    \E kept \in Enforced(ix, max) :
        /\ index' = kept
        /\ gone' = gone \cup (DOMAIN ix \ DOMAIN kept)
        /\ IF kept = ix
           THEN op' = "idle" /\ todo' = {} /\ sweep' = FALSE
           ELSE op' = "lines" /\ todo' = {FloorLine(FloorOf(kept, next))} /\ sweep' = TRUE

-----------------------------------------------------------------------------
Init ==
    /\ disk = <<>>
    /\ running = TRUE
    /\ cur = None
    /\ records = 0
    /\ index = <<>>
    /\ nextId = 1
    /\ maxEntries \in Entries
    /\ op = "idle"
    /\ msg = None
    /\ todo = {}
    /\ sweep = FALSE
    /\ gone = {}
    /\ byHand = {}
    /\ edits = 0
    /\ crashes = 0

Ready == running /\ op = "idle"

(* append takes an id, ...                                                 *)
TakeId(size, group) ==
    /\ Ready
    /\ nextId <= MaxId
    /\ msg' = [id |-> nextId, att |-> size.att, body |-> size.body, group |-> group]
    /\ nextId' = nextId + 1
    /\ op' = "body"
    /\ UNCHANGED <<disk, running, cur, records, index, maxEntries, todo, sweep, history>>

(* ... writes attachments and body (the attachments have a file of their   *)
(* own, and do not count towards the length of the segment), ...           *)
WriteBody ==
    /\ op = "body"
    /\ LET incoming == msg.att + Reserve
           n == SegmentFor(incoming)
       IN  /\ Returns(incoming)
           /\ disk' = PutSegment(n, [Opened(incoming) EXCEPT
                                        !.used = @ + msg.body,
                                        !.bodies = @ \cup {msg.id}])
           /\ cur' = n
           /\ records' = RecordsIn(incoming)
    /\ op' = "meta"
    /\ UNCHANGED <<running, index, nextId, maxEntries, msg, todo, sweep, history>>

(* ... then the line, by which the message exists, and enforces the limits.*)
WriteMeta ==
    /\ op = "meta"
    /\ disk' = PutSegment(cur, Written(disk[cur], MsgLine(msg.id, msg.group, cur)))
    /\ records' = records + 1
    /\ msg' = None
    /\ Enforce([id \in DOMAIN index \cup {msg.id} |->
                    IF id = msg.id THEN [seg |-> cur, group |-> msg.group] ELSE index[id]],
               maxEntries, nextId)
    /\ UNCHANGED <<running, cur, nextId, maxEntries, byHand, edits, crashes>>

(* A request that changes what is stored.                                  *)
Edit ==
    /\ Ready
    /\ edits < MaxEdits
    /\ edits' = edits + 1
    /\ UNCHANGED <<disk, running, cur, records, nextId, msg, crashes>>

(* delete drops what it finds and writes a deletion for every id asked.    *)
Delete(ids) ==
    /\ Edit
    /\ ids \cap DOMAIN index # {}
    /\ index' = [id \in DOMAIN index \ ids |-> index[id]]
    /\ gone' = gone \cup (ids \cap DOMAIN index)
    /\ byHand' = byHand \cup (ids \cap DOMAIN index)
    /\ todo' = {DelLine(id) : id \in ids}
    /\ sweep' = TRUE
    /\ op' = "lines"
    /\ UNCHANGED maxEntries

Clear ==
    /\ Edit
    /\ index' = <<>>
    /\ gone' = gone \cup DOMAIN index
    /\ todo' = {FloorLine(nextId)}
    /\ sweep' = TRUE
    /\ op' = "lines"
    /\ UNCHANGED <<maxEntries, byHand>>

(* (Slip: the copy names the segment it is written to.)                    *)
SetGroupMoved(id, group) ==
    /\ Edit
    /\ id \in DOMAIN index
    /\ index[id].group # group
    /\ index' = [index EXCEPT ![id].group = group]
    /\ todo' = {MsgLine(id, group, SegmentFor(0))}
    /\ sweep' = FALSE
    /\ op' = "lines"
    /\ UNCHANGED <<maxEntries, gone, byHand>>

(* set_group writes a copy of the message's line and unlinks nothing.      *)
SetGroup(id, group) ==
    /\ Edit
    /\ id \in DOMAIN index
    /\ index[id].group # group
    /\ index' = [index EXCEPT ![id].group = group]
    /\ todo' = {MsgLine(id, group, index[id].seg)}
    /\ sweep' = FALSE
    /\ op' = "lines"
    /\ UNCHANGED <<maxEntries, gone, byHand>>

SetRetention(max) ==
    /\ Edit
    /\ maxEntries' = max
    /\ Enforce(index, max, nextId)
    /\ UNCHANGED byHand

(* append_meta, one line; the last one is followed by reclaim.             *)
WriteLine ==
    /\ op = "lines"
    /\ \E line \in todo :
          /\ disk' = PutSegment(SegmentFor(0), Written(Opened(0), line))
          /\ todo' = todo \ {line}
          /\ op' = IF todo # {line} THEN "lines" ELSE IF sweep THEN "reclaim" ELSE "idle"
    /\ cur' = SegmentFor(0)
    /\ records' = RecordsIn(0)
    /\ UNCHANGED <<running, index, nextId, maxEntries, msg, sweep, history>>

(* (Slip: the segment being written can be unlinked.)                      *)
OrphansAndCurrent == DOMAIN disk \ {index[id].seg : id \in DOMAIN index}

(* (Slip: only the segment of the oldest message is kept.)                 *)
OrphansButOldest ==
    DOMAIN disk \ ({index[id].seg : id \in {FloorOf(index, 0)} \cap DOMAIN index} \cup {cur})

(* reclaim unlinks the segments no indexed message lies in, one by one.    *)
Orphans == DOMAIN disk \ ({index[id].seg : id \in DOMAIN index} \cup {cur})

DropSegment ==
    /\ op = "reclaim"
    /\ Orphans # {}
    /\ disk' = [n \in DOMAIN disk \ {Min(Orphans)} |-> disk[n]]
    /\ UNCHANGED <<running, memory, request, history>>

EndReclaim ==
    /\ op = "reclaim"
    /\ Orphans = {}
    /\ op' = "idle"
    /\ sweep' = FALSE
    /\ UNCHANGED <<disk, running, memory, msg, todo, history>>

-----------------------------------------------------------------------------
(* The end of the process, whatever it was doing.  A line it was writing   *)
(* may be there in part, or without its newline (a line longer than the    *)
(* writer's buffer goes out in two writes).                                *)
Writing ==
    CASE op = "meta"  -> {MsgLine(msg.id, msg.group, cur)}
      [] op = "lines" -> todo
      [] OTHER        -> {}

Torn(line) ==
    LET n == IF op = "meta" THEN cur ELSE SegmentFor(0)
        seg == IF n \in DOMAIN disk THEN disk[n] ELSE EmptySeg
    IN  \E tail \in Tears : disk' = PutSegment(n, TornOff(seg, line, tail))

(* ensure_open may have made the segment of a write that never came.       *)
RolledOnly ==
    \E incoming \in (IF op = "body" THEN {msg.att + Reserve} ELSE IF op = "lines" THEN {0} ELSE {}) :
        /\ Returns(incoming)
        /\ disk' = PutSegment(SegmentFor(incoming), Opened(incoming))

Crash ==
    /\ running
    /\ crashes < MaxCrashes
    /\ crashes' = crashes + 1
    /\ \/ disk' = disk
       \/ RolledOnly
       \/ \E line \in Writing : Torn(line)
    /\ running' = FALSE
    /\ cur' = None
    /\ records' = 0
    /\ index' = <<>>
    /\ nextId' = 1
    /\ op' = "idle"
    /\ msg' = None
    /\ todo' = {}
    /\ sweep' = FALSE
    /\ UNCHANGED <<maxEntries, gone, byHand, edits>>

(* Store::open, with the limit the configuration has by then.              *)
Open(max) ==
    /\ ~ running
    /\ running' = TRUE
    /\ maxEntries' = max
    /\ nextId' = NextIdOf(Seen)
    /\ Enforce(Replay, max, NextIdOf(Seen))
    /\ UNCHANGED <<disk, cur, records, msg, byHand, edits, crashes>>

-----------------------------------------------------------------------------
Work == WriteBody \/ WriteMeta \/ WriteLine \/ DropSegment \/ EndReclaim

Next ==
    \/ \E size \in Sizes, group \in NewGroups : TakeId(size, group)
    \/ \E ids \in SUBSET Ids : Delete(ids)
    \/ Clear
    \/ \E id \in Ids, group \in Groups \cup {None} : SetGroup(id, group)
    \/ \E max \in Entries : SetRetention(max)
    \/ Work
    \/ Crash
    \/ \E max \in Entries : Open(max)

Spec == Init /\ [][Next]_vars

(* The thread that holds the mutex goes on.                                *)
FairSpec == Spec /\ WF_vars(Work)

-----------------------------------------------------------------------------
(* Properties.                                                             *)

(* No message is lost: whenever the process ends, whatever it was in the   *)
(* middle of, what is indexed and was never taken out is on disk, live,    *)
(* and found in the segment it lies in (append, enforce, reclaim, open).   *)
NoLoss ==
    running =>
        \A id \in DOMAIN index \ gone :
            Alive(id) /\ LineAt(LastMessage(id)).seg = index[id].seg

(* A crash that cuts a line off costs two messages at most, although open  *)
(* does not look how a meta file ends: the line that had everything but    *)
(* its newline, and the next one, which is acknowledged and indexed and    *)
(* gone after a restart (append_meta, read_meta).  Lines after those are   *)
(* read again, however often the process crashes, except in a segment      *)
(* where a character was cut: nothing it is given from then on is read.    *)
Garbled(n) == n \in DOMAIN disk /\ disk[n].tail = "garbled"
TornLineCostsTwo ==
    running =>
        Cardinality({id \in DOMAIN index \ gone : ~ Alive(id) /\ ~ Garbled(index[id].seg)})
            <= 2 * crashes

(* No body is unlinked while its message is indexed, and none is looked    *)
(* for in the wrong segment: get and attachment find it.                   *)
BodyThere ==
    running =>
        \A id \in DOMAIN index \ gone :
            /\ index[id].seg \in DOMAIN disk
            /\ id \in disk[index[id].seg].bodies

(* As long as nobody deletes by hand, a restart between two requests finds *)
(* exactly the messages there are: evictions and clear are final (the      *)
(* lines that say so are unlinked only with what they are about), whatever *)
(* crashes came before.                                                    *)
EvictionIsFinal == Ready /\ byHand = {} => Live = DOMAIN index

(* As long as nobody deletes by hand, an id that a message had is never    *)
(* given to another, now or after a restart, even when the segment of the  *)
(* last one has been unlinked (open counts on from the largest id that any *)
(* line has, and the floor of an empty index is the next id).              *)
IdsNotReused ==
    Ready /\ byHand = {} =>
        \A id \in DOMAIN index \cup gone : id < nextId /\ id < NextIdOf(Seen)

-----------------------------------------------------------------------------
(* What the tests and the readme say of the store, and the code does not   *)
(* do.                                                                     *)

(* The tests delete_and_clear (lib.rs:738) and regrouping_is_persisted     *)
(* (lib.rs:768): a restart finds what was there, without what was deleted  *)
(* and with the groups set.  The line that says so can lie in another      *)
(* segment than the message, and is unlinked with it.                      *)
RestartChangesNothing == Ready => Replay = index

(* readme.md:93 and 107: a message within stmp_maxsize is stored, with its *)
(* attachments if they are kept: an append ends.                           *)
AppendEnds == op = "body" ~> (op # "body" \/ ~ running)
=============================================================================
