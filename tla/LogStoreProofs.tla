--------------------------- MODULE LogStoreProofs ---------------------------
(***************************************************************************)
(* Proofs about LogStore, for any sizes, limits, groups and bounds: its    *)
(* types; that a crash that cuts a line off costs two messages at most,    *)
(* but for the segments where it cuts a character; and that, when no crash *)
(* cuts one off (Tears = {}), no message is lost and no body unlinked that *)
(* somebody may ask for, evictions are final and ids are not given out     *)
(* again.                                                                  *)
(*                                                                         *)
(* What is kept of a message is said of the disk alone (DiskInv), so that  *)
(* it holds across a crash; memory agrees with it while the process runs   *)
(* (MemInv); and an operation in progress will not write what contradicts  *)
(* it (OpInv).  All of it is said of the messages outside a set V \cup W,  *)
(* those that the crashes so far have cost: what happens to them is of no  *)
(* consequence for the others.  V grows only when something is written to  *)
(* a meta file that a crash has left torn, by two (Costs); W holds what    *)
(* was written to a segment where a character was cut (Spoilt).            *)
(*                                                                         *)
(* The actions do one of four things to the lines: leave them (SameLines), *)
(* append one (Grows), drop a segment (Shrinks), take one off (Cuts).  So  *)
(* there is a lemma that each action keeps Kept(V), for any V the line it  *)
(* takes off is in (...Safe, ...Glued), and one that it keeps StoreInv,    *)
(* with the V and the W it takes (...Keeps).                               *)
(***************************************************************************)
EXTENDS LogStore, FiniteSetTheorems, WellFoundedInduction, TLAPS

(* The segments are segments, and numbers stay finite.                     *)
Sound ==
    /\ DOMAIN disk \subseteq Nat
    /\ \A n \in DOMAIN disk : disk[n] \in Segment
    /\ \E b \in Nat : /\ \A n \in DOMAIN disk : n <= b
                      /\ \A p \in Places : LineAt(p).id <= b

(* All lines of a message name one segment, its home, and come after every *)
(* deletion of its number; no floor is above it.  One of them is at home,  *)
(* and so is its body, unless the message is in V.                         *)
SafeAt(V, id, h) ==
    /\ \A p \in Messages(id) : LineAt(p).seg = h /\ \A q \in Deletes(id) : Before(q, p)
    /\ \A f \in Floors : f <= id
    /\ id \notin V =>
          /\ h \in DOMAIN disk
          /\ \E p \in Messages(id) : p[1] = h
          /\ id \in disk[h].bodies

DiskInv(V) ==
    \A id \in Nat \ gone : Messages(id) # {} => \E h : SafeAt(V, id, h)

Slot == [seg : Nat \cup {None}, group : Groups \cup {None}]

MemInv(V) ==
    running =>
        /\ \A id \in Nat \ gone : Messages(id) # {} => id \in DOMAIN index
        /\ \A id \in DOMAIN index \ (gone \cup V) : Messages(id) # {}
        /\ \A id \in DOMAIN index \ gone : \A p \in Messages(id) : LineAt(p).seg = index[id].seg
        /\ \A id \in DOMAIN index \ gone : \A f \in Floors : f <= id
        /\ \A id \in DOMAIN index : id \in Nat /\ id < nextId /\ index[id] \in Slot
        /\ \A id \in Nat : Messages(id) # {} => id < nextId
        /\ \A f \in Floors : f <= nextId
        /\ cur # None => cur \in DOMAIN disk /\ \A n \in DOMAIN disk : n <= cur

NewMessage == [id : Nat, att : Nat, body : Nat, group : Groups \cup {None}]

(* What the operation in progress is going to write.                       *)
Harmless(line) ==
    /\ line \in Lines
    /\ line.t = "f" => line.id <= nextId /\ \A id \in DOMAIN index \ gone : line.id <= id
    /\ line.t = "d" => line.id \notin DOMAIN index \ gone
    /\ line.t = "m" => line.id \in DOMAIN index /\ line.seg = index[line.id].seg

OpInv ==
    /\ nextId \in Nat /\ running \in BOOLEAN
    /\ op \in {"idle", "body", "meta", "lines", "reclaim"}
    /\ op # "idle" => running
    /\ ~ running => cur = None
    /\ op \in {"body", "meta"} =>
          /\ msg \in NewMessage /\ msg.id < nextId
          /\ msg.id \notin DOMAIN index
          /\ \A id \in Nat : Messages(id) # {} => id # msg.id
          /\ \A f \in Floors : f <= msg.id
    /\ op = "meta" => cur # None /\ msg.id \in disk[cur].bodies
    /\ op = "reclaim" => cur # None
    /\ op # "lines" => todo = {}
    /\ \A line \in todo : Harmless(line)

Kept(V) == Sound /\ DiskInv(V) /\ MemInv(V) /\ OpInv

(* The segment written next may be the last one, and that one torn: such a *)
(* write takes two messages at most, of which the crash that has torn it   *)
(* is told beforehand.                                                     *)
TornLast == \E n \in DOMAIN disk : disk[n].tail # "ended" /\ \A m \in DOMAIN disk : m <= n

Cost == IF Tears = {} THEN 0 ELSE 2 * crashes
Costs(V) ==
    /\ IsFiniteSet(V)
    /\ crashes \in Nat
    /\ Cardinality(V) + (IF TornLast THEN 2 ELSE 0) <= Cost

(* Messages that have their home in a garbled segment.                     *)
Spoilt(W) ==
    /\ Tears = {} => W = {}
    /\ \A id \in W \ gone :
          IF running
          THEN id \in DOMAIN index => Garbled(index[id].seg)
          ELSE \A p \in Messages(id) : Garbled(LineAt(p).seg)

StoreInv == \E V, W : Kept(V \cup W) /\ Costs(V) /\ Spoilt(W)

(* As long as no line is cut off, it costs nothing.                        *)
WholeInv == Kept({}) /\ ~ TornLast

-----------------------------------------------------------------------------
(* The largest and the least of some numbers.                              *)

LEMMA LeastOf ==
    ASSUME NEW T \in SUBSET Nat, T # {}
    PROVE  \E x \in T : \A y \in T : x <= y
<1> DEFINE Less == {p \in Nat \X Nat : p[1] < p[2]}
<1>1. IsWellFoundedOn(Less, Nat)
  BY NatLessThanWellFounded DEF OpToRel
<1>2. PICK x \in T : \A y \in T : <<y, x>> \notin Less
  BY <1>1, WFMin
<1>3. ASSUME NEW y \in T PROVE x <= y
  <2>1. ~ (y < x)
    BY <1>2
  <2> QED
    BY <2>1
<1> QED
  BY <1>3

LEMMA GreatestOf ==
    ASSUME NEW T \in SUBSET Nat, T # {}, NEW b \in Nat, \A y \in T : y <= b
    PROVE  \E x \in T : \A y \in T : x >= y
<1> DEFINE U == {k \in Nat : b - k \in T}
<1>1. \A y \in T : b - y \in U
  <2> SUFFICES ASSUME NEW y \in T PROVE b - y \in U
    OBVIOUS
  <2>1. b - y \in Nat /\ b - (b - y) = y
    OBVIOUS
  <2> QED
    BY <2>1
<1>2. U \in SUBSET Nat /\ U # {}
  BY <1>1
<1>3. PICK k \in U : \A j \in U : k <= j
  <2> HIDE DEF U
  <2> QED
    BY <1>2, LeastOf
<1>4. \A y \in T : b - k >= y
  <2> SUFFICES ASSUME NEW y \in T PROVE b - k >= y
    OBVIOUS
  <2>1. k <= b - y /\ k \in Nat
    BY <1>1, <1>3
  <2> QED
    BY <2>1
<1> QED
  BY <1>3, <1>4

LEMMA MinFact ==
    ASSUME NEW T \in SUBSET Nat, T # {}
    PROVE  Min(T) \in T /\ \A y \in T : Min(T) <= y
BY LeastOf DEF Min

LEMMA MaxFact ==
    ASSUME NEW T \in SUBSET Nat, T # {}, NEW b \in Nat, \A y \in T : y <= b
    PROVE  Max(T) \in T /\ \A y \in T : y <= Max(T)
<1>1. \E x \in T : \A y \in T : x >= y
  BY GreatestOf
<1>2. Max(T) \in T /\ \A y \in T : Max(T) >= y
  BY <1>1 DEF Max
<1> QED
  BY <1>2

-----------------------------------------------------------------------------
(* Places and lines.                                                       *)

LEMMA LinesAre ==
    ASSUME Sound
    PROVE  \A p \in Places :
              /\ p[1] \in DOMAIN disk /\ p[1] \in Nat /\ p[2] \in Nat /\ p = <<p[1], p[2]>>
              /\ p[2] \in DOMAIN disk[p[1]].lines
              /\ LineAt(p) \in Lines
<1> SUFFICES ASSUME NEW p \in Places
             PROVE  /\ p[1] \in DOMAIN disk /\ p[1] \in Nat /\ p[2] \in Nat /\ p = <<p[1], p[2]>>
                    /\ p[2] \in DOMAIN disk[p[1]].lines
                    /\ LineAt(p) \in Lines
  OBVIOUS
<1>1. PICK n \in DOMAIN disk : p \in {n} \X DOMAIN disk[n].lines
  BY DEF Places
<1>2. p = <<p[1], p[2]>> /\ p[1] = n /\ p[2] \in DOMAIN disk[n].lines
  BY <1>1
<1>3. disk[n].lines \in Seq(Lines) /\ n \in Nat
  BY DEF Sound, Segment
<1>4. p[2] \in Nat /\ disk[n].lines[p[2]] \in Lines
  BY <1>2, <1>3
<1> QED
  BY <1>2, <1>3, <1>4 DEF LineAt

LEMMA PlacesAre ==
    ASSUME Sound, NEW n, NEW k
    PROVE  <<n, k>> \in Places <=> n \in DOMAIN disk /\ k \in 1 .. Len(disk[n].lines)
<1>1. \A m \in DOMAIN disk : DOMAIN disk[m].lines = 1 .. Len(disk[m].lines)
  BY DEF Sound, Segment
<1>2. <<n, k>> \in Places <=> n \in DOMAIN disk /\ k \in DOMAIN disk[n].lines
  BY DEF Places
<1> QED
  BY <1>1, <1>2

(* Of the lines of a message there is a last one.                          *)
LEMMA LastIsThere ==
    ASSUME Sound, NEW id, Messages(id) # {}
    PROVE  LastMessage(id) \in Messages(id)
<1> DEFINE M == Messages(id)
           S == {p[1] : p \in M}
<1>1. \A p \in M : /\ p \in Places /\ p[1] \in Nat /\ p[2] \in Nat /\ p = <<p[1], p[2]>>
                   /\ p[1] \in DOMAIN disk /\ p[2] <= Len(disk[p[1]].lines)
                   /\ Len(disk[p[1]].lines) \in Nat
  <2> SUFFICES ASSUME NEW p \in M
               PROVE  /\ p \in Places /\ p[1] \in Nat /\ p[2] \in Nat /\ p = <<p[1], p[2]>>
                      /\ p[1] \in DOMAIN disk /\ p[2] <= Len(disk[p[1]].lines)
                      /\ Len(disk[p[1]].lines) \in Nat
    OBVIOUS
  <2>1. p \in Places
    BY DEF Messages
  <2>2. /\ p[1] \in DOMAIN disk /\ p[1] \in Nat /\ p[2] \in Nat /\ p = <<p[1], p[2]>>
        /\ p[2] \in DOMAIN disk[p[1]].lines
    BY <2>1, LinesAre
  <2>3. disk[p[1]].lines \in Seq(Lines)
    BY <2>2 DEF Sound, Segment
  <2> QED
    BY <2>1, <2>2, <2>3
<1>2. PICK b \in Nat : \A n \in DOMAIN disk : n <= b
  BY DEF Sound
<1>3. S \in SUBSET Nat /\ S # {} /\ \A n \in S : n <= b
  BY <1>1, <1>2
<1>4. PICK s \in S : \A n \in S : s >= n
  <2> HIDE DEF S
  <2> QED
    BY <1>3, GreatestOf
<1> DEFINE K == {p[2] : p \in {q \in M : q[1] = s}}
<1>5. /\ K \in SUBSET Nat /\ K # {} /\ \A k \in K : k <= Len(disk[s].lines)
      /\ Len(disk[s].lines) \in Nat
  BY <1>1, <1>4
<1>6. PICK k \in K : \A j \in K : k >= j
  <2> HIDE DEF K
  <2> QED
    BY <1>5, GreatestOf
<1>7. PICK p \in M : p[1] = s /\ p[2] = k
  BY <1>6
<1>8. ASSUME NEW q \in M PROVE q = p \/ Before(q, p)
  <2>1. q[1] \in Nat /\ s \in Nat /\ q[2] \in Nat /\ k \in Nat
    BY <1>1, <1>7
  <2>2. q[1] <= s
    BY <1>4, <2>1
  <2>3. CASE q[1] < s
    BY <1>7, <2>3 DEF Before
  <2>4. CASE q[1] = s
    <3>1. q[2] <= k
      BY <1>6, <2>1, <2>4
    <3>2. q[2] = k => q = p
      BY <1>1, <1>7, <2>4
    <3> QED
      BY <1>7, <2>1, <2>4, <3>1, <3>2 DEF Before
  <2> QED
    BY <2>1, <2>2, <2>3, <2>4
<1> HIDE DEF M
<1>9. \E x \in M : \A q \in M : q = x \/ Before(q, x)
  BY <1>7, <1>8
<1> QED
  BY <1>9 DEF LastMessage, M

-----------------------------------------------------------------------------
(* What an action can do to the lines.                                     *)

SameLines ==
    /\ Places' = Places
    /\ \A p \in Places : LineAt(p)' = LineAt(p)

Grows(p, line) ==
    /\ p \notin Places
    /\ Places' = Places \cup {p}
    /\ \A q \in Places : LineAt(q)' = LineAt(q) /\ Before(q, p)
    /\ LineAt(p)' = line

Shrinks(n) ==
    /\ Places' = {p \in Places : p[1] # n}
    /\ \A p \in Places : p[1] # n => LineAt(p)' = LineAt(p)

LEMMA SameSets ==
    ASSUME SameLines
    PROVE  /\ \A id : Messages(id)' = Messages(id) /\ Deletes(id)' = Deletes(id)
           /\ Floors' = Floors
           /\ \A id : \A p \in Messages(id) : LineAt(p)' = LineAt(p)
<1>1. \A id : Messages(id)' = Messages(id)
  BY DEF SameLines, Messages
<1>2. \A id : Deletes(id)' = Deletes(id)
  BY DEF SameLines, Deletes
<1>3. Floors' = Floors
  BY DEF SameLines, Floors
<1>4. \A id : \A p \in Messages(id) : LineAt(p)' = LineAt(p)
  BY DEF SameLines, Messages
<1> QED
  BY <1>1, <1>2, <1>3, <1>4

LEMMA GrowSets ==
    ASSUME NEW p, NEW line, Grows(p, line)
    PROVE  /\ \A id : /\ Messages(id) \subseteq Messages(id)'
                      /\ \A q \in Messages(id)' : q \in Messages(id) \/ q = p
                      /\ p \in Messages(id)' <=> line.t = "m" /\ line.id = id
                      /\ \A q \in Messages(id) : LineAt(q)' = LineAt(q) /\ Before(q, p)
                      /\ Deletes(id) \subseteq Deletes(id)'
                      /\ \A q \in Deletes(id)' : q \in Deletes(id) \/ q = p
                      /\ p \in Deletes(id)' <=> line.t = "d" /\ line.id = id
                      /\ \A q \in Deletes(id) : Before(q, p)
           /\ Floors' = Floors \cup (IF line.t = "f" THEN {line.id} ELSE {})
<1>1. ASSUME NEW id
      PROVE  /\ Messages(id) \subseteq Messages(id)'
             /\ \A q \in Messages(id)' : q \in Messages(id) \/ q = p
             /\ p \in Messages(id)' <=> line.t = "m" /\ line.id = id
             /\ \A q \in Messages(id) : LineAt(q)' = LineAt(q) /\ Before(q, p)
  BY DEF Grows, Messages
<1>2. ASSUME NEW id
      PROVE  /\ Deletes(id) \subseteq Deletes(id)'
             /\ \A q \in Deletes(id)' : q \in Deletes(id) \/ q = p
             /\ p \in Deletes(id)' <=> line.t = "d" /\ line.id = id
             /\ \A q \in Deletes(id) : Before(q, p)
  BY DEF Grows, Deletes
<1>3. Floors' = Floors \cup (IF line.t = "f" THEN {line.id} ELSE {})
  <2>1. CASE line.t = "f"
    BY <2>1 DEF Grows, Floors
  <2>2. CASE line.t # "f"
    BY <2>2 DEF Grows, Floors
  <2> QED
    BY <2>1, <2>2
<1> QED
  BY <1>1, <1>2, <1>3

LEMMA ShrinkSets ==
    ASSUME NEW n, Shrinks(n)
    PROVE  /\ \A id : /\ Messages(id)' = {p \in Messages(id) : p[1] # n}
                      /\ \A p \in Messages(id)' : LineAt(p)' = LineAt(p)
                      /\ Deletes(id)' \subseteq Deletes(id)
           /\ Floors' \subseteq Floors
<1>1. \A id : Messages(id)' = {p \in Messages(id) : p[1] # n}
  BY DEF Shrinks, Messages
<1>2. \A id : \A p \in Messages(id)' : LineAt(p)' = LineAt(p)
  BY <1>1 DEF Shrinks, Messages
<1>3. \A id : Deletes(id)' \subseteq Deletes(id)
  BY DEF Shrinks, Deletes
<1>4. Floors' \subseteq Floors
  BY DEF Shrinks, Floors
<1> QED
  BY <1>1, <1>2, <1>3, <1>4

(* The writes: of a line at the end of the last segment, of anything else, *)
(* and the unlinking of a segment.                                         *)
LinesIn(n) == IF n \in DOMAIN disk THEN disk[n].lines ELSE <<>>

LEMMA PutSame ==
    ASSUME Sound, NEW n \in Nat, NEW seg \in Segment,
           seg.lines = LinesIn(n), disk' = PutSegment(n, seg)
    PROVE  /\ SameLines /\ Sound'
           /\ DOMAIN disk' = DOMAIN disk \cup {n} /\ disk'[n] = seg
           /\ \A m \in DOMAIN disk : m # n => disk'[m] = disk[m]
<1>1. /\ DOMAIN disk' = DOMAIN disk \cup {n} /\ disk'[n] = seg
      /\ \A m \in DOMAIN disk : m # n => disk'[m] = disk[m]
  BY DEF PutSegment
<1>2. \A m \in DOMAIN disk' : disk'[m].lines = LinesIn(m)
  BY <1>1 DEF LinesIn
<1>3. Places' = Places
  <2>1. n \notin DOMAIN disk => DOMAIN LinesIn(n) = {}
    BY DEF LinesIn
  <2> QED
    BY <1>1, <1>2, <2>1 DEF Places, LinesIn
<1>4. \A p \in Places : LineAt(p)' = LineAt(p)
  <2>1. \A p \in Places : p[1] \in DOMAIN disk
    BY LinesAre
  <2> QED
    BY <1>1, <1>2, <2>1 DEF LineAt, LinesIn
<1>5. SameLines
  BY <1>3, <1>4 DEF SameLines
<1>6. Sound'
  <2>1. DOMAIN disk' \subseteq Nat /\ \A m \in DOMAIN disk' : disk'[m] \in Segment
    BY <1>1 DEF Sound
  <2>2. PICK b \in Nat : (\A m \in DOMAIN disk : m <= b) /\ \A p \in Places : LineAt(p).id <= b
    BY DEF Sound
  <2>3. \A p \in Places : LineAt(p).id \in Nat
    BY LinesAre DEF Lines
  <2> DEFINE c == IF n <= b THEN b ELSE n
  <2>4. c \in Nat /\ (\A m \in DOMAIN disk' : m <= c) /\ \A p \in Places : LineAt(p).id <= c
    BY <1>1, <2>2, <2>3 DEF Sound
  <2> HIDE DEF c
  <2>5. \A p \in Places' : LineAt(p)' = LineAt(p) /\ LineAt(p).id <= c
    BY <1>3, <1>4, <2>4
  <2>6. \A p \in Places' : (LineAt(p).id)' <= c
    BY <2>5
  <2> QED
    BY <2>1, <2>4, <2>6 DEF Sound
<1> QED
  BY <1>1, <1>5, <1>6

LEMMA PutGrows ==
    ASSUME Sound, NEW n \in Nat, NEW seg \in Segment,
           seg.lines = LinesIn(n), \A m \in DOMAIN disk : m <= n,
           NEW line \in Lines, NEW new \in Segment,
           new.lines = Append(seg.lines, line), new.bodies = seg.bodies,
           disk' = PutSegment(n, new)
    PROVE  /\ Grows(<<n, Len(seg.lines) + 1>>, line) /\ Sound'
           /\ DOMAIN disk' = DOMAIN disk \cup {n} /\ disk'[n].bodies = seg.bodies
           /\ \A m \in DOMAIN disk : m # n => disk'[m] = disk[m]
<1> DEFINE k == Len(seg.lines) + 1
           p == <<n, k>>
<1>1. /\ DOMAIN disk' = DOMAIN disk \cup {n} /\ disk'[n] = new
      /\ \A m \in DOMAIN disk : m # n => disk'[m] = disk[m]
  BY DEF PutSegment
<1>2. /\ new \in Segment /\ new.bodies = seg.bodies
      /\ new.lines = Append(seg.lines, line)
  OBVIOUS
<1>3. /\ seg.lines \in Seq(Lines) /\ k \in Nat /\ DOMAIN seg.lines = 1 .. Len(seg.lines)
      /\ DOMAIN new.lines = 1 .. k /\ new.lines[k] = line
      /\ \A j \in 1 .. Len(seg.lines) : new.lines[j] = seg.lines[j]
  <2>1. seg.lines \in Seq(Lines)
    BY DEF Segment
  <2> QED
    BY <1>2, <2>1
<1>4. \A m \in DOMAIN disk : m # n => disk'[m].lines = disk[m].lines
  BY <1>1
<1>5. \A j : <<n, j>> \in Places <=> j \in 1 .. Len(seg.lines)
  <2>1. CASE n \in DOMAIN disk
    BY <1>3, <2>1 DEF Places, LinesIn
  <2>2. CASE n \notin DOMAIN disk
    <3>1. Len(seg.lines) = 0
      BY <2>2 DEF LinesIn
    <3> QED
      BY <2>2, <3>1 DEF Places
  <2> QED
    BY <2>1, <2>2
<1>6. p \notin Places
  BY <1>3, <1>5
<1>7. Places' = Places \cup {p}
  <2>1. Places' = UNION {{m} \X DOMAIN disk'[m].lines : m \in DOMAIN disk \cup {n}}
    BY <1>1 DEF Places
  <2>2. \A m, j : <<m, j>> \in Places' <=> m \in DOMAIN disk \cup {n} /\ j \in DOMAIN disk'[m].lines
    BY <2>1
  <2>3. \A m, j : <<m, j>> \in Places <=> m \in DOMAIN disk /\ j \in DOMAIN disk[m].lines
    BY DEF Places
  <2>4. \A m, j : <<m, j>> \in Places' <=> <<m, j>> \in Places \/ (m = n /\ j = k)
    <3>1. ASSUME NEW m, NEW j, m # n
          PROVE  <<m, j>> \in Places' <=> <<m, j>> \in Places
      BY <1>4, <2>2, <2>3, <3>1
    <3>2. ASSUME NEW j PROVE <<n, j>> \in Places' <=> <<n, j>> \in Places \/ j = k
      <4>1. <<n, j>> \in Places' <=> j \in 1 .. k
        BY <1>1, <1>3, <2>2
      <4> QED
        BY <1>3, <1>5, <4>1
    <3> QED
      BY <3>1, <3>2
  <2>5. /\ \A q \in Places : q = <<q[1], q[2]>>
        /\ \A q \in Places' : q = <<q[1], q[2]>>
    BY <2>1 DEF Places
  <2> QED
    BY <2>4, <2>5
<1>8. \A q \in Places : LineAt(q)' = LineAt(q) /\ Before(q, p)
  <2> SUFFICES ASSUME NEW q \in Places PROVE LineAt(q)' = LineAt(q) /\ Before(q, p)
    OBVIOUS
  <2>1. /\ q[1] \in DOMAIN disk /\ q[1] \in Nat /\ q[2] \in Nat /\ q = <<q[1], q[2]>>
        /\ q[1] <= n
    BY LinesAre
  <2>2. CASE q[1] = n
    <3>1. q[2] \in 1 .. Len(seg.lines)
      BY <1>5, <2>1, <2>2
    <3>2. seg.lines = disk[n].lines
      BY <2>1, <2>2 DEF LinesIn
    <3> QED
      BY <1>1, <1>3, <2>2, <3>1, <3>2 DEF LineAt, Before
  <2>3. CASE q[1] # n
    BY <1>4, <2>1, <2>3 DEF LineAt, Before
  <2> QED
    BY <2>2, <2>3
<1>9. LineAt(p)' = line
  BY <1>1, <1>3 DEF LineAt
<1>10. Grows(p, line)
  BY <1>6, <1>7, <1>8, <1>9 DEF Grows
<1>11. Sound'
  <2>1. DOMAIN disk' \subseteq Nat /\ \A m \in DOMAIN disk' : disk'[m] \in Segment
    BY <1>1, <1>2 DEF Sound
  <2>2. PICK b \in Nat : (\A m \in DOMAIN disk : m <= b) /\ \A q \in Places : LineAt(q).id <= b
    BY DEF Sound
  <2>3. line.id \in Nat /\ \A q \in Places : LineAt(q).id \in Nat
    BY LinesAre DEF Lines
  <2> DEFINE c == b + n + line.id
  <2>4. c \in Nat /\ (\A m \in DOMAIN disk' : m <= c) /\ line.id <= c
        /\ \A q \in Places : LineAt(q).id <= c
    BY <1>1, <2>2, <2>3 DEF Sound
  <2> HIDE DEF c
  <2>5. \A q \in Places' : (LineAt(q).id)' <= c
    BY <1>7, <1>8, <1>9, <2>4
  <2> QED
    BY <2>1, <2>4, <2>5 DEF Sound
<1> QED
  BY <1>1, <1>2, <1>10, <1>11

LEMMA WriteGrows ==
    ASSUME Sound, NEW n \in Nat, NEW seg \in Segment, seg.tail = "ended",
           seg.lines = LinesIn(n), \A m \in DOMAIN disk : m <= n,
           NEW line \in Lines, disk' = PutSegment(n, Written(seg, line))
    PROVE  /\ Grows(<<n, Len(seg.lines) + 1>>, line) /\ Sound'
           /\ DOMAIN disk' = DOMAIN disk \cup {n} /\ disk'[n].bodies = seg.bodies
           /\ \A m \in DOMAIN disk : m # n => disk'[m] = disk[m]
<1>1. PICK new : new = Written(seg, line)
  OBVIOUS
<1>2. new \in Segment /\ new.bodies = seg.bodies /\ new.lines = Append(seg.lines, line)
  <2>1. Append(seg.lines, line) \in Seq(Lines)
    BY DEF Segment
  <2> QED
    BY <1>1, <2>1 DEF Written, Segment, Tails
<1>3. disk' = PutSegment(n, new)
  BY <1>1
<1> QED
  BY <1>2, <1>3, PutGrows

LEMMA DropShrinks ==
    ASSUME Sound, NEW n, disk' = [m \in DOMAIN disk \ {n} |-> disk[m]]
    PROVE  Shrinks(n) /\ Sound'
<1>1. DOMAIN disk' = DOMAIN disk \ {n} /\ \A m \in DOMAIN disk' : disk'[m] = disk[m]
  OBVIOUS
<1>2. Places' = {p \in Places : p[1] # n}
  BY <1>1 DEF Places
<1>3. \A p \in Places' : LineAt(p)' = LineAt(p)
  <2>1. \A p \in Places' : p[1] \in DOMAIN disk'
    BY <1>2, LinesAre, <1>1
  <2> QED
    BY <1>1, <2>1 DEF LineAt
<1>4. Sound'
  BY <1>1, <1>2, <1>3 DEF Sound
<1> QED
  BY <1>2, <1>3, <1>4 DEF Shrinks

-----------------------------------------------------------------------------
(* Where a write goes: no segment is after it.                             *)
LEMMA SegmentFact ==
    ASSUME Sound, cur # None => cur \in DOMAIN disk /\ \A n \in DOMAIN disk : n <= cur,
           NEW incoming
    PROVE  /\ SegmentFor(incoming) \in Nat
           /\ \A n \in DOMAIN disk : n <= SegmentFor(incoming)
           /\ Opened(incoming) \in Segment
           /\ Opened(incoming).lines = LinesIn(SegmentFor(incoming))
<1>1. DOMAIN disk # {} => LastSegment \in DOMAIN disk /\ \A n \in DOMAIN disk : n <= LastSegment
  <2>1. DOMAIN disk \in SUBSET Nat /\ \E b \in Nat : \A n \in DOMAIN disk : n <= b
    BY DEF Sound
  <2> QED
    BY <2>1, MaxFact DEF LastSegment
<1>2. DOMAIN disk \subseteq Nat
  BY DEF Sound
<1> HIDE DEF LastSegment
<1>3. SegmentFor(incoming) \in Nat /\ \A n \in DOMAIN disk : n <= SegmentFor(incoming)
  <2>1. CASE ~ NeedRoll(incoming)
    <3>1. SegmentFor(incoming) = cur /\ cur # None
      BY <2>1 DEF SegmentFor, NeedRoll
    <3> QED
      BY <1>2, <3>1
  <2>2. CASE NeedRoll(incoming) /\ DOMAIN disk = {}
    BY <2>2 DEF SegmentFor
  <2>3. CASE NeedRoll(incoming) /\ DOMAIN disk # {}
    <3>1. SegmentFor(incoming) \in {LastSegment, LastSegment + 1}
      BY <2>3 DEF SegmentFor
    <3>2. LastSegment \in Nat /\ \A n \in DOMAIN disk : n \in Nat /\ n <= LastSegment
      BY <1>1, <1>2, <2>3
    <3> QED
      BY <3>1, <3>2
  <2> QED
    BY <2>1, <2>2, <2>3
<1>4. EmptySeg \in Segment /\ EmptySeg.lines = <<>>
  BY DEF EmptySeg, Segment, Tails
<1>5. /\ Opened(incoming) \in Segment
      /\ Opened(incoming).lines = LinesIn(SegmentFor(incoming))
  BY <1>4 DEF Opened, LinesIn, Sound
<1> QED
  BY <1>3, <1>5

-----------------------------------------------------------------------------
(* What is kept of the messages, under each of the three.                  *)
BodiesKept == \A m \in DOMAIN disk : m \in DOMAIN disk' /\ disk[m].bodies \subseteq disk'[m].bodies

LEMMA SameSafe ==
    ASSUME NEW V, DiskInv(V), SameLines, BodiesKept, gone \subseteq gone'
    PROVE  DiskInv(V)'
<1> SUFFICES ASSUME NEW id \in Nat \ gone', Messages(id)' # {}
             PROVE  \E h : SafeAt(V, id, h)'
  BY DEF DiskInv
<1>1. Messages(id)' = Messages(id) /\ Deletes(id)' = Deletes(id) /\ Floors' = Floors
  BY SameSets
<1>2. \A p \in Messages(id) : LineAt(p)' = LineAt(p)
  BY SameSets
<1>3. PICK h : SafeAt(V, id, h)
  BY <1>1 DEF DiskInv
<1>4. \A p \in Messages(id) : (LineAt(p).seg)' = h /\ \A q \in Deletes(id) : Before(q, p)'
  BY <1>2, <1>3 DEF SafeAt, Before
<1>5. SafeAt(V, id, h)'
  BY <1>1, <1>3, <1>4 DEF SafeAt, BodiesKept
<1> QED
  BY <1>5

(* What a line may say when it is written at p.                            *)
Allowed(V, p, line) ==
    /\ line.t = "f" => \A id \in Nat \ gone' : Messages(id) # {} => line.id <= id
    /\ line.t = "d" => line.id \in gone' \/ Messages(line.id) = {}
    /\ line.t = "m" /\ line.id \notin gone' =>
          /\ \A q \in Messages(line.id) : LineAt(q).seg = line.seg
          /\ \A f \in Floors : f <= line.id
          /\ line.id \in V \/ Messages(line.id) # {}
             \/ (p[1] \in DOMAIN disk' /\ line.seg = p[1] /\ line.id \in disk'[p[1]].bodies)

LEMMA GrowSafe ==
    ASSUME NEW V, DiskInv(V), NEW p, NEW line, Grows(p, line), BodiesKept, gone \subseteq gone',
           Allowed(V, p, line)
    PROVE  DiskInv(V)'
<1> SUFFICES ASSUME NEW id \in Nat \ gone', Messages(id)' # {}
             PROVE  \E h : SafeAt(V, id, h)'
  BY DEF DiskInv
<1>1. /\ Messages(id) \subseteq Messages(id)'
      /\ \A q \in Messages(id)' : q \in Messages(id) \/ q = p
      /\ p \in Messages(id)' <=> line.t = "m" /\ line.id = id
      /\ \A q \in Messages(id) : LineAt(q)' = LineAt(q) /\ Before(q, p)
      /\ \A q \in Deletes(id)' : q \in Deletes(id) \/ q = p
      /\ p \in Deletes(id)' <=> line.t = "d" /\ line.id = id
      /\ \A q \in Deletes(id) : Before(q, p)
  BY GrowSets
<1>2. Floors' = Floors \cup (IF line.t = "f" THEN {line.id} ELSE {})
  BY GrowSets
<1>3. LineAt(p)' = line
  BY DEF Grows
<1>4. CASE Messages(id) # {}
  <2>1. PICK h : SafeAt(V, id, h)
    BY <1>4 DEF DiskInv
  <2>2. ASSUME NEW q \in Messages(id)' PROVE (LineAt(q).seg)' = h
    <3>1. CASE q \in Messages(id)
      BY <1>1, <2>1, <3>1 DEF SafeAt
    <3>2. CASE q = p
      <4>1. line.t = "m" /\ line.id = id
        BY <1>1, <3>2
      <4>2. \A r \in Messages(id) : LineAt(r).seg = line.seg
        BY <4>1 DEF Allowed
      <4>3. line.seg = h
        BY <1>4, <2>1, <4>2 DEF SafeAt
      <4> QED
        BY <1>3, <3>2, <4>3
    <3> QED
      BY <1>1, <3>1, <3>2
  <2>3. \A q \in Deletes(id)' : q \in Deletes(id)
    BY <1>1, <1>4 DEF Allowed
  <2>4. \A q \in Messages(id)', r \in Deletes(id)' : Before(r, q)'
    BY <1>1, <2>1, <2>3 DEF SafeAt, Before
  <2>5. \A f \in Floors' : f <= id
    BY <1>2, <1>4, <2>1 DEF Allowed, SafeAt
  <2>6. id \notin V => /\ h \in DOMAIN disk' /\ id \in disk'[h].bodies
                       /\ \E q \in Messages(id)' : q[1] = h
    BY <1>1, <2>1 DEF SafeAt, BodiesKept
  <2>7. SafeAt(V, id, h)'
    BY <2>2, <2>4, <2>5, <2>6 DEF SafeAt
  <2> QED
    BY <2>7
<1>5. CASE Messages(id) = {}
  <2>1. line.t = "m" /\ line.id = id
    BY <1>1, <1>5
  <2>2. /\ id \in V \/ (p[1] \in DOMAIN disk' /\ line.seg = p[1] /\ id \in disk'[p[1]].bodies)
        /\ \A f \in Floors : f <= id
    BY <1>5, <2>1 DEF Allowed
  <2>3. p \in Messages(id)' /\ \A q \in Messages(id)' : q = p /\ (LineAt(q).seg)' = line.seg
    BY <1>1, <1>3, <1>5, <2>1
  <2>4. \A q \in Messages(id)', r \in Deletes(id)' : Before(r, q)'
    BY <1>1, <2>1, <2>3 DEF Before
  <2>5. Floors' = Floors
    BY <1>2, <2>1
  <2>6. SafeAt(V, id, line.seg)'
    BY <2>2, <2>3, <2>4, <2>5 DEF SafeAt
  <2> QED
    BY <2>6
<1> QED
  BY <1>4, <1>5

LEMMA ShrinkSafe ==
    ASSUME NEW V, DiskInv(V), NEW n, Shrinks(n), disk' = [m \in DOMAIN disk \ {n} |-> disk[m]],
           gone' = gone,
           \A id \in Nat \ gone : \A p \in Messages(id) : LineAt(p).seg # n
    PROVE  DiskInv(V)' /\ \A id \in Nat \ (gone \cup V) : Messages(id)' # {} <=> Messages(id) # {}
<1>1. ASSUME NEW id \in Nat \ gone, Messages(id) # {}
      PROVE  (\E h : SafeAt(V, id, h)') /\ (id \notin V => Messages(id)' # {})
  <2>1. PICK h : SafeAt(V, id, h)
    BY <1>1 DEF DiskInv
  <2>2. h # n
    BY <1>1, <2>1 DEF SafeAt
  <2>3. /\ Messages(id)' = {p \in Messages(id) : p[1] # n}
        /\ \A p \in Messages(id)' : LineAt(p)' = LineAt(p)
        /\ Deletes(id)' \subseteq Deletes(id)
    BY ShrinkSets
  <2>4. Floors' \subseteq Floors
    BY ShrinkSets
  <2>5. id \notin V => /\ h \in DOMAIN disk' /\ id \in disk'[h].bodies
                       /\ \E r \in Messages(id)' : r[1] = h
    BY <2>1, <2>2, <2>3 DEF SafeAt
  <2>6. \A p \in Messages(id)' : (LineAt(p).seg)' = h /\ \A q \in Deletes(id)' : Before(q, p)'
    BY <2>1, <2>3 DEF SafeAt, Before
  <2>7. \A f \in Floors' : f <= id
    BY <2>1, <2>4 DEF SafeAt
  <2>8. SafeAt(V, id, h)'
    BY <2>5, <2>6, <2>7 DEF SafeAt
  <2> QED
    BY <2>5, <2>8
<1>2. \A id : Messages(id)' # {} => Messages(id) # {}
  BY ShrinkSets
<1>3. DiskInv(V)'
  <2> SUFFICES ASSUME NEW id \in Nat \ gone', Messages(id)' # {}
               PROVE  \E h : SafeAt(V, id, h)'
    BY DEF DiskInv
  <2> QED
    BY <1>1, <1>2
<1> QED
  BY <1>1, <1>2, <1>3

-----------------------------------------------------------------------------
(* The segment written to is the last one.                                 *)
CurLast == cur # None => cur \in DOMAIN disk /\ \A n \in DOMAIN disk : n <= cur

(* What the index is to the lines when an operation comes to enforce: gone *)
(* is what was taken out before the step, the lines are those after it.    *)
Fits(V, ix, next) ==
    /\ \A id \in Nat \ gone : Messages(id)' # {} => id \in DOMAIN ix
    /\ \A id \in DOMAIN ix \ (gone \cup V) : Messages(id)' # {}
    /\ \A id \in DOMAIN ix \ gone : \A p \in Messages(id)' : (LineAt(p).seg)' = ix[id].seg
    /\ \A id \in DOMAIN ix \ gone : \A f \in Floors' : f <= id
    /\ \A id \in DOMAIN ix : id \in Nat /\ id < next /\ ix[id] \in Slot
    /\ \A id \in Nat : Messages(id)' # {} => id < next
    /\ \A f \in Floors' : f <= next

LEMMA Reindex ==
    ASSUME NEW V, NEW ix, NEW max, NEW next \in Nat, Enforce(ix, max, next),
           nextId' = next, running' = TRUE, CurLast', Fits(V, ix, next)
    PROVE  MemInv(V)' /\ OpInv' /\ gone \subseteq gone'
<1> USE DEF Fits
<1>1. PICK kept \in Enforced(ix, max) :
          /\ index' = kept
          /\ gone' = gone \cup (DOMAIN ix \ DOMAIN kept)
          /\ IF kept = ix
             THEN op' = "idle" /\ todo' = {} /\ sweep' = FALSE
             ELSE op' = "lines" /\ todo' = {FloorLine(FloorOf(kept, next))} /\ sweep' = TRUE
  BY DEF Enforce
<1>2. DOMAIN kept \subseteq DOMAIN ix /\ \A id \in DOMAIN kept : kept[id] = ix[id]
  <2>1. PICK from : kept = Newest(ix, from)
    BY DEF Enforced
  <2> QED
    BY <2>1 DEF Newest
<1>3. \A id : id \notin gone' => id \notin gone /\ (id \in DOMAIN ix <=> id \in DOMAIN kept)
  BY <1>1, <1>2
<1>4. MemInv(V)'
  <2>1. \A id \in Nat \ gone' : Messages(id)' # {} => id \in DOMAIN index'
    BY <1>1, <1>3
  <2>2. \A id \in DOMAIN index' \ (gone' \cup V) : Messages(id)' # {}
    BY <1>1, <1>2, <1>3
  <2>3. \A id \in DOMAIN index' \ gone' : \A p \in Messages(id)' : (LineAt(p).seg)' = index'[id].seg
    BY <1>1, <1>2, <1>3
  <2>4. \A id \in DOMAIN index' \ gone' : \A f \in Floors' : f <= id
    BY <1>1, <1>2, <1>3
  <2>5. \A id \in DOMAIN index' : id \in Nat /\ id < nextId' /\ index'[id] \in Slot
    BY <1>1, <1>2
  <2> QED
    BY <2>1, <2>2, <2>3, <2>4, <2>5 DEF MemInv, CurLast
<1>5. FloorOf(kept, next) \in Nat /\ FloorOf(kept, next) <= next
      /\ \A id \in DOMAIN kept : FloorOf(kept, next) <= id
  <2>1. CASE DOMAIN kept = {}
    BY <2>1 DEF FloorOf
  <2>2. CASE DOMAIN kept # {}
    <3>1. DOMAIN kept \in SUBSET Nat
      BY <1>2
    <3>2. Min(DOMAIN kept) \in DOMAIN kept /\ \A id \in DOMAIN kept : Min(DOMAIN kept) <= id
      BY <2>2, <3>1, MinFact
    <3>3. Min(DOMAIN kept) \in Nat /\ Min(DOMAIN kept) < next
      BY <1>2, <3>2
    <3> HIDE DEF Min
    <3> QED
      BY <2>2, <3>2, <3>3 DEF FloorOf
  <2> QED
    BY <2>1, <2>2
<1>6. \A line \in todo' : Harmless(line)'
  <2> SUFFICES ASSUME NEW line \in todo' PROVE Harmless(line)'
    OBVIOUS
  <2>1. line = FloorLine(FloorOf(kept, next))
    BY <1>1
  <2>2. line \in Lines /\ line.t = "f" /\ line.id = FloorOf(kept, next)
    BY <1>5, <2>1 DEF FloorLine, Lines
  <2> QED
    BY <1>1, <1>5, <2>2 DEF Harmless
<1>7. /\ op' \in {"idle", "lines"} /\ (op' # "lines" => todo' = {})
  BY <1>1
<1>8. OpInv'
  BY <1>6, <1>7 DEF OpInv
<1> QED
  BY <1>1, <1>4, <1>8

(* The facts an operation starts from.                                     *)
LEMMA RunningFacts ==
    ASSUME NEW V, Kept(V), running
    PROVE  /\ nextId \in Nat
           /\ \A id \in Nat \ gone : Messages(id) # {} => id \in DOMAIN index
           /\ \A id \in DOMAIN index \ (gone \cup V) : Messages(id) # {}
           /\ \A id \in DOMAIN index \ gone : \A p \in Messages(id) : LineAt(p).seg = index[id].seg
           /\ \A id \in DOMAIN index \ gone : \A f \in Floors : f <= id
           /\ \A id \in DOMAIN index : id \in Nat /\ id < nextId /\ index[id] \in Slot
           /\ \A id \in Nat : Messages(id) # {} => id < nextId
           /\ \A f \in Floors : f <= nextId
           /\ CurLast
BY DEF Kept, MemInv, OpInv, CurLast

LEMMA UnchangedDisk ==
    ASSUME disk' = disk
    PROVE  SameLines /\ BodiesKept /\ (Sound => Sound')
<1>1. Places' = Places
  BY DEF Places
<1>2. \A p : LineAt(p)' = LineAt(p)
  BY DEF LineAt
<1>3. SameLines /\ BodiesKept
  BY <1>1, <1>2 DEF SameLines, BodiesKept
<1>4. Sound => Sound'
  BY <1>1, <1>2 DEF Sound
<1> QED
  BY <1>3, <1>4

-----------------------------------------------------------------------------
(* One lemma for each action.                                              *)

LEMMA TakeIdSafe ==
    ASSUME NEW V, Kept(V), NEW size \in Sizes, NEW group \in NewGroups, TakeId(size, group)
    PROVE  Kept(V)'
<1>1. /\ running /\ op = "idle" /\ disk' = disk /\ gone' = gone /\ index' = index /\ cur' = cur
      /\ running' = running /\ todo' = todo /\ nextId' = nextId + 1 /\ op' = "body"
      /\ msg' = [id |-> nextId, att |-> size.att, body |-> size.body, group |-> group]
  BY DEF TakeId, Ready, history
<1>2. SameLines /\ BodiesKept /\ Sound'
  BY <1>1, UnchangedDisk DEF Kept
<1>3. /\ \A id : Messages(id)' = Messages(id) /\ Floors' = Floors
      /\ \A id : \A p \in Messages(id) : LineAt(p)' = LineAt(p)
  BY <1>2, SameSets
<1>4. DiskInv(V)'
  BY <1>1, <1>2, SameSafe DEF Kept
<1>5. /\ nextId \in Nat
      /\ \A id \in Nat \ gone : Messages(id) # {} => id \in DOMAIN index
      /\ \A id \in DOMAIN index \ (gone \cup V) : Messages(id) # {}
      /\ \A id \in DOMAIN index \ gone : \A p \in Messages(id) : LineAt(p).seg = index[id].seg
      /\ \A id \in DOMAIN index \ gone : \A f \in Floors : f <= id
      /\ \A id \in DOMAIN index : id \in Nat /\ id < nextId /\ index[id] \in Slot
      /\ \A id \in Nat : Messages(id) # {} => id < nextId
      /\ \A f \in Floors : f <= nextId
      /\ CurLast
  BY <1>1, RunningFacts
<1>6. \A f \in Floors : f \in Nat
  <2>1. \A p \in Places : LineAt(p) \in Lines
    BY LinesAre DEF Kept
  <2> QED
    BY <2>1 DEF Floors, Lines
<1>7. MemInv(V)'
  <2>1. \A id \in DOMAIN index \ gone : \A p \in Messages(id) : (LineAt(p).seg)' = index[id].seg
    BY <1>3, <1>5
  <2>2. \A f \in Floors : f <= nextId + 1
    BY <1>5, <1>6
  <2> QED
    BY <1>1, <1>3, <1>5, <2>1, <2>2 DEF MemInv, CurLast
<1>8. msg' \in NewMessage /\ msg'.id = nextId
  <2>1. size.att \in Nat /\ size.body \in Nat /\ group \in Groups \cup {None}
    BY StoreAssumption
  <2> QED
    BY <1>1, <1>5, <2>1 DEF NewMessage
<1>9. msg'.id \notin DOMAIN index /\ \A id \in Nat : Messages(id)' # {} => id # msg'.id
  <2>1. \A id \in Nat : Messages(id)' # {} => id < nextId
    BY <1>3, <1>5
  <2> QED
    BY <1>5, <1>8, <2>1
<1>10. todo' = {}
  BY <1>1 DEF Kept, OpInv
<1>11. OpInv'
  <2>1. \A f \in Floors' : f <= msg'.id
    BY <1>3, <1>5, <1>8
  <2>2. msg'.id < nextId'
    BY <1>1, <1>5, <1>8
  <2> QED
    BY <1>1, <1>5, <1>8, <1>9, <1>10, <2>1, <2>2 DEF OpInv
<1> QED
  BY <1>2, <1>4, <1>7, <1>11 DEF Kept

LEMMA WriteBodySafe ==
    ASSUME NEW V, Kept(V), WriteBody
    PROVE  Kept(V)'
<1> DEFINE incoming == msg.att + Reserve
           n == SegmentFor(incoming)
           seg == [Opened(incoming) EXCEPT !.used = @ + msg.body, !.bodies = @ \cup {msg.id}]
<1>1. /\ op = "body" /\ op' = "meta" /\ disk' = PutSegment(n, seg) /\ cur' = n
      /\ running' = running /\ gone' = gone /\ index' = index /\ nextId' = nextId
      /\ msg' = msg /\ todo' = todo
  BY DEF WriteBody, history
<1>2. running /\ msg \in NewMessage /\ todo = {}
  BY <1>1 DEF Kept, OpInv
<1>3. /\ nextId \in Nat
      /\ \A id \in Nat \ gone : Messages(id) # {} => id \in DOMAIN index
      /\ \A id \in DOMAIN index \ (gone \cup V) : Messages(id) # {}
      /\ \A id \in DOMAIN index \ gone : \A p \in Messages(id) : LineAt(p).seg = index[id].seg
      /\ \A id \in DOMAIN index \ gone : \A f \in Floors : f <= id
      /\ \A id \in DOMAIN index : id \in Nat /\ id < nextId /\ index[id] \in Slot
      /\ \A id \in Nat : Messages(id) # {} => id < nextId
      /\ \A f \in Floors : f <= nextId
      /\ CurLast
  BY <1>2, RunningFacts
<1>4. /\ n \in Nat /\ \A m \in DOMAIN disk : m <= n
      /\ Opened(incoming) \in Segment /\ Opened(incoming).lines = LinesIn(n)
  BY <1>3, SegmentFact DEF Kept, CurLast
<1>5. /\ seg \in Segment /\ seg.lines = LinesIn(n)
      /\ seg.bodies = Opened(incoming).bodies \cup {msg.id}
  <2>1. msg.body \in Nat /\ msg.id \in Nat
    BY <1>2 DEF NewMessage
  <2>2. PICK old : old = Opened(incoming)
    OBVIOUS
  <2>3. old \in Segment /\ old.lines = LinesIn(n)
    BY <1>4, <2>2
  <2>4. PICK new : new = [old EXCEPT !.used = @ + msg.body, !.bodies = @ \cup {msg.id}]
    OBVIOUS
  <2>5. /\ new \in Segment /\ new.tail = old.tail /\ new.lines = old.lines
        /\ new.bodies = old.bodies \cup {msg.id}
    <3>1. old.used + msg.body \in Nat /\ old.bodies \cup {msg.id} \in SUBSET Nat
      BY <2>1, <2>3 DEF Segment
    <3>2. PICK u : u = old.used + msg.body
      OBVIOUS
    <3>3. PICK b : b = old.bodies \cup {msg.id}
      OBVIOUS
    <3>4. new = [lines |-> old.lines, tail |-> old.tail, used |-> u, bodies |-> b]
      BY <2>3, <2>4, <3>2, <3>3 DEF Segment
    <3>5. old.lines \in Seq(Lines) /\ old.tail \in Tails /\ u \in Nat /\ b \in SUBSET Nat
      BY <2>3, <3>1, <3>2, <3>3 DEF Segment
    <3> QED
      BY <3>3, <3>4, <3>5 DEF Segment
  <2>6. seg = new
    BY <2>2, <2>4
  <2> HIDE DEF seg, n, incoming
  <2> QED
    BY <2>2, <2>3, <2>5, <2>6
<1>6. n \in DOMAIN disk => Opened(incoming) = disk[n]
  BY DEF Opened
<1> HIDE DEF seg, n, incoming
<1>7. /\ SameLines /\ Sound'
      /\ DOMAIN disk' = DOMAIN disk \cup {n} /\ disk'[n] = seg
      /\ \A m \in DOMAIN disk : m # n => disk'[m] = disk[m]
  BY <1>1, <1>4, <1>5, PutSame DEF Kept
<1>8. BodiesKept
  BY <1>5, <1>6, <1>7 DEF BodiesKept
<1>9. /\ \A id : Messages(id)' = Messages(id) /\ Floors' = Floors
      /\ \A id : \A p \in Messages(id) : LineAt(p)' = LineAt(p)
  BY <1>7, SameSets
<1>10. DiskInv(V)'
  BY <1>1, <1>7, <1>8, SameSafe DEF Kept
<1>11. CurLast'
  BY <1>1, <1>4, <1>7 DEF CurLast
<1>12. MemInv(V)'
  <2>1. \A id \in DOMAIN index \ gone : \A p \in Messages(id) : (LineAt(p).seg)' = index[id].seg
    BY <1>3, <1>9
  <2> QED
    BY <1>1, <1>3, <1>9, <1>11, <2>1 DEF MemInv, CurLast
<1>13. cur' # None /\ msg'.id \in disk'[cur'].bodies
  BY <1>1, <1>4, <1>5, <1>7, StoreAssumption
<1>14. OpInv'
  <2>1. /\ msg.id < nextId /\ msg.id \notin DOMAIN index
        /\ \A id \in Nat : Messages(id) # {} => id # msg.id
        /\ \A f \in Floors : f <= msg.id
    BY <1>1 DEF Kept, OpInv
  <2> QED
    BY <1>1, <1>2, <1>3, <1>9, <1>13, <2>1 DEF OpInv
<1> QED
  BY <1>7, <1>10, <1>12, <1>14 DEF Kept

LEMMA WriteMetaSafe ==
    ASSUME NEW V, Kept(V), WriteMeta, disk[cur].tail = "ended"
    PROVE  Kept(V)'
<1> PICK line : line = MsgLine(msg.id, msg.group, cur)
  OBVIOUS
<1> PICK ix : ix = [id \in DOMAIN index \cup {msg.id} |->
                    IF id = msg.id THEN [seg |-> cur, group |-> msg.group] ELSE index[id]]
  OBVIOUS
<1> PICK n : n = cur
  OBVIOUS
<1> PICK seg : seg = disk[n]
  OBVIOUS
<1> DEFINE p == <<n, Len(seg.lines) + 1>>
<1>1. /\ op = "meta" /\ disk' = PutSegment(n, Written(seg, line))
      /\ Enforce(ix, maxEntries, nextId)
      /\ running' = running /\ cur' = cur /\ nextId' = nextId
  BY DEF WriteMeta
<1>2. /\ running /\ msg \in NewMessage /\ msg.id < nextId /\ msg.id \notin DOMAIN index
      /\ \A id \in Nat : Messages(id) # {} => id # msg.id
      /\ \A f \in Floors : f <= msg.id
      /\ cur # None /\ msg.id \in disk[cur].bodies
  BY <1>1 DEF Kept, OpInv
<1>3. /\ nextId \in Nat
      /\ \A id \in Nat \ gone : Messages(id) # {} => id \in DOMAIN index
      /\ \A id \in DOMAIN index \ (gone \cup V) : Messages(id) # {}
      /\ \A id \in DOMAIN index \ gone : \A q \in Messages(id) : LineAt(q).seg = index[id].seg
      /\ \A id \in DOMAIN index \ gone : \A f \in Floors : f <= id
      /\ \A id \in DOMAIN index : id \in Nat /\ id < nextId /\ index[id] \in Slot
      /\ \A id \in Nat : Messages(id) # {} => id < nextId
      /\ \A f \in Floors : f <= nextId
      /\ CurLast
  BY <1>2, RunningFacts
<1>4. /\ n \in DOMAIN disk /\ n \in Nat /\ \A m \in DOMAIN disk : m <= n
      /\ seg \in Segment /\ seg.tail = "ended" /\ seg.lines = LinesIn(n)
  BY <1>2, <1>3 DEF CurLast, Kept, Sound, LinesIn
<1>5. /\ line \in Lines /\ line.t = "m" /\ line.id = msg.id /\ line.seg = n
      /\ msg.id \in Nat /\ msg.group \in Groups \cup {None}
  BY <1>2, <1>4 DEF MsgLine, Lines, NewMessage
<1>6. /\ DOMAIN ix = DOMAIN index \cup {msg.id} /\ ix[msg.id].seg = n /\ ix[msg.id] \in Slot
      /\ \A id \in DOMAIN index : ix[id] = index[id]
  BY <1>2, <1>4, <1>5 DEF Slot
<1>7. /\ Grows(p, line) /\ Sound'
      /\ DOMAIN disk' = DOMAIN disk \cup {n} /\ disk'[n].bodies = seg.bodies
      /\ \A m \in DOMAIN disk : m # n => disk'[m] = disk[m]
  BY <1>1, <1>4, <1>5, WriteGrows DEF Kept
<1>8. p[1] = n
  OBVIOUS
<1> HIDE DEF p
<1>9. BodiesKept
  BY <1>7 DEF BodiesKept
<1>10. /\ \A id \in Nat : Messages(id)' # {} <=> Messages(id) # {} \/ id = msg.id
       /\ \A id \in Nat : id # msg.id => Messages(id)' = Messages(id)
       /\ \A id \in Nat : id = msg.id => \A q \in Messages(id)' : q = p
  <2> SUFFICES ASSUME NEW id \in Nat
               PROVE  /\ Messages(id)' # {} <=> Messages(id) # {} \/ id = msg.id
                      /\ id # msg.id => Messages(id)' = Messages(id)
                      /\ id = msg.id => \A q \in Messages(id)' : q = p
    OBVIOUS
  <2>1. /\ Messages(id) \subseteq Messages(id)'
        /\ \A q \in Messages(id)' : q \in Messages(id) \/ q = p
        /\ p \in Messages(id)' <=> line.t = "m" /\ line.id = id
    BY <1>7, GrowSets
  <2> QED
    BY <1>2, <1>5, <2>1
<1>11. Floors' = Floors
  <2>1. Floors' = Floors \cup (IF line.t = "f" THEN {line.id} ELSE {})
    BY <1>7, GrowSets
  <2> QED
    BY <1>5, <2>1
<1>12. CurLast'
  BY <1>1, <1>4, <1>7 DEF CurLast
<1>13. \A id \in DOMAIN ix \ gone : \A q \in Messages(id)' : (LineAt(q).seg)' = ix[id].seg
  <2> SUFFICES ASSUME NEW id \in DOMAIN ix \ gone, NEW q \in Messages(id)'
               PROVE  (LineAt(q).seg)' = ix[id].seg
    OBVIOUS
  <2>1. id \in Nat
    BY <1>3, <1>5, <1>6
  <2>2. CASE id = msg.id
    <3>1. q = p /\ LineAt(p)' = line
      BY <1>7, <1>10, <2>1, <2>2 DEF Grows
    <3> QED
      BY <1>5, <1>6, <2>2, <3>1
  <2>3. CASE id # msg.id
    <3>1. q \in Messages(id) /\ id \in DOMAIN index /\ ix[id] = index[id]
      BY <1>6, <1>10, <2>1, <2>3
    <3>2. LineAt(q)' = LineAt(q)
      BY <1>7, <3>1, GrowSets
    <3> QED
      BY <1>3, <3>1, <3>2
  <2> QED
    BY <2>2, <2>3
<1>14. /\ \A id \in Nat \ gone : Messages(id)' # {} => id \in DOMAIN ix
       /\ \A id \in DOMAIN ix \ (gone \cup V) : Messages(id)' # {}
       /\ \A id \in DOMAIN ix \ gone : \A f \in Floors' : f <= id
  BY <1>2, <1>3, <1>5, <1>6, <1>10, <1>11
<1>15. \A id \in DOMAIN ix : id \in Nat /\ id < nextId /\ ix[id] \in Slot
  BY <1>2, <1>3, <1>5, <1>6
<1>16. \A id \in Nat : Messages(id)' # {} => id < nextId
  BY <1>2, <1>3, <1>10
<1>17. MemInv(V)' /\ OpInv' /\ gone \subseteq gone'
  <2>1. running' = TRUE /\ \A f \in Floors' : f <= nextId
    BY <1>1, <1>2, <1>3, <1>11 DEF Kept, OpInv
  <2>2. PICK next : next = nextId
    OBVIOUS
  <2>3. PICK max : max = maxEntries
    OBVIOUS
  <2>4. Fits(V, ix, next)
    BY <1>13, <1>14, <1>15, <1>16, <2>1, <2>2 DEF Fits
  <2>5. Enforce(ix, max, next) /\ nextId' = next /\ next \in Nat
    BY <1>1, <1>3, <2>2, <2>3
  <2> QED
    BY <1>12, <2>1, <2>4, <2>5, Reindex
<1>18. Allowed(V, p, line)
  <2>1. Messages(line.id) = {}
    BY <1>2, <1>5
  <2> QED
    BY <1>2, <1>4, <1>5, <1>7, <1>8, <2>1 DEF Allowed
<1>19. DiskInv(V)'
  BY <1>7, <1>9, <1>17, <1>18, GrowSafe DEF Kept
<1> QED
  BY <1>7, <1>17, <1>19 DEF Kept

(* The edits but SetRetention leave the disk as it is, and write to it     *)
(* afterwards: lines that will be harmless.                                *)
LEMMA EditSafe ==
    ASSUME NEW V, Kept(V), running, disk' = disk, running' = running, cur' = cur, nextId' = nextId,
           op' = "lines",
           gone' = gone \cup (DOMAIN index \ DOMAIN index'),
           DOMAIN index' \subseteq DOMAIN index,
           \A id \in DOMAIN index' : index'[id].seg = index[id].seg /\ index'[id] \in Slot,
           \A line \in todo' : Harmless(line)'
    PROVE  Kept(V)'
<1>1. SameLines /\ BodiesKept /\ Sound'
  BY UnchangedDisk DEF Kept
<1>2. /\ \A id : Messages(id)' = Messages(id) /\ Floors' = Floors
      /\ \A id : \A p \in Messages(id) : LineAt(p)' = LineAt(p)
  BY <1>1, SameSets
<1>3. DiskInv(V)'
  BY <1>1, SameSafe DEF Kept
<1>4. /\ nextId \in Nat
      /\ \A id \in Nat \ gone : Messages(id) # {} => id \in DOMAIN index
      /\ \A id \in DOMAIN index \ (gone \cup V) : Messages(id) # {}
      /\ \A id \in DOMAIN index \ gone : \A p \in Messages(id) : LineAt(p).seg = index[id].seg
      /\ \A id \in DOMAIN index \ gone : \A f \in Floors : f <= id
      /\ \A id \in DOMAIN index : id \in Nat /\ id < nextId /\ index[id] \in Slot
      /\ \A id \in Nat : Messages(id) # {} => id < nextId
      /\ \A f \in Floors : f <= nextId
      /\ CurLast
  BY RunningFacts
<1>5. MemInv(V)'
  <2>1. /\ \A id \in Nat \ gone' : Messages(id)' # {} => id \in DOMAIN index'
        /\ \A id \in DOMAIN index' \ (gone' \cup V) : Messages(id)' # {}
        /\ \A id \in DOMAIN index' \ gone' : \A f \in Floors' : f <= id
    BY <1>2, <1>4
  <2>2. \A id \in DOMAIN index' \ gone' : \A p \in Messages(id)' : (LineAt(p).seg)' = index'[id].seg
    <3> SUFFICES ASSUME NEW id \in DOMAIN index' \ gone', NEW p \in Messages(id)'
                 PROVE  (LineAt(p).seg)' = index'[id].seg
      OBVIOUS
    <3>1. id \in DOMAIN index \ gone /\ p \in Messages(id)
      BY <1>2
    <3>2. LineAt(p)' = LineAt(p) /\ LineAt(p).seg = index[id].seg
      BY <1>2, <1>4, <3>1
    <3> QED
      BY <3>2
  <2>3. \A id \in DOMAIN index' : id \in Nat /\ id < nextId' /\ index'[id] \in Slot
    BY <1>4
  <2>4. CurLast'
    BY <1>4 DEF CurLast
  <2> QED
    BY <1>2, <1>4, <2>1, <2>2, <2>3, <2>4 DEF MemInv, CurLast
<1>6. OpInv'
  BY <1>4 DEF Kept, OpInv
<1> QED
  BY <1>1, <1>3, <1>5, <1>6 DEF Kept

LEMMA DeleteSafe ==
    ASSUME NEW V, Kept(V), NEW ids \in SUBSET Ids, Delete(ids)
    PROVE  Kept(V)'
<1>1. /\ running /\ disk' = disk /\ running' = running /\ cur' = cur /\ nextId' = nextId
      /\ op' = "lines" /\ gone' = gone \cup (ids \cap DOMAIN index)
      /\ index' = [id \in DOMAIN index \ ids |-> index[id]]
      /\ todo' = {DelLine(id) : id \in ids}
  BY DEF Delete, Edit, Ready
<1>2. DOMAIN index' = DOMAIN index \ ids /\ \A id \in DOMAIN index' : index'[id] = index[id]
  BY <1>1
<1>3. \A id \in DOMAIN index : index[id] \in Slot
  BY <1>1, RunningFacts
<1>4. \A line \in todo' : Harmless(line)'
  <2> SUFFICES ASSUME NEW line \in todo' PROVE Harmless(line)'
    OBVIOUS
  <2>1. PICK id \in ids : line = DelLine(id)
    BY <1>1
  <2>2. id \in Nat
    BY StoreAssumption DEF Ids
  <2>3. line \in Lines /\ line.t = "d" /\ line.id \in ids
    BY <2>1, <2>2 DEF DelLine, Lines
  <2> QED
    BY <1>2, <2>3 DEF Harmless
<1> QED
  BY <1>1, <1>2, <1>3, <1>4, EditSafe

LEMMA ClearSafe ==
    ASSUME NEW V, Kept(V), Clear
    PROVE  Kept(V)'
<1>1. /\ running /\ disk' = disk /\ running' = running /\ cur' = cur /\ nextId' = nextId
      /\ op' = "lines" /\ gone' = gone \cup DOMAIN index
      /\ index' = <<>>
      /\ todo' = {FloorLine(nextId)}
  BY DEF Clear, Edit, Ready
<1>2. DOMAIN index' = {}
  BY <1>1
<1>3. nextId \in Nat
  BY <1>1, RunningFacts
<1>4. \A line \in todo' : Harmless(line)'
  <2> SUFFICES ASSUME NEW line \in todo' PROVE Harmless(line)'
    OBVIOUS
  <2>1. line \in Lines /\ line.t = "f" /\ line.id = nextId
    BY <1>1, <1>3 DEF FloorLine, Lines
  <2> QED
    BY <1>1, <1>2, <1>3, <2>1 DEF Harmless
<1> QED
  BY <1>1, <1>2, <1>4, EditSafe

LEMMA SetGroupSafe ==
    ASSUME NEW V, Kept(V), NEW id \in Ids, NEW group \in Groups \cup {None}, SetGroup(id, group)
    PROVE  Kept(V)'
<1>1. /\ running /\ disk' = disk /\ running' = running /\ cur' = cur /\ nextId' = nextId
      /\ op' = "lines" /\ gone' = gone /\ id \in DOMAIN index
      /\ index' = [index EXCEPT ![id].group = group]
      /\ todo' = {MsgLine(id, group, index[id].seg)}
  BY DEF SetGroup, Edit, Ready
<1>2. \A i \in DOMAIN index : i \in Nat /\ index[i] \in Slot
  BY <1>1, RunningFacts
<1>3. /\ DOMAIN index' = DOMAIN index /\ index'[id] = [index[id] EXCEPT !.group = group]
      /\ \A i \in DOMAIN index : i # id => index'[i] = index[i]
  BY <1>1
<1>4. index'[id].seg = index[id].seg /\ index'[id] \in Slot
  BY <1>1, <1>2, <1>3 DEF Slot
<1>5. \A i \in DOMAIN index' : index'[i].seg = index[i].seg /\ index'[i] \in Slot
  BY <1>2, <1>3, <1>4
<1>6. \A line \in todo' : Harmless(line)'
  <2> SUFFICES ASSUME NEW line \in todo' PROVE Harmless(line)'
    OBVIOUS
  <2>1. line \in Lines /\ line.t = "m" /\ line.id = id /\ line.seg = index[id].seg
    BY <1>1, <1>2 DEF MsgLine, Lines, Slot
  <2> QED
    BY <1>1, <1>3, <1>4, <2>1 DEF Harmless
<1>7. gone' = gone \cup (DOMAIN index \ DOMAIN index')
  BY <1>1, <1>3
<1> QED
  BY <1>1, <1>3, <1>5, <1>6, <1>7, EditSafe

(* Limits are enforced on the index there is: SetRetention and Open.       *)
LEMMA EnforceSafe ==
    ASSUME NEW V, Sound, DiskInv(V), NEW ix, NEW max, NEW next \in Nat, Enforce(ix, max, next),
           disk' = disk, nextId' = next, running' = TRUE, CurLast', Fits(V, ix, next)
    PROVE  Kept(V)'
<1>1. MemInv(V)' /\ OpInv' /\ gone \subseteq gone'
  BY Reindex
<1>2. SameLines /\ BodiesKept /\ Sound'
  BY UnchangedDisk
<1>3. DiskInv(V)'
  BY <1>1, <1>2, SameSafe
<1> QED
  BY <1>1, <1>2, <1>3 DEF Kept

LEMMA SetRetentionSafe ==
    ASSUME NEW V, Kept(V), NEW max \in Entries, SetRetention(max)
    PROVE  Kept(V)'
<1>1. /\ running /\ disk' = disk /\ running' = running /\ cur' = cur /\ nextId' = nextId
      /\ Enforce(index, max, nextId)
  BY DEF SetRetention, Edit, Ready
<1>2. /\ nextId \in Nat
      /\ \A id \in Nat \ gone : Messages(id) # {} => id \in DOMAIN index
      /\ \A id \in DOMAIN index \ (gone \cup V) : Messages(id) # {}
      /\ \A id \in DOMAIN index \ gone : \A p \in Messages(id) : LineAt(p).seg = index[id].seg
      /\ \A id \in DOMAIN index \ gone : \A f \in Floors : f <= id
      /\ \A id \in DOMAIN index : id \in Nat /\ id < nextId /\ index[id] \in Slot
      /\ \A id \in Nat : Messages(id) # {} => id < nextId
      /\ \A f \in Floors : f <= nextId
      /\ CurLast
  BY <1>1, RunningFacts
<1>3. /\ \A id : Messages(id)' = Messages(id) /\ Floors' = Floors
      /\ \A id : \A p \in Messages(id) : LineAt(p)' = LineAt(p)
  BY <1>1, UnchangedDisk, SameSets
<1>4. PICK ix : ix = index
  OBVIOUS
<1>5. PICK next : next = nextId
  OBVIOUS
<1>6. \A id \in DOMAIN ix \ gone : \A p \in Messages(id)' : (LineAt(p).seg)' = ix[id].seg
  BY <1>2, <1>3, <1>4
<1>7. Fits(V, ix, next)
  BY <1>2, <1>3, <1>4, <1>5, <1>6 DEF Fits
<1>8. CurLast'
  BY <1>1, <1>2 DEF CurLast
<1>9. running' = TRUE /\ next \in Nat /\ nextId' = next /\ Enforce(ix, max, next)
  BY <1>1, <1>2, <1>4, <1>5 DEF Kept, OpInv
<1> QED
  BY <1>1, <1>7, <1>8, <1>9, EnforceSafe DEF Kept

LEMMA WriteLineSafe ==
    ASSUME NEW V, Kept(V), WriteLine, Opened(0).tail = "ended"
    PROVE  Kept(V)'
<1>1. /\ op = "lines" /\ cur' = SegmentFor(0)
      /\ running' = running /\ gone' = gone /\ index' = index /\ nextId' = nextId
      /\ \E line \in todo :
            /\ disk' = PutSegment(SegmentFor(0), Written(Opened(0), line))
            /\ todo' = todo \ {line}
            /\ op' = IF todo # {line} THEN "lines" ELSE IF sweep THEN "reclaim" ELSE "idle"
  BY DEF WriteLine, history
<1>2. PICK line \in todo :
          /\ disk' = PutSegment(SegmentFor(0), Written(Opened(0), line))
          /\ todo' = todo \ {line}
          /\ op' = IF todo # {line} THEN "lines" ELSE IF sweep THEN "reclaim" ELSE "idle"
  BY <1>1
<1>3. PICK n : n = SegmentFor(0)
  OBVIOUS
<1>4. PICK seg : seg = Opened(0)
  OBVIOUS
<1> DEFINE p == <<n, Len(seg.lines) + 1>>
<1>5. running /\ Harmless(line)
  BY <1>1, <1>2 DEF Kept, OpInv
<1>6. /\ nextId \in Nat
      /\ \A id \in Nat \ gone : Messages(id) # {} => id \in DOMAIN index
      /\ \A id \in DOMAIN index \ (gone \cup V) : Messages(id) # {}
      /\ \A id \in DOMAIN index \ gone : \A q \in Messages(id) : LineAt(q).seg = index[id].seg
      /\ \A id \in DOMAIN index \ gone : \A f \in Floors : f <= id
      /\ \A id \in DOMAIN index : id \in Nat /\ id < nextId /\ index[id] \in Slot
      /\ \A id \in Nat : Messages(id) # {} => id < nextId
      /\ \A f \in Floors : f <= nextId
      /\ CurLast
  BY <1>5, RunningFacts
<1>7. /\ n \in Nat /\ \A m \in DOMAIN disk : m <= n
      /\ seg \in Segment /\ seg.tail = "ended" /\ seg.lines = LinesIn(n)
  BY <1>3, <1>4, <1>6, SegmentFact DEF Kept, CurLast
<1>8. n \in DOMAIN disk => seg = disk[n]
  BY <1>3, <1>4 DEF Opened
<1>9. /\ Grows(p, line) /\ Sound'
      /\ DOMAIN disk' = DOMAIN disk \cup {n} /\ disk'[n].bodies = seg.bodies
      /\ \A m \in DOMAIN disk : m # n => disk'[m] = disk[m]
  <2>1. line \in Lines /\ disk' = PutSegment(n, Written(seg, line))
    BY <1>2, <1>3, <1>4, <1>5 DEF Harmless
  <2> QED
    BY <1>7, <2>1, WriteGrows DEF Kept
<1> HIDE DEF p
<1>10. BodiesKept
  BY <1>8, <1>9 DEF BodiesKept
<1>11. /\ line \in Lines
       /\ line.t = "f" => line.id <= nextId /\ \A id \in DOMAIN index \ gone : line.id <= id
       /\ line.t = "d" => line.id \notin DOMAIN index \ gone
       /\ line.t = "m" => line.id \in DOMAIN index /\ line.seg = index[line.id].seg
  BY <1>5 DEF Harmless
<1>12. line.id \in Nat
  BY <1>11 DEF Lines
<1>13. Allowed(V, p, line)
  <2>1. line.t = "f" => \A id \in Nat \ gone' : Messages(id) # {} => line.id <= id
    BY <1>1, <1>6, <1>11
  <2>2. line.t = "d" => line.id \in gone' \/ Messages(line.id) = {}
    BY <1>1, <1>6, <1>11, <1>12
  <2>3. ASSUME line.t = "m", line.id \notin gone
        PROVE  /\ \A q \in Messages(line.id) : LineAt(q).seg = line.seg
               /\ \A f \in Floors : f <= line.id
               /\ line.id \in V \/ Messages(line.id) # {}
    BY <1>6, <1>11, <1>12, <2>3
  <2> QED
    BY <1>1, <2>1, <2>2, <2>3 DEF Allowed
<1>14. DiskInv(V)'
  BY <1>1, <1>9, <1>10, <1>13, GrowSafe DEF Kept
<1>15. ASSUME NEW id \in Nat
       PROVE  /\ Messages(id)' # {} <=> Messages(id) # {} \/ (line.t = "m" /\ line.id = id)
              /\ \A q \in Messages(id)' : q \in Messages(id) \/ (q = p /\ line.t = "m" /\ line.id = id)
              /\ \A q \in Messages(id) : LineAt(q)' = LineAt(q)
  <2>1. /\ Messages(id) \subseteq Messages(id)'
        /\ \A q \in Messages(id)' : q \in Messages(id) \/ q = p
        /\ p \in Messages(id)' <=> line.t = "m" /\ line.id = id
        /\ \A q \in Messages(id) : LineAt(q)' = LineAt(q) /\ Before(q, p)
    BY <1>9, GrowSets
  <2> QED
    BY <2>1
<1>16. /\ \A f \in Floors' : f <= nextId
       /\ \A id \in DOMAIN index \ gone : \A f \in Floors' : f <= id
  <2>1. Floors' = Floors \cup (IF line.t = "f" THEN {line.id} ELSE {})
    BY <1>9, GrowSets
  <2> QED
    BY <1>6, <1>11, <2>1
<1>17. MemInv(V)'
  <2>1. /\ \A id \in Nat \ gone' : Messages(id)' # {} => id \in DOMAIN index'
        /\ \A id \in DOMAIN index' \ (gone' \cup V) : Messages(id)' # {}
        /\ \A id \in DOMAIN index' \ gone' : \A f \in Floors' : f <= id
    BY <1>1, <1>6, <1>11, <1>15, <1>16
  <2>2. \A id \in DOMAIN index' \ gone' : \A q \in Messages(id)' : (LineAt(q).seg)' = index'[id].seg
    <3> SUFFICES ASSUME NEW id \in DOMAIN index \ gone, NEW q \in Messages(id)'
                 PROVE  (LineAt(q).seg)' = index[id].seg
      BY <1>1
    <3>1. id \in Nat
      BY <1>6
    <3>2. CASE q \in Messages(id)
      BY <1>6, <1>15, <3>1, <3>2
    <3>3. CASE q = p /\ line.t = "m" /\ line.id = id
      <4>1. LineAt(p)' = line
        BY <1>9 DEF Grows
      <4> QED
        BY <1>11, <3>3, <4>1
    <3> QED
      BY <1>15, <3>1, <3>2, <3>3
  <2>3. \A id \in Nat : Messages(id)' # {} => id < nextId'
    BY <1>1, <1>6, <1>11, <1>15
  <2>4. CurLast'
    BY <1>1, <1>3, <1>7, <1>9 DEF CurLast
  <2> QED
    BY <1>1, <1>6, <1>16, <2>1, <2>2, <2>3, <2>4 DEF MemInv, CurLast
<1>18. OpInv'
  <2>1. op' \in {"idle", "lines", "reclaim"} /\ (op' # "lines" => todo' = {}) /\ cur' # None
    BY <1>1, <1>2, <1>3, <1>7, StoreAssumption
  <2>2. \A other \in todo' : Harmless(other)'
    <3>1. \A other \in todo' : Harmless(other)
      BY <1>2 DEF Kept, OpInv
    <3> QED
      BY <1>1, <3>1 DEF Harmless
  <2> QED
    BY <1>1, <1>5, <2>1, <2>2 DEF Kept, OpInv
<1> QED
  BY <1>9, <1>14, <1>17, <1>18 DEF Kept

LEMMA DropSegmentSafe ==
    ASSUME NEW V, Kept(V), DropSegment
    PROVE  Kept(V)'
<1>1. PICK n : n = Min(Orphans)
  OBVIOUS
<1>2. /\ op = "reclaim" /\ Orphans # {} /\ disk' = [m \in DOMAIN disk \ {n} |-> disk[m]]
      /\ running' = running /\ cur' = cur /\ index' = index /\ nextId' = nextId
      /\ op' = op /\ msg' = msg /\ todo' = todo /\ gone' = gone
  BY <1>1 DEF DropSegment, memory, request, history
<1>3. n \in Orphans
  <2>1. Orphans \in SUBSET Nat
    BY DEF Orphans, Kept, Sound
  <2> QED
    BY <1>1, <1>2, <2>1, MinFact
<1>4. n # cur /\ \A id \in DOMAIN index : index[id].seg # n
  BY <1>3 DEF Orphans
<1>5. running
  BY <1>2 DEF Kept, OpInv
<1>6. /\ nextId \in Nat
      /\ \A id \in Nat \ gone : Messages(id) # {} => id \in DOMAIN index
      /\ \A id \in DOMAIN index \ (gone \cup V) : Messages(id) # {}
      /\ \A id \in DOMAIN index \ gone : \A p \in Messages(id) : LineAt(p).seg = index[id].seg
      /\ \A id \in DOMAIN index \ gone : \A f \in Floors : f <= id
      /\ \A id \in DOMAIN index : id \in Nat /\ id < nextId /\ index[id] \in Slot
      /\ \A id \in Nat : Messages(id) # {} => id < nextId
      /\ \A f \in Floors : f <= nextId
      /\ CurLast
  BY <1>5, RunningFacts
<1>7. Shrinks(n) /\ Sound'
  BY <1>2, DropShrinks DEF Kept
<1>8. \A id \in Nat \ gone : \A p \in Messages(id) : LineAt(p).seg # n
  BY <1>4, <1>6
<1>9. DiskInv(V)' /\ \A id \in Nat \ (gone \cup V) : Messages(id)' # {} <=> Messages(id) # {}
  BY <1>2, <1>7, <1>8, ShrinkSafe DEF Kept
<1>10. /\ \A id : /\ Messages(id)' = {p \in Messages(id) : p[1] # n}
                  /\ \A p \in Messages(id)' : LineAt(p)' = LineAt(p)
       /\ Floors' \subseteq Floors
  BY <1>7, ShrinkSets
<1>11. MemInv(V)'
  <2>1. /\ \A id \in DOMAIN index \ gone : \A p \in Messages(id)' : (LineAt(p).seg)' = index[id].seg
        /\ \A id \in Nat \ gone : Messages(id)' # {} => id \in DOMAIN index
        /\ \A id \in DOMAIN index \ gone : \A f \in Floors' : f <= id
    BY <1>6, <1>10
  <2>2. CurLast'
    BY <1>2, <1>4, <1>6 DEF CurLast
  <2>3. \A id \in Nat : Messages(id)' # {} => id < nextId
    BY <1>6, <1>10
  <2> QED
    BY <1>2, <1>6, <1>9, <1>10, <2>1, <2>2, <2>3 DEF MemInv, CurLast
<1>12. OpInv'
  <2>1. \A line \in todo : Harmless(line)'
    BY <1>2 DEF Kept, OpInv, Harmless
  <2> QED
    BY <1>2, <2>1 DEF Kept, OpInv
<1> QED
  BY <1>7, <1>9, <1>11, <1>12 DEF Kept

LEMMA EndReclaimSafe ==
    ASSUME NEW V, Kept(V), EndReclaim
    PROVE  Kept(V)'
<1>1. /\ op = "reclaim" /\ op' = "idle" /\ disk' = disk
      /\ running' = running /\ cur' = cur /\ index' = index /\ nextId' = nextId
      /\ msg' = msg /\ todo' = todo /\ gone' = gone
  BY DEF EndReclaim, memory, history
<1>2. /\ Places' = Places /\ \A p : LineAt(p)' = LineAt(p)
      /\ \A id : Messages(id)' = Messages(id) /\ Deletes(id)' = Deletes(id)
      /\ Floors' = Floors
  <2>1. /\ Places' = Places /\ \A p : LineAt(p)' = LineAt(p)
    BY <1>1 DEF Places, LineAt
  <2>2. SameLines
    BY <2>1 DEF SameLines
  <2>3. \A id : Messages(id)' = Messages(id) /\ Deletes(id)' = Deletes(id)
    BY <2>2, SameSets
  <2>4. Floors' = Floors
    BY <2>2, SameSets
  <2> QED
    BY <2>1, <2>3, <2>4
<1>3. Sound' /\ DiskInv(V)'
  <2>1. SameLines /\ BodiesKept /\ Sound'
    BY <1>1, UnchangedDisk DEF Kept
  <2> QED
    BY <1>1, <2>1, SameSafe DEF Kept
<1>4. MemInv(V)'
  BY <1>1, <1>2 DEF Kept, MemInv
<1>5. OpInv'
  <2>1. todo' = {}
    BY <1>1 DEF Kept, OpInv
  <2> QED
    BY <1>1, <2>1 DEF Kept, OpInv
<1> QED
  BY <1>3, <1>4, <1>5 DEF Kept

(* What is being written when the process ends is no harm, if it gets to   *)
(* the end of the segment it is written to.                                *)
LEMMA WritingAllowed ==
    ASSUME NEW V, Kept(V), NEW line \in Writing, NEW p, gone' = gone,
           p[1] = (IF op = "meta" THEN cur ELSE SegmentFor(0)),
           p[1] \in DOMAIN disk' /\ p[1] \in Nat, BodiesKept
    PROVE  Allowed(V, p, line) /\ line \in Lines
<1>1. op \in {"meta", "lines"} /\ running
  BY DEF Writing, Kept, OpInv
<1>2. /\ nextId \in Nat
      /\ \A id \in Nat \ gone : Messages(id) # {} => id \in DOMAIN index
      /\ \A id \in DOMAIN index \ (gone \cup V) : Messages(id) # {}
      /\ \A id \in DOMAIN index \ gone : \A q \in Messages(id) : LineAt(q).seg = index[id].seg
      /\ \A id \in DOMAIN index \ gone : \A f \in Floors : f <= id
      /\ \A id \in DOMAIN index : id \in Nat /\ id < nextId /\ index[id] \in Slot
      /\ CurLast
  BY <1>1, RunningFacts
<1>3. CASE op = "meta"
  <2>1. /\ msg \in NewMessage
        /\ \A id \in Nat : Messages(id) # {} => id # msg.id
        /\ \A f \in Floors : f <= msg.id
        /\ cur # None /\ msg.id \in disk[cur].bodies
    BY <1>3 DEF Kept, OpInv
  <2>2. line = MsgLine(msg.id, msg.group, cur) /\ p[1] = cur
    BY <1>3 DEF Writing
  <2>3. /\ line.t = "m" /\ line.id = msg.id /\ line.seg = cur /\ line.id \in Nat
        /\ msg.group \in Groups \cup {None}
    BY <2>1, <2>2 DEF MsgLine, NewMessage
  <2>4. line \in Lines
    BY <2>1, <2>2, <2>3 DEF MsgLine, Lines
  <2>5. cur \in DOMAIN disk /\ msg.id \in disk'[cur].bodies
    BY <1>2, <2>1 DEF CurLast, BodiesKept
  <2>6. Messages(line.id) = {}
    BY <2>1, <2>3
  <2> QED
    BY <2>1, <2>2, <2>3, <2>4, <2>5, <2>6 DEF Allowed
<1>4. CASE op = "lines"
  <2>1. Harmless(line)
    BY <1>4 DEF Writing, Kept, OpInv
  <2>2. /\ line \in Lines /\ line.id \in Nat
        /\ line.t = "f" => line.id <= nextId /\ \A id \in DOMAIN index \ gone : line.id <= id
        /\ line.t = "d" => line.id \notin DOMAIN index \ gone
        /\ line.t = "m" => line.id \in DOMAIN index /\ line.seg = index[line.id].seg
    BY <2>1 DEF Harmless, Lines
  <2>3. line.t = "f" => \A id \in Nat \ gone' : Messages(id) # {} => line.id <= id
    BY <1>2, <2>2
  <2>4. line.t = "d" => line.id \in gone' \/ Messages(line.id) = {}
    BY <1>2, <2>2
  <2>5. ASSUME line.t = "m", line.id \notin gone
        PROVE  /\ \A q \in Messages(line.id) : LineAt(q).seg = line.seg
               /\ \A f \in Floors : f <= line.id
               /\ line.id \in V \/ Messages(line.id) # {}
    BY <1>2, <2>2, <2>5
  <2> QED
    BY <2>2, <2>3, <2>4, <2>5 DEF Allowed
<1> QED
  BY <1>1, <1>3, <1>4

LEMMA WritingIsLine ==
    ASSUME NEW V, OpInv, CurLast, DOMAIN disk \subseteq Nat, NEW line \in Writing
    PROVE  line \in Lines
<1>1. CASE op = "meta"
  <2>1. line = MsgLine(msg.id, msg.group, cur) /\ msg \in NewMessage /\ cur # None
    BY <1>1 DEF Writing, OpInv
  <2> QED
    BY <2>1 DEF MsgLine, Lines, NewMessage, CurLast
<1>2. CASE op = "lines"
  BY <1>2 DEF Writing, OpInv, Harmless
<1> QED
  BY <1>1, <1>2 DEF Writing

LEMMA RolledSafe ==
    ASSUME NEW V, Kept(V), running, RolledOnly
    PROVE  SameLines /\ BodiesKept /\ Sound'
<1>1. PICK incoming : disk' = PutSegment(SegmentFor(incoming), Opened(incoming))
  BY DEF RolledOnly
<1>2. PICK n : n = SegmentFor(incoming)
  OBVIOUS
<1>3. PICK seg : seg = Opened(incoming)
  OBVIOUS
<1>4. CurLast
  BY RunningFacts
<1>5. /\ n \in Nat /\ seg \in Segment /\ seg.lines = LinesIn(n)
  BY <1>2, <1>3, <1>4, SegmentFact DEF Kept, CurLast
<1>6. /\ SameLines /\ Sound'
      /\ DOMAIN disk' = DOMAIN disk \cup {n} /\ disk'[n] = seg
      /\ \A m \in DOMAIN disk : m # n => disk'[m] = disk[m]
  <2>1. disk' = PutSegment(n, seg)
    BY <1>1, <1>2, <1>3
  <2> QED
    BY <1>5, <2>1, PutSame DEF Kept
<1>7. n \in DOMAIN disk => seg = disk[n]
  BY <1>2, <1>3 DEF Opened
<1>8. BodiesKept
  BY <1>6, <1>7 DEF BodiesKept
<1> QED
  BY <1>6, <1>8

(* What is kept of a message makes it live, in the segment that is home.   *)
LEMMA SafeIsAlive ==
    ASSUME Sound, NEW V, NEW id, NEW h, SafeAt(V, id, h), Messages(id) # {}
    PROVE  Alive(id) /\ id \in Seen /\ LineAt(LastMessage(id)).seg = h
<1>1. PICK p \in Messages(id) : \A q \in Deletes(id) : Before(q, p)
  BY DEF SafeAt
<1>2. Alive(id)
  BY <1>1 DEF SafeAt, Alive
<1>3. id \in Seen
  BY <1>1 DEF Messages, Seen
<1>4. LastMessage(id) \in Messages(id)
  BY <1>1, LastIsThere
<1> QED
  BY <1>2, <1>3, <1>4 DEF SafeAt

(* The next id after a restart is above every number on disk.              *)
LEMMA NextIdFact ==
    ASSUME Sound
    PROVE  NextIdOf(Seen) \in Nat /\ \A id \in Seen : id \in Nat /\ id < NextIdOf(Seen)
<1>1. Seen \in SUBSET Nat
  BY LinesAre DEF Seen, Lines
<1>2. PICK b \in Nat : \A p \in Places : LineAt(p).id <= b
  BY DEF Sound
<1>3. \A id \in Seen : id <= b
  BY <1>2 DEF Seen
<1>4. Seen # {} => Max(Seen) \in Seen /\ \A id \in Seen : id <= Max(Seen)
  BY <1>1, <1>3, MaxFact
<1>5. CASE Seen = {}
  BY <1>5 DEF NextIdOf
<1>6. CASE Seen # {}
  <2>1. PICK m : m = Max(Seen)
    OBVIOUS
  <2>2. NextIdOf(Seen) = m + 1
    BY <1>6, <2>1 DEF NextIdOf
  <2>3. m \in Nat /\ \A id \in Seen : id \in Nat /\ id <= m
    BY <1>1, <1>4, <1>6, <2>1
  <2>4. \A id \in Seen : id \in Nat /\ id < m + 1
    BY <2>3
  <2> QED
    BY <2>2, <2>3, <2>4
<1> QED
  BY <1>5, <1>6

LEMMA OpenSafe ==
    ASSUME NEW V, Kept(V), NEW max \in Entries, Open(max)
    PROVE  Kept(V)'
<1>1. PICK ix : ix = Replay
  OBVIOUS
<1>2. PICK next : next = NextIdOf(Seen)
  OBVIOUS
<1>3. /\ ~ running /\ running' = TRUE /\ nextId' = next /\ disk' = disk /\ cur' = cur
      /\ Enforce(ix, max, next)
  BY <1>1, <1>2 DEF Open
<1>4. CurLast'
  BY <1>3 DEF Kept, OpInv, CurLast
<1>5. next \in Nat /\ \A id \in Seen : id \in Nat /\ id < next
  BY <1>2, NextIdFact DEF Kept
<1>6. /\ DOMAIN ix = Live
      /\ \A id \in Live : /\ ix[id].seg = LineAt(LastMessage(id)).seg
                          /\ ix[id].group = LineAt(LastMessage(id)).group
                          /\ ix[id] = [seg |-> ix[id].seg, group |-> ix[id].group]
  BY <1>1 DEF Replay
<1>7. \A id \in Live : LastMessage(id) \in Messages(id) /\ LineAt(LastMessage(id)) \in Lines
  <2> SUFFICES ASSUME NEW id \in Live
               PROVE  LastMessage(id) \in Messages(id) /\ LineAt(LastMessage(id)) \in Lines
    OBVIOUS
  <2>1. Messages(id) # {}
    BY DEF Live, Alive
  <2>2. LastMessage(id) \in Messages(id)
    BY <2>1, LastIsThere DEF Kept
  <2>3. LastMessage(id) \in Places
    BY <2>2 DEF Messages
  <2> QED
    BY <2>2, <2>3, LinesAre DEF Kept
<1>8. \A id \in DOMAIN ix : id \in Nat /\ id < next /\ ix[id] \in Slot
  BY <1>5, <1>6, <1>7 DEF Live, Lines, Slot
<1>9. \A id \in Nat \ gone : Messages(id) # {} => id \in DOMAIN ix
  <2> SUFFICES ASSUME NEW id \in Nat \ gone, Messages(id) # {} PROVE id \in Live
    BY <1>6
  <2>1. PICK h : SafeAt(V, id, h)
    BY DEF Kept, DiskInv
  <2> QED
    BY <2>1, SafeIsAlive DEF Kept, Live
<1>10. \A id \in DOMAIN ix \ gone : \A p \in Messages(id) : LineAt(p).seg = ix[id].seg
  <2> SUFFICES ASSUME NEW id \in DOMAIN ix \ gone, NEW p \in Messages(id)
               PROVE  LineAt(p).seg = ix[id].seg
    OBVIOUS
  <2>1. PICK h : SafeAt(V, id, h)
    BY <1>8 DEF Kept, DiskInv
  <2>2. LineAt(p).seg = h /\ LineAt(LastMessage(id)).seg = h
    BY <2>1, SafeIsAlive DEF Kept, SafeAt
  <2> QED
    BY <1>6, <2>2
<1>11. /\ \A id \in Nat : Messages(id) # {} => id < next
       /\ \A f \in Floors : f <= next
  <2>1. \A id \in Nat : Messages(id) # {} => id \in Seen
    BY DEF Messages, Seen
  <2>2. \A f \in Floors : f \in Seen
    BY DEF Floors, Seen
  <2> QED
    BY <1>5, <2>1, <2>2
<1>12. /\ \A id : Messages(id)' = Messages(id) /\ Floors' = Floors
       /\ \A id : \A p \in Messages(id) : LineAt(p)' = LineAt(p)
  BY <1>3, UnchangedDisk, SameSets
<1>13. \A id \in DOMAIN ix \ gone : \A p \in Messages(id)' : (LineAt(p).seg)' = ix[id].seg
  BY <1>10, <1>12
<1>14. Fits(V, ix, next)
  <2>1. \A id \in DOMAIN ix : Messages(id)' # {} /\ \A f \in Floors' : f <= id
    BY <1>6, <1>12 DEF Live, Alive
  <2> QED
    BY <1>8, <1>9, <1>11, <1>12, <1>13, <2>1 DEF Fits
<1> QED
  BY <1>3, <1>4, <1>5, <1>14, EnforceSafe DEF Kept

-----------------------------------------------------------------------------
LEMMA InitSafe ==
    ASSUME Init
    PROVE  Kept({}) /\ Costs({})
<1>1. /\ DOMAIN disk = {} /\ DOMAIN index = {} /\ gone = {} /\ todo = {} /\ nextId = 1
      /\ crashes = 0
  BY DEF Init
<1>2. Places = {}
  BY <1>1 DEF Places
<1>3. (\A id : Messages(id) = {}) /\ Floors = {}
  BY <1>2 DEF Messages, Floors
<1>4. Sound
  BY <1>1, <1>2 DEF Sound
<1>5. DiskInv({})
  BY <1>3 DEF DiskInv
<1>6. MemInv({})
  BY <1>1, <1>3 DEF MemInv, Init
<1>7. OpInv
  BY <1>1 DEF OpInv, Init
<1>8. Costs({})
  <2>1. ~ TornLast /\ Cost = 0
    BY <1>1 DEF TornLast, Cost
  <2> QED
    BY <1>1, <2>1, FS_EmptySet DEF Costs
<1> QED
  BY <1>4, <1>5, <1>6, <1>7, <1>8 DEF Kept

LEMMA StutterSafe ==
    ASSUME NEW V, Kept(V), UNCHANGED vars
    PROVE  Kept(V)'
<1>1. /\ disk' = disk /\ op' = op /\ running' = running /\ cur' = cur /\ index' = index
      /\ nextId' = nextId /\ msg' = msg /\ todo' = todo /\ gone' = gone
  BY DEF vars, memory, request, history
<1>2. /\ Places' = Places /\ \A p : LineAt(p)' = LineAt(p)
  BY <1>1 DEF Places, LineAt
<1>3. SameLines
  BY <1>2 DEF SameLines
<1>4. /\ \A id : Messages(id)' = Messages(id)
      /\ Floors' = Floors
  BY <1>3, SameSets
<1>5. Sound' /\ DiskInv(V)'
  <2>1. SameLines /\ BodiesKept /\ Sound'
    BY <1>1, UnchangedDisk DEF Kept
  <2> QED
    BY <1>1, <2>1, SameSafe DEF Kept
<1>6. MemInv(V)'
  BY <1>1, <1>2, <1>4 DEF Kept, MemInv
<1>7. OpInv'
  <2>1. \A line \in todo : Harmless(line)'
    BY <1>1 DEF Kept, OpInv, Harmless
  <2> QED
    BY <1>1, <1>4, <2>1 DEF Kept, OpInv
<1> QED
  BY <1>5, <1>6, <1>7 DEF Kept

-----------------------------------------------------------------------------
(* Writing to a segment that a crash has left torn: the new line is lost,  *)
(* and perhaps the one before it.                                          *)
Cuts(p) ==
    /\ Places' = Places \ {p}
    /\ \A q \in Places : q # p => LineAt(q)' = LineAt(q)

(* What the line that is cut off was about.                                *)
Lost == {LineAt(p).id : p \in {q \in Places : Cuts(q)}}

LEMMA LostOne ==
    \E x : Lost \subseteq {x}
<1>1. CASE Lost = {}
  BY <1>1
<1>2. CASE Lost # {}
  <2>1. PICK p \in Places : Cuts(p)
    BY <1>2 DEF Lost
  <2>2. ASSUME NEW q \in Places, Cuts(q) PROVE q = p
    BY <2>1, <2>2 DEF Cuts
  <2> QED
    BY <2>2 DEF Lost
<1> QED
  BY <1>1, <1>2

LEMMA CutSets ==
    ASSUME NEW p, Cuts(p)
    PROVE  /\ \A id : /\ Messages(id)' = Messages(id) \ {p}
                      /\ \A q \in Messages(id)' : LineAt(q)' = LineAt(q)
                      /\ Deletes(id)' \subseteq Deletes(id)
           /\ Floors' \subseteq Floors
<1>1. \A id : Messages(id)' = Messages(id) \ {p}
  BY DEF Cuts, Messages
<1>2. \A id : \A q \in Messages(id)' : LineAt(q)' = LineAt(q)
  BY <1>1 DEF Cuts, Messages
<1>3. \A id : Deletes(id)' \subseteq Deletes(id)
  BY DEF Cuts, Deletes
<1>4. Floors' \subseteq Floors
  BY DEF Cuts, Floors
<1> QED
  BY <1>1, <1>2, <1>3, <1>4

LEMMA GluedIs ==
    ASSUME NEW seg \in Segment, seg.tail # "ended", NEW line
    PROVE  /\ Written(seg, line) \in Segment
           /\ Written(seg, line).bodies = seg.bodies
           /\ Written(seg, line).tail = (IF seg.tail = "garbled" THEN "garbled" ELSE "ended")
           /\ seg.tail # "unended" => Written(seg, line).lines = seg.lines
           /\ seg.tail = "unended" => Written(seg, line).lines = SubSeq(seg.lines, 1, Len(seg.lines) - 1)
<1>1. PICK lines : lines = (IF seg.tail = "unended" THEN Front(seg.lines) ELSE seg.lines)
  OBVIOUS
<1>2. PICK tail : tail = (IF seg.tail = "garbled" THEN "garbled" ELSE "ended")
  OBVIOUS
<1>3. seg.lines \in Seq(Lines) /\ seg.tail \in {"cut", "garbled", "unended"}
  BY DEF Segment, Tails
<1>4. lines \in Seq(Lines)
  <2>1. Front(seg.lines) = SubSeq(seg.lines, 1, Len(seg.lines) - 1)
    BY DEF Front
  <2>2. SubSeq(seg.lines, 1, Len(seg.lines) - 1) \in Seq(Lines)
    <3>1. Len(seg.lines) - 1 <= Len(seg.lines)
      BY <1>3
    <3> QED
      BY <1>3, <3>1
  <2> QED
    BY <1>1, <1>3, <2>1, <2>2
<1>5. Written(seg, line) = [lines |-> lines, tail |-> tail, used |-> seg.used, bodies |-> seg.bodies]
  <2>1. (CASE seg.tail = "ended"   -> Append(seg.lines, line)
           [] seg.tail = "unended" -> Front(seg.lines)
           [] seg.tail \in {"cut", "garbled"} -> seg.lines) = lines
    <3>1. CASE seg.tail = "unended"
      BY <1>1, <3>1
    <3>2. CASE seg.tail # "unended"
      BY <1>1, <1>3, <3>2
    <3> QED
      BY <3>1, <3>2
  <2>2. Written(seg, line) = [seg EXCEPT !.tail = tail, !.lines = lines]
    BY <1>2, <2>1 DEF Written
  <2> QED
    BY <2>2 DEF Segment
<1>6. tail \in Tails /\ seg.used \in Nat /\ seg.bodies \in SUBSET Nat
  BY <1>2 DEF Tails, Segment
<1>7. Written(seg, line) \in Segment
  BY <1>4, <1>5, <1>6 DEF Segment
<1> QED
  BY <1>1, <1>2, <1>5, <1>7 DEF Front

LEMMA GlueCuts ==
    ASSUME Sound, NEW n \in DOMAIN disk, disk[n].tail # "ended", NEW line, NEW new \in Segment,
           new.lines = Written(disk[n], line).lines, new.bodies = disk[n].bodies,
           disk' = PutSegment(n, new)
    PROVE  /\ Sound' /\ BodiesKept /\ DOMAIN disk' = DOMAIN disk
           /\ \E p : Cuts(p)
           /\ disk[n].tail # "unended" => Lost = {}
<1>1. PICK seg : seg = disk[n]
  OBVIOUS
<1>2. /\ DOMAIN disk' = DOMAIN disk /\ disk'[n] = new
      /\ \A m \in DOMAIN disk : m # n => disk'[m] = disk[m]
  BY <1>1 DEF PutSegment
<1>3. seg \in Segment /\ seg.lines \in Seq(Lines) /\ seg.tail # "ended"
  BY <1>1 DEF Sound, Segment
<1>4. /\ seg.tail # "unended" => new.lines = seg.lines
      /\ seg.tail = "unended" => new.lines = SubSeq(seg.lines, 1, Len(seg.lines) - 1)
  BY <1>1, <1>3, GluedIs
<1>5. new.lines \in Seq(Lines)
  BY DEF Segment
<1>6. PICK k \in Nat : /\ DOMAIN new.lines = DOMAIN seg.lines \ {k}
                       /\ \A j \in DOMAIN new.lines : new.lines[j] = seg.lines[j]
                       /\ seg.tail # "unended" => k = 0
  <2>1. CASE seg.tail # "unended"
    <3>1. 0 \notin DOMAIN seg.lines
      BY <1>3
    <3> QED
      BY <1>4, <2>1, <3>1
  <2>2. CASE seg.tail = "unended"
    <3>1. PICK len \in Nat : len = Len(seg.lines) /\ DOMAIN seg.lines = 1 .. len
      BY <1>3
    <3>2. new.lines = SubSeq(seg.lines, 1, len - 1)
      BY <1>4, <2>2, <3>1
    <3>3. CASE len = 0
      <4>1. Len(SubSeq(seg.lines, 1, len - 1)) = 0
        BY <1>3, <3>1, <3>3
      <4>2. DOMAIN new.lines = {} /\ DOMAIN seg.lines = {}
        BY <1>5, <3>1, <3>2, <3>3, <4>1
      <4> QED
        BY <2>2, <4>2
    <3>4. CASE len # 0
      <4>1. /\ Len(SubSeq(seg.lines, 1, len - 1)) = len - 1
            /\ \A j \in 1 .. len - 1 : SubSeq(seg.lines, 1, len - 1)[j] = seg.lines[j]
        BY <1>3, <3>1, <3>4
      <4>2. DOMAIN new.lines = 1 .. len - 1
        BY <1>5, <3>2, <4>1
      <4>3. 1 .. len - 1 = (1 .. len) \ {len}
        BY <3>4
      <4> QED
        BY <2>2, <3>1, <3>2, <4>1, <4>2, <4>3
    <3> QED
      BY <3>3, <3>4
  <2> QED
    BY <2>1, <2>2
<1>7. PICK p : p = <<n, k>>
  OBVIOUS
<1>8. Places' = Places \ {p}
  <2>1. \A m, j : <<m, j>> \in Places' <=> m \in DOMAIN disk /\ j \in DOMAIN disk'[m].lines
    BY <1>2 DEF Places
  <2>2. \A m, j : <<m, j>> \in Places <=> m \in DOMAIN disk /\ j \in DOMAIN disk[m].lines
    BY DEF Places
  <2>3. \A m, j : <<m, j>> \in Places' <=> <<m, j>> \in Places /\ ~ (m = n /\ j = k)
    BY <1>1, <1>2, <1>6, <2>1, <2>2
  <2>4. /\ \A q \in Places : q = <<q[1], q[2]>>
        /\ \A q \in Places' : q = <<q[1], q[2]>>
    BY DEF Places
  <2> QED
    BY <1>7, <2>3, <2>4
<1>9. \A q \in Places : q # p => LineAt(q)' = LineAt(q)
  <2> SUFFICES ASSUME NEW q \in Places, q # p PROVE LineAt(q)' = LineAt(q)
    OBVIOUS
  <2>1. q[1] \in DOMAIN disk /\ q = <<q[1], q[2]>> /\ q[2] \in DOMAIN disk[q[1]].lines
    BY LinesAre
  <2>2. CASE q[1] = n
    <3>1. q[2] \in DOMAIN new.lines
      BY <1>1, <1>6, <1>7, <2>1, <2>2
    <3> QED
      BY <1>1, <1>2, <1>6, <2>2, <3>1 DEF LineAt
  <2>3. CASE q[1] # n
    BY <1>2, <2>1, <2>3 DEF LineAt
  <2> QED
    BY <2>2, <2>3
<1>10. Cuts(p)
  BY <1>8, <1>9 DEF Cuts
<1>11. Sound'
  <2>1. DOMAIN disk' \subseteq Nat /\ \A m \in DOMAIN disk' : disk'[m] \in Segment
    BY <1>2 DEF Sound
  <2>2. PICK b \in Nat : (\A m \in DOMAIN disk : m <= b) /\ \A q \in Places : LineAt(q).id <= b
    BY DEF Sound
  <2>3. \A q \in Places' : (LineAt(q).id)' <= b
    BY <1>8, <1>9, <2>2
  <2> QED
    BY <1>2, <2>1, <2>2, <2>3 DEF Sound
<1>12. seg.tail # "unended" => Lost = {}
  <2> SUFFICES ASSUME seg.tail # "unended", NEW q \in Places, Cuts(q) PROVE FALSE
    BY DEF Lost
  <2>1. p \notin Places
    <3>1. 0 \notin DOMAIN seg.lines /\ k = 0
      BY <1>3, <1>6
    <3>2. \A r \in Places : r[2] \in DOMAIN disk[r[1]].lines
      BY LinesAre
    <3> QED
      BY <1>1, <1>7, <3>1, <3>2
  <2> QED
    BY <1>8, <2>1 DEF Cuts
<1>13. BodiesKept
  BY <1>2 DEF BodiesKept
<1> QED
  BY <1>1, <1>2, <1>10, <1>11, <1>12, <1>13

(* What is lost does not count; the others are as they were.               *)
LEMMA CutSafe ==
    ASSUME NEW V, DiskInv(V), NEW p, Cuts(p), Lost \subseteq V, BodiesKept, gone \subseteq gone'
    PROVE  /\ DiskInv(V)'
           /\ \A id : id \notin V => Messages(id)' = Messages(id)
<1>1. ASSUME NEW id, id \notin V PROVE Messages(id)' = Messages(id)
  <2>1. p \notin Messages(id)
    BY <1>1 DEF Messages, Lost
  <2> QED
    BY <2>1, CutSets
<1>2. ASSUME NEW id \in Nat \ gone', Messages(id)' # {}
      PROVE  \E h : SafeAt(V, id, h)'
  <2>1. /\ Messages(id)' \subseteq Messages(id) /\ Deletes(id)' \subseteq Deletes(id)
        /\ Floors' \subseteq Floors
        /\ \A q \in Messages(id)' : LineAt(q)' = LineAt(q)
    BY CutSets
  <2>2. PICK h : SafeAt(V, id, h)
    BY <1>2, <2>1 DEF DiskInv
  <2>3. \A q \in Messages(id)' : (LineAt(q).seg)' = h /\ \A r \in Deletes(id)' : Before(r, q)'
    BY <2>1, <2>2 DEF SafeAt, Before
  <2>4. \A f \in Floors' : f <= id
    BY <2>1, <2>2 DEF SafeAt
  <2>5. id \notin V => /\ h \in DOMAIN disk' /\ id \in disk'[h].bodies
                       /\ \E r \in Messages(id)' : r[1] = h
    BY <1>1, <2>2 DEF SafeAt, BodiesKept
  <2>6. SafeAt(V, id, h)'
    BY <2>3, <2>4, <2>5 DEF SafeAt
  <2> QED
    BY <2>6
<1>3. DiskInv(V)'
  BY <1>2 DEF DiskInv
<1> QED
  BY <1>1, <1>3

(* Less is asked of more messages.                                         *)
LEMMA Widen ==
    ASSUME NEW V, NEW W, V \subseteq W, Kept(V)
    PROVE  Kept(W)
<1>1. DiskInv(W)
  <2> SUFFICES ASSUME NEW id \in Nat \ gone, Messages(id) # {} PROVE \E h : SafeAt(W, id, h)
    BY DEF DiskInv
  <2>1. PICK h : SafeAt(V, id, h)
    BY DEF Kept, DiskInv
  <2>2. SafeAt(W, id, h)
    BY <2>1 DEF SafeAt
  <2> QED
    BY <2>2
<1>2. MemInv(W)
  BY DEF Kept, MemInv
<1> QED
  BY <1>1, <1>2 DEF Kept

(* A message whose line is lost, and the one before it.                    *)
LEMMA WriteMetaGlued ==
    ASSUME NEW V, Kept(V), WriteMeta, disk[cur].tail # "ended", Lost \subseteq V, msg.id \in V
    PROVE  Kept(V)'
<1> PICK ix : ix = [id \in DOMAIN index \cup {msg.id} |->
                    IF id = msg.id THEN [seg |-> cur, group |-> msg.group] ELSE index[id]]
  OBVIOUS
<1> PICK n : n = cur
  OBVIOUS
<1> PICK line : line = MsgLine(msg.id, msg.group, cur)
  OBVIOUS
<1> PICK new : new = Written(disk[n], line)
  OBVIOUS
<1>1. /\ op = "meta" /\ disk' = PutSegment(n, new)
      /\ Enforce(ix, maxEntries, nextId)
      /\ running' = running /\ cur' = cur /\ nextId' = nextId
  BY DEF WriteMeta
<1>2. /\ running /\ msg \in NewMessage /\ msg.id < nextId /\ cur # None
      /\ \A id \in Nat : Messages(id) # {} => id # msg.id
      /\ \A f \in Floors : f <= msg.id
  BY <1>1 DEF Kept, OpInv
<1>3. /\ nextId \in Nat
      /\ \A id \in Nat \ gone : Messages(id) # {} => id \in DOMAIN index
      /\ \A id \in DOMAIN index \ (gone \cup V) : Messages(id) # {}
      /\ \A id \in DOMAIN index \ gone : \A p \in Messages(id) : LineAt(p).seg = index[id].seg
      /\ \A id \in DOMAIN index \ gone : \A f \in Floors : f <= id
      /\ \A id \in DOMAIN index : id \in Nat /\ id < nextId /\ index[id] \in Slot
      /\ \A id \in Nat : Messages(id) # {} => id < nextId
      /\ \A f \in Floors : f <= nextId
      /\ CurLast
  BY <1>2, RunningFacts
<1>4. n \in DOMAIN disk /\ n \in Nat /\ disk[n] \in Segment /\ disk[n].tail # "ended"
  BY <1>2, <1>3 DEF CurLast, Kept, Sound
<1>5. new \in Segment /\ new.bodies = disk[n].bodies
  BY <1>4, GluedIs
<1>6. Sound' /\ BodiesKept /\ DOMAIN disk' = DOMAIN disk /\ \E p : Cuts(p)
  BY <1>1, <1>4, <1>5, GlueCuts DEF Kept
<1>7. PICK p : Cuts(p)
  BY <1>6
<1>8. gone \subseteq gone'
  BY <1>1 DEF Enforce
<1>9. /\ DiskInv(V)'
      /\ \A id : id \notin V => Messages(id)' = Messages(id)
  BY <1>6, <1>7, <1>8, CutSafe DEF Kept
<1>10. /\ \A id : /\ Messages(id)' \subseteq Messages(id)
                  /\ \A q \in Messages(id)' : LineAt(q)' = LineAt(q)
       /\ Floors' \subseteq Floors
  BY <1>7, CutSets
<1>11. /\ msg.id \in Nat /\ msg.group \in Groups \cup {None}
       /\ DOMAIN ix = DOMAIN index \cup {msg.id} /\ ix[msg.id] \in Slot
       /\ \A id \in DOMAIN index : id # msg.id => ix[id] = index[id]
  BY <1>2, <1>4 DEF NewMessage, Slot
<1>12. PICK next : next = nextId
  OBVIOUS
<1>13. PICK max : max = maxEntries
  OBVIOUS
<1>14. Fits(V, ix, next)
  <2>1. \A id \in Nat \ gone : Messages(id)' # {} => id \in DOMAIN ix
    BY <1>3, <1>10, <1>11
  <2>2. \A id \in DOMAIN ix \ (gone \cup V) : Messages(id)' # {}
    BY <1>3, <1>9, <1>11
  <2>3. \A id \in DOMAIN ix \ gone : \A q \in Messages(id)' : (LineAt(q).seg)' = ix[id].seg
    <3> SUFFICES ASSUME NEW id \in DOMAIN ix \ gone, NEW q \in Messages(id)'
                 PROVE  (LineAt(q).seg)' = ix[id].seg
      OBVIOUS
    <3>1. q \in Messages(id) /\ LineAt(q)' = LineAt(q)
      BY <1>10
    <3>2. id # msg.id
      BY <1>2, <1>11, <3>1
    <3>3. id \in DOMAIN index \ gone /\ ix[id] = index[id]
      BY <1>11, <3>2
    <3> QED
      BY <1>3, <3>1, <3>3
  <2>4. \A id \in DOMAIN ix \ gone : \A f \in Floors' : f <= id
    BY <1>2, <1>3, <1>10, <1>11
  <2>5. \A id \in DOMAIN ix : id \in Nat /\ id < next /\ ix[id] \in Slot
    BY <1>2, <1>3, <1>11, <1>12
  <2>6. (\A id \in Nat : Messages(id)' # {} => id < next) /\ \A f \in Floors' : f <= next
    BY <1>3, <1>10, <1>12
  <2> QED
    BY <2>1, <2>2, <2>3, <2>4, <2>5, <2>6 DEF Fits
<1>15. CurLast'
  BY <1>1, <1>3, <1>6 DEF CurLast
<1>16. MemInv(V)' /\ OpInv'
  <2>1. running' = TRUE
    BY <1>1, <1>2 DEF Kept, OpInv
  <2>2. Enforce(ix, max, next) /\ nextId' = next /\ next \in Nat
    BY <1>1, <1>3, <1>12, <1>13
  <2> QED
    BY <1>14, <1>15, <2>1, <2>2, Reindex
<1> QED
  BY <1>6, <1>9, <1>16 DEF Kept

(* A line about a message that is lost costs nothing: the one before it.   *)
LEMMA WriteLineGlued ==
    ASSUME NEW V, Kept(V), WriteLine, Opened(0).tail # "ended", Lost \subseteq V
    PROVE  Kept(V)'
<1>1. PICK line \in todo :
          /\ disk' = PutSegment(SegmentFor(0), Written(Opened(0), line))
          /\ todo' = todo \ {line}
          /\ op' = IF todo # {line} THEN "lines" ELSE IF sweep THEN "reclaim" ELSE "idle"
  BY DEF WriteLine
<1>2. /\ op = "lines" /\ cur' = SegmentFor(0)
      /\ running' = running /\ gone' = gone /\ index' = index /\ nextId' = nextId
  BY DEF WriteLine, history
<1>3. PICK n : n = SegmentFor(0)
  OBVIOUS
<1>4. running
  BY <1>2 DEF Kept, OpInv
<1>5. /\ nextId \in Nat
      /\ \A id \in Nat \ gone : Messages(id) # {} => id \in DOMAIN index
      /\ \A id \in DOMAIN index \ (gone \cup V) : Messages(id) # {}
      /\ \A id \in DOMAIN index \ gone : \A q \in Messages(id) : LineAt(q).seg = index[id].seg
      /\ \A id \in DOMAIN index \ gone : \A f \in Floors : f <= id
      /\ \A id \in DOMAIN index : id \in Nat /\ id < nextId /\ index[id] \in Slot
      /\ \A id \in Nat : Messages(id) # {} => id < nextId
      /\ \A f \in Floors : f <= nextId
      /\ CurLast
  BY <1>4, RunningFacts
<1>6. n \in DOMAIN disk /\ Opened(0) = disk[n] /\ disk[n] \in Segment
  BY <1>3 DEF Opened, EmptySeg, Kept, Sound
<1>7. n \in Nat /\ \A m \in DOMAIN disk : m <= n
  BY <1>3, <1>5, SegmentFact DEF Kept, CurLast
<1> PICK new : new = Written(disk[n], line)
  OBVIOUS
<1>8. new \in Segment /\ new.bodies = disk[n].bodies
  BY <1>6, GluedIs
<1>9. Sound' /\ BodiesKept /\ DOMAIN disk' = DOMAIN disk /\ \E p : Cuts(p)
  <2>1. disk' = PutSegment(n, new) /\ disk[n].tail # "ended"
    BY <1>1, <1>3, <1>6
  <2> QED
    BY <1>6, <1>8, <2>1, GlueCuts DEF Kept
<1>10. PICK p : Cuts(p)
  BY <1>9
<1>11. /\ DiskInv(V)'
       /\ \A id : id \notin V => Messages(id)' = Messages(id)
  BY <1>2, <1>9, <1>10, CutSafe DEF Kept
<1>12. /\ \A id : /\ Messages(id)' \subseteq Messages(id)
                  /\ \A q \in Messages(id)' : LineAt(q)' = LineAt(q)
       /\ Floors' \subseteq Floors
  BY <1>10, CutSets
<1>13. MemInv(V)'
  <2>1. /\ \A id \in Nat \ gone' : Messages(id)' # {} => id \in DOMAIN index'
        /\ \A id \in DOMAIN index' \ (gone' \cup V) : Messages(id)' # {}
        /\ \A id \in DOMAIN index' \ gone' : \A f \in Floors' : f <= id
    BY <1>2, <1>5, <1>11, <1>12
  <2>2. \A id \in DOMAIN index' \ gone' : \A q \in Messages(id)' : (LineAt(q).seg)' = index'[id].seg
    <3> SUFFICES ASSUME NEW id \in DOMAIN index \ gone, NEW q \in Messages(id)'
                 PROVE  (LineAt(q).seg)' = index[id].seg
      BY <1>2
    <3>1. q \in Messages(id) /\ LineAt(q)' = LineAt(q)
      BY <1>12
    <3> QED
      BY <1>5, <3>1
  <2>3. /\ \A id \in Nat : Messages(id)' # {} => id < nextId'
        /\ \A f \in Floors' : f <= nextId'
    BY <1>2, <1>5, <1>12
  <2>4. CurLast'
    BY <1>2, <1>3, <1>6, <1>7, <1>9 DEF CurLast
  <2> QED
    BY <1>2, <1>5, <2>1, <2>2, <2>3, <2>4 DEF MemInv, CurLast
<1>14. OpInv'
  <2>1. op' \in {"idle", "lines", "reclaim"} /\ (op' # "lines" => todo' = {}) /\ cur' # None
    BY <1>1, <1>2, <1>3, <1>7, StoreAssumption
  <2>2. \A other \in todo' : Harmless(other)'
    <3>1. \A other \in todo' : Harmless(other)
      BY <1>1 DEF Kept, OpInv
    <3> QED
      BY <1>2, <3>1 DEF Harmless
  <2> QED
    BY <1>2, <1>4, <1>5, <2>1, <2>2 DEF Kept, OpInv
<1> QED
  BY <1>9, <1>11, <1>13, <1>14 DEF Kept

LEMMA LostNone ==
    ASSUME Places \subseteq Places'
    PROVE  Lost = {}
<1> SUFFICES ASSUME NEW q \in Places, Cuts(q) PROVE FALSE
  BY DEF Lost
<1> QED
  BY DEF Cuts

(* When the process ends, every line of a message names the segment where  *)
(* the message lies; the message that is being appended has none yet.      *)
Heirs ==
    \A id \in Nat \ gone : \A p \in Messages(id)' :
        \/ id \in DOMAIN index /\ (LineAt(p).seg)' = index[id].seg
        \/ op = "meta" /\ id = msg.id

LEMMA OldHeirs ==
    ASSUME NEW V, Kept(V), running,
           \A id : Messages(id)' \subseteq Messages(id),
           \A id : \A p \in Messages(id)' : LineAt(p)' = LineAt(p)
    PROVE  Heirs
<1> SUFFICES ASSUME NEW id \in Nat \ gone, NEW p \in Messages(id)'
             PROVE  id \in DOMAIN index /\ (LineAt(p).seg)' = index[id].seg
  BY DEF Heirs
<1>1. p \in Messages(id) /\ LineAt(p)' = LineAt(p)
  OBVIOUS
<1>2. /\ \A i \in Nat \ gone : Messages(i) # {} => i \in DOMAIN index
      /\ \A i \in DOMAIN index \ gone : \A q \in Messages(i) : LineAt(q).seg = index[i].seg
  BY RunningFacts
<1> QED
  BY <1>1, <1>2

LEMMA NewHeirs ==
    ASSUME NEW V, Kept(V), running, NEW line \in Writing, NEW p, Grows(p, line)
    PROVE  Heirs
<1> SUFFICES ASSUME NEW id \in Nat \ gone, NEW q \in Messages(id)'
             PROVE  \/ id \in DOMAIN index /\ (LineAt(q).seg)' = index[id].seg
                    \/ op = "meta" /\ id = msg.id
  BY DEF Heirs
<1>1. /\ q \in Messages(id) \/ q = p
      /\ q \in Messages(id) => LineAt(q)' = LineAt(q)
      /\ q = p => line.t = "m" /\ line.id = id
  BY GrowSets
<1>2. CASE q \in Messages(id)
  <2>1. /\ \A i \in Nat \ gone : Messages(i) # {} => i \in DOMAIN index
        /\ \A i \in DOMAIN index \ gone : \A r \in Messages(i) : LineAt(r).seg = index[i].seg
    BY RunningFacts
  <2> QED
    BY <1>1, <1>2, <2>1
<1>3. CASE q = p
  <2>1. LineAt(q)' = line
    BY <1>3 DEF Grows
  <2>2. CASE op = "meta"
    <3>1. line = MsgLine(msg.id, msg.group, cur)
      BY <2>2 DEF Writing
    <3> QED
      BY <1>1, <1>3, <2>2, <3>1 DEF MsgLine
  <2>3. CASE op # "meta"
    <3>1. Harmless(line)
      BY <2>3 DEF Writing, Kept, OpInv
    <3> QED
      BY <1>1, <1>3, <2>1, <3>1 DEF Harmless
  <2> QED
    BY <2>2, <2>3
<1> QED
  BY <1>1, <1>2, <1>3

(* A line that is cut off leaves the others as they are, or takes the one  *)
(* before it along; one without its newline is one more.                   *)
LEMMA TornSafe ==
    ASSUME NEW V, Kept(V), running, gone' = gone, NEW line \in Writing, Torn(line),
           Lost \subseteq V
    PROVE  Sound' /\ DiskInv(V)' /\ Heirs /\ (Lost # {} => TornLast)
<1>1. PICK n : n = (IF op = "meta" THEN cur ELSE SegmentFor(0))
  OBVIOUS
<1>2. PICK seg : seg = (IF n \in DOMAIN disk THEN disk[n] ELSE EmptySeg)
  OBVIOUS
<1>3. PICK tail \in Tears : disk' = PutSegment(n, TornOff(seg, line, tail))
  BY <1>1, <1>2 DEF Torn
<1>4. CurLast
  BY RunningFacts
<1>5. n \in Nat /\ \A m \in DOMAIN disk : m <= n
  <2>1. CASE op = "meta"
    <3>1. cur # None
      BY <2>1 DEF Kept, OpInv
    <3> QED
      BY <1>1, <1>4, <2>1, <3>1 DEF CurLast, Kept, Sound
  <2>2. CASE op # "meta"
    BY <1>1, <1>4, <2>2, SegmentFact DEF Kept, CurLast
  <2> QED
    BY <2>1, <2>2
<1>6. /\ seg \in Segment /\ seg.lines = LinesIn(n) /\ seg.lines \in Seq(Lines)
      /\ seg.tail # "ended" => n \in DOMAIN disk
  <2>1. EmptySeg \in Segment /\ EmptySeg.lines = <<>> /\ EmptySeg.tail = "ended"
    BY DEF EmptySeg, Segment, Tails
  <2> QED
    BY <1>2, <2>1 DEF Kept, Sound, LinesIn, Segment
<1>7. tail \in Tails
  BY StoreAssumption DEF Tails
<1>8. ASSUME NEW new \in Segment, disk' = PutSegment(n, new), new.bodies = seg.bodies
      PROVE  /\ DOMAIN disk' = DOMAIN disk \cup {n} /\ BodiesKept
             /\ Allowed(V, <<n, Len(seg.lines) + 1>>, line) /\ line \in Lines
  <2>1. /\ DOMAIN disk' = DOMAIN disk \cup {n} /\ disk'[n] = new
        /\ \A m \in DOMAIN disk : m # n => disk'[m] = disk[m]
    BY <1>8 DEF PutSegment
  <2>2. BodiesKept
    BY <1>2, <1>8, <2>1 DEF BodiesKept
  <2>3. PICK p : p = <<n, Len(seg.lines) + 1>>
    OBVIOUS
  <2>4. p[1] = n
    BY <2>3
  <2>5. Allowed(V, p, line) /\ line \in Lines
    BY <1>1, <1>5, <2>1, <2>2, <2>4, WritingAllowed
  <2> QED
    BY <2>1, <2>2, <2>3, <2>5
<1>9. CASE seg.tail # "ended"
  <2>1. PICK new : new = TornOff(seg, line, tail)
    OBVIOUS
  <2>2. PICK glued : glued = Written(seg, line)
    OBVIOUS
  <2>3. glued \in Segment /\ glued.bodies = seg.bodies
    BY <1>6, <1>9, <2>2, GluedIs
  <2>4. PICK t \in Tails : new = [glued EXCEPT !.tail = t]
    <3>1. "garbled" \in Tails /\ "cut" \in Tails
      BY DEF Tails
    <3> QED
      BY <1>9, <2>1, <2>2, <3>1 DEF TornOff
  <2>5. new \in Segment /\ new.lines = glued.lines /\ new.bodies = seg.bodies
    BY <2>3, <2>4 DEF Segment
  <2>6. n \in DOMAIN disk /\ seg = disk[n] /\ disk' = PutSegment(n, new)
    BY <1>2, <1>3, <1>6, <1>9, <2>1
  <2>7. Sound' /\ BodiesKept /\ \E p : Cuts(p)
    BY <1>9, <2>2, <2>5, <2>6, GlueCuts DEF Kept
  <2>8. PICK p : Cuts(p)
    BY <2>7
  <2>9. DiskInv(V)'
    BY <2>7, <2>8, CutSafe DEF Kept
  <2>10. /\ \A id : Messages(id)' \subseteq Messages(id)
         /\ \A id : \A q \in Messages(id)' : LineAt(q)' = LineAt(q)
    BY <2>8, CutSets
  <2>11. Heirs
    BY <2>10, OldHeirs
  <2>12. TornLast
    BY <1>5, <1>9, <2>6 DEF TornLast
  <2> QED
    BY <2>7, <2>9, <2>11, <2>12
<1>10. CASE seg.tail = "ended" /\ tail # "unended"
  <2>1. PICK new : new = [seg EXCEPT !.tail = tail]
    OBVIOUS
  <2>2. new \in Segment /\ new.lines = seg.lines /\ new.bodies = seg.bodies
    BY <1>6, <1>7, <2>1 DEF Segment
  <2>3. disk' = PutSegment(n, new)
    <3>1. TornOff(seg, line, tail) = [seg EXCEPT !.tail = tail, !.lines = seg.lines]
      BY <1>10 DEF TornOff
    <3>2. [seg EXCEPT !.tail = tail, !.lines = seg.lines] = [seg EXCEPT !.tail = tail]
      BY <1>6 DEF Segment
    <3> QED
      BY <1>3, <2>1, <3>1, <3>2
  <2>4. SameLines /\ Sound'
    BY <1>5, <1>6, <2>2, <2>3, PutSame DEF Kept
  <2>5. BodiesKept
    BY <1>8, <2>2, <2>3
  <2>6. DiskInv(V)'
    BY <2>4, <2>5, SameSafe DEF Kept
  <2>7. /\ \A id : Messages(id)' = Messages(id)
        /\ \A id : \A p \in Messages(id) : LineAt(p)' = LineAt(p)
    BY <2>4, SameSets
  <2>8. Heirs
    BY <2>7, OldHeirs
  <2>9. Lost = {}
    BY <2>4, LostNone DEF SameLines
  <2> QED
    BY <2>4, <2>6, <2>8, <2>9
<1>11. CASE seg.tail = "ended" /\ tail = "unended"
  <2>1. PICK lines : lines = Append(seg.lines, line)
    OBVIOUS
  <2>2. PICK new : new = [seg EXCEPT !.tail = "unended", !.lines = lines]
    OBVIOUS
  <2>3. disk' = PutSegment(n, new)
    BY <1>3, <1>11, <2>1, <2>2 DEF TornOff
  <2>4. line \in Lines
    BY <1>4, WritingIsLine DEF Kept, Sound
  <2>5. lines \in Seq(Lines)
    BY <1>6, <2>1, <2>4
  <2>6. new \in Segment /\ new.lines = lines /\ new.bodies = seg.bodies
    BY <1>6, <2>2, <2>5 DEF Segment, Tails
  <2>7. PICK p : p = <<n, Len(seg.lines) + 1>>
    OBVIOUS
  <2>8. BodiesKept /\ Allowed(V, p, line)
    BY <1>8, <2>3, <2>6, <2>7
  <2>9. Grows(p, line) /\ Sound'
    BY <1>5, <1>6, <2>1, <2>3, <2>4, <2>6, <2>7, PutGrows DEF Kept
  <2>10. DiskInv(V)'
    BY <2>8, <2>9, GrowSafe DEF Kept
  <2>11. Heirs
    BY <2>9, NewHeirs
  <2>12. Lost = {}
    BY <2>9, LostNone DEF Grows
  <2> QED
    BY <2>9, <2>10, <2>11, <2>12
<1> QED
  BY <1>9, <1>10, <1>11

LEMMA CrashSafe ==
    ASSUME NEW V, Kept(V), Crash, Lost \subseteq V
    PROVE  Kept(V)' /\ Heirs /\ (Lost # {} => TornLast)
<1>1. /\ running /\ running' = FALSE /\ cur' = None /\ index' = <<>> /\ nextId' = 1
      /\ op' = "idle" /\ todo' = {} /\ gone' = gone
      /\ disk' = disk \/ RolledOnly \/ \E line \in Writing : Torn(line)
  BY DEF Crash
<1>2. Sound' /\ DiskInv(V)' /\ Heirs /\ (Lost # {} => TornLast)
  <2>1. ASSUME SameLines, BodiesKept, Sound'
        PROVE  Sound' /\ DiskInv(V)' /\ Heirs /\ (Lost # {} => TornLast)
    <3>1. /\ \A id : Messages(id)' = Messages(id)
          /\ \A id : \A p \in Messages(id) : LineAt(p)' = LineAt(p)
      BY <2>1, SameSets
    <3>2. Heirs
      BY <1>1, <3>1, OldHeirs
    <3>3. DiskInv(V)'
      BY <1>1, <2>1, SameSafe DEF Kept
    <3>4. Lost = {}
      BY <2>1, LostNone DEF SameLines
    <3> QED
      BY <2>1, <3>2, <3>3, <3>4
  <2>2. CASE disk' = disk
    BY <2>1, <2>2, UnchangedDisk DEF Kept
  <2>3. CASE RolledOnly
    BY <1>1, <2>1, <2>3, RolledSafe
  <2>4. CASE \E line \in Writing : Torn(line)
    BY <1>1, <2>4, TornSafe
  <2> QED
    BY <1>1, <2>2, <2>3, <2>4
<1>3. MemInv(V)'
  BY <1>1 DEF MemInv
<1>4. OpInv'
  BY <1>1 DEF OpInv
<1> QED
  BY <1>2, <1>3, <1>4 DEF Kept

-----------------------------------------------------------------------------
(* What crashes cost.  Only the last segment is ever written to, and a     *)
(* write leaves no line unended.                                           *)
LEMMA PutTorn ==
    ASSUME NEW n \in Nat, NEW seg, DOMAIN disk \subseteq Nat, \A m \in DOMAIN disk : m <= n,
           disk' = PutSegment(n, seg),
           seg.tail = "ended" \/ (n \in DOMAIN disk /\ seg.tail = disk[n].tail)
    PROVE  /\ TornLast' => TornLast
           /\ seg.tail = "ended" => ~ TornLast'
<1>1. /\ DOMAIN disk' = DOMAIN disk \cup {n} /\ disk'[n] = seg
      /\ \A m \in DOMAIN disk : m # n => disk'[m] = disk[m]
  BY DEF PutSegment
<1>2. ASSUME NEW k \in DOMAIN disk', \A m \in DOMAIN disk' : m <= k
      PROVE  k = n
  <2>1. n <= k /\ k <= n /\ k \in Nat
    BY <1>1, <1>2
  <2> QED
    BY <2>1
<1>3. ASSUME TornLast' PROVE n \in DOMAIN disk /\ disk[n].tail # "ended" /\ seg.tail # "ended"
  <2>1. PICK k \in DOMAIN disk' : disk'[k].tail # "ended" /\ \A m \in DOMAIN disk' : m <= k
    BY <1>3 DEF TornLast
  <2>2. k = n
    BY <1>2, <2>1
  <2> QED
    BY <1>1, <2>1, <2>2
<1> QED
  BY <1>3 DEF TornLast

LEMMA DropTorn ==
    ASSUME NEW n, cur \in DOMAIN disk, DOMAIN disk \subseteq Nat, \A m \in DOMAIN disk : m <= cur,
           n # cur, disk' = [m \in DOMAIN disk \ {n} |-> disk[m]]
    PROVE  TornLast' => TornLast
<1>1. DOMAIN disk' = DOMAIN disk \ {n} /\ \A m \in DOMAIN disk' : disk'[m] = disk[m]
  OBVIOUS
<1> SUFFICES ASSUME TornLast' PROVE TornLast
  OBVIOUS
<1>2. PICK k \in DOMAIN disk' : disk'[k].tail # "ended" /\ \A m \in DOMAIN disk' : m <= k
  BY DEF TornLast
<1>3. cur <= k /\ k <= cur /\ cur \in Nat /\ k \in Nat
  BY <1>1, <1>2
<1>4. k = cur
  BY <1>3
<1> QED
  BY <1>1, <1>2, <1>4 DEF TornLast

(* Where nothing is torn, nothing is glued.                                *)
LEMMA OpenedEnded ==
    ASSUME Sound, CurLast, ~ TornLast, NEW incoming
    PROVE  Opened(incoming).tail = "ended"
<1>1. \A n \in DOMAIN disk : n <= SegmentFor(incoming)
  BY SegmentFact DEF CurLast
<1>2. CASE SegmentFor(incoming) \in DOMAIN disk
  BY <1>1, <1>2 DEF Opened, TornLast
<1>3. CASE SegmentFor(incoming) \notin DOMAIN disk
  BY <1>3 DEF Opened, EmptySeg
<1> QED
  BY <1>2, <1>3

LEMMA CostNat ==
    ASSUME crashes \in Nat
    PROVE  Cost \in Nat
BY StoreAssumption DEF Cost

LEMMA SameCosts ==
    ASSUME NEW V, Costs(V), crashes' = crashes, TornLast' => TornLast
    PROVE  Costs(V)'
<1>1. Cost' = Cost
  BY DEF Cost
<1>2. Cardinality(V) \in Nat /\ Cost \in Nat
  BY FS_CardinalityType, CostNat DEF Costs
<1> QED
  BY <1>1, <1>2 DEF Costs

(* What was set aside for the torn line pays for the two that are lost.    *)
LEMMA GlueCosts ==
    ASSUME NEW V, NEW x, NEW y, Costs(V), crashes' = crashes, TornLast, ~ TornLast'
    PROVE  Costs(V \cup {x, y})'
<1>1. Cost' = Cost
  BY DEF Cost
<1>2. PICK c \in Nat : c = Cardinality(V)
  BY FS_CardinalityType DEF Costs
<1>3. IsFiniteSet(V) /\ c + 2 <= Cost /\ Cost \in Nat
  BY <1>2, CostNat DEF Costs
<1>4. /\ IsFiniteSet(V \cup {x})
      /\ Cardinality(V \cup {x}) \in {c, c + 1}
  BY <1>2, <1>3, FS_AddElement
<1>5. PICK d \in Nat : d = Cardinality(V \cup {x})
  BY <1>4, FS_CardinalityType
<1>6. /\ IsFiniteSet((V \cup {x}) \cup {y})
      /\ Cardinality((V \cup {x}) \cup {y}) \in {d, d + 1}
  BY <1>4, <1>5, FS_AddElement
<1>7. (V \cup {x}) \cup {y} = V \cup {x, y}
  OBVIOUS
<1>8. PICK e \in Nat : e = Cardinality(V \cup {x, y})
  BY <1>6, <1>7, FS_CardinalityType
<1>9. e + 0 <= Cost
  <2>1. PICK total \in Nat : total = Cost
    BY <1>3
  <2>2. c + 2 <= total /\ d \in {c, c + 1} /\ e \in {d, d + 1}
    BY <1>3, <1>4, <1>5, <1>6, <1>7, <1>8, <2>1
  <2>3. e <= c + 2
    BY <2>2
  <2>4. e + 0 <= total
    BY <2>2, <2>3
  <2> QED
    BY <2>1, <2>4
<1> QED
  BY <1>1, <1>6, <1>7, <1>8, <1>9 DEF Costs

(* A crash pays in advance, ...                                            *)
LEMMA CrashCosts ==
    ASSUME NEW U, Kept(U), NEW V, Costs(V), Crash
    PROVE  Costs(V)'
<1>1. /\ running /\ crashes' = crashes + 1
      /\ disk' = disk \/ RolledOnly \/ \E line \in Writing : Torn(line)
  BY DEF Crash
<1>2. /\ Cardinality(V) \in Nat /\ IsFiniteSet(V) /\ crashes \in Nat
      /\ Cardinality(V) + (IF TornLast THEN 2 ELSE 0) <= Cost
  BY FS_CardinalityType DEF Costs
<1>3. CASE Tears # {}
  <2>1. Cost = 2 * crashes /\ Cost' = 2 * (crashes + 1)
    BY <1>1, <1>3 DEF Cost
  <2>2. Cardinality(V) <= 2 * crashes
    BY <1>2, <2>1
  <2>3. Cardinality(V) + (IF TornLast' THEN 2 ELSE 0) <= 2 * (crashes + 1)
    BY <1>2, <2>2
  <2> QED
    BY <1>1, <1>2, <2>1, <2>3 DEF Costs
<1>4. CASE Tears = {}
  <2>1. Cost = 0 /\ Cost' = 0
    BY <1>4 DEF Cost
  <2>2. TornLast' => TornLast
    <3>1. CASE disk' = disk
      BY <3>1 DEF TornLast
    <3>2. CASE RolledOnly
      <4>1. PICK incoming : disk' = PutSegment(SegmentFor(incoming), Opened(incoming))
        BY <3>2 DEF RolledOnly
      <4>2. PICK n : n = SegmentFor(incoming)
        OBVIOUS
      <4>3. PICK seg : seg = Opened(incoming)
        OBVIOUS
      <4>4. CurLast
        BY <1>1, RunningFacts
      <4>5. n \in Nat /\ \A m \in DOMAIN disk : m <= n
        BY <4>2, <4>4, SegmentFact DEF Kept, CurLast
      <4>6. seg.tail = "ended" \/ (n \in DOMAIN disk /\ seg.tail = disk[n].tail)
        BY <4>2, <4>3 DEF Opened, EmptySeg
      <4>7. disk' = PutSegment(n, seg) /\ DOMAIN disk \subseteq Nat
        BY <4>1, <4>2, <4>3 DEF Kept, Sound
      <4> QED
        BY <4>5, <4>6, <4>7, PutTorn
    <3>3. ~ \E line \in Writing : Torn(line)
      BY <1>4 DEF Torn
    <3> QED
      BY <1>1, <3>1, <3>2, <3>3
  <2> QED
    BY <1>1, <1>2, <2>1, <2>2 DEF Costs
<1> QED
  BY <1>3, <1>4

(* ... and so did the one before, if this one takes a line along.          *)
LEMMA CrashGlueCosts ==
    ASSUME NEW V, NEW x, Costs(V), TornLast, Crash
    PROVE  Costs(V \cup {x})'
<1>1. crashes' = crashes + 1
  BY DEF Crash
<1>2. PICK c \in Nat : c = Cardinality(V)
  BY FS_CardinalityType DEF Costs
<1>3. IsFiniteSet(V) /\ c + 2 <= Cost /\ Cost \in Nat /\ crashes \in Nat
  BY <1>2, CostNat DEF Costs
<1>4. Cost = 2 * crashes /\ Cost' = 2 * (crashes + 1)
  BY <1>1, <1>2, <1>3 DEF Cost
<1>5. /\ IsFiniteSet(V \cup {x})
      /\ Cardinality(V \cup {x}) \in {c, c + 1}
  BY <1>2, <1>3, FS_AddElement
<1>6. Cardinality(V \cup {x}) + (IF TornLast' THEN 2 ELSE 0) <= 2 * (crashes + 1)
  BY <1>2, <1>3, <1>4, <1>5
<1> QED
  BY <1>1, <1>3, <1>4, <1>5, <1>6 DEF Costs

-----------------------------------------------------------------------------
(* Every step keeps what the crashes have cost apart from the rest.        *)

LEMMA EnforceKeeps ==
    ASSUME NEW ix, NEW max, NEW next, Enforce(ix, max, next)
    PROVE  /\ DOMAIN index' \subseteq DOMAIN ix
           /\ \A id \in DOMAIN index' : index'[id] = ix[id]
           /\ gone \subseteq gone'
<1>1. PICK kept \in Enforced(ix, max) : index' = kept /\ gone' = gone \cup (DOMAIN ix \ DOMAIN kept)
  BY DEF Enforce
<1>2. PICK from : kept = Newest(ix, from)
  BY <1>1 DEF Enforced
<1> QED
  BY <1>1, <1>2 DEF Newest

LEMMA PutGarbled ==
    ASSUME NEW n, NEW seg, disk' = PutSegment(n, seg),
           n \in DOMAIN disk /\ disk[n].tail = "garbled" => seg.tail = "garbled"
    PROVE  \A m : Garbled(m) => Garbled(m)'
BY DEF PutSegment, Garbled

(* A message that lies where it lay is spoilt as it was.                   *)
LEMMA SpoiltStep ==
    ASSUME NEW W, Spoilt(W), running, running', gone \subseteq gone',
           \A m : Garbled(m) => Garbled(m)',
           \A id \in DOMAIN index' : id \in W \ gone =>
              id \in DOMAIN index /\ index'[id].seg = index[id].seg
    PROVE  Spoilt(W)'
<1>1. ASSUME NEW id \in W \ gone', id \in DOMAIN index'
      PROVE  Garbled(index[id].seg)'
  <2>1. id \in W \ gone /\ id \in DOMAIN index /\ index'[id].seg = index[id].seg
    BY <1>1
  <2>2. PICK s : s = index[id].seg
    OBVIOUS
  <2>3. PICK t : t = index'[id].seg
    OBVIOUS
  <2>4. Garbled(index[id].seg)
    BY <2>1 DEF Spoilt
  <2>5. Garbled(s)
    BY <2>2, <2>4 DEF Garbled
  <2>6. Garbled(s)' /\ t = s
    BY <2>1, <2>2, <2>3, <2>5
  <2> QED
    BY <2>6, <2>3 DEF Garbled
<1> QED
  BY <1>1 DEF Spoilt

(* A message that is being appended need not be among them: nothing of it  *)
(* is there.                                                               *)
LEMMA Narrow ==
    ASSUME NEW V, Kept(V), NEW x, running, x \notin DOMAIN index, x \in Nat => Messages(x) = {}
    PROVE  Kept(V \ {x})
<1>1. DiskInv(V \ {x})
  BY DEF Kept, DiskInv, SafeAt
<1>2. MemInv(V \ {x})
  BY DEF Kept, MemInv
<1> QED
  BY <1>1, <1>2 DEF Kept

LEMMA FewerCosts ==
    ASSUME NEW V, Costs(V), NEW U, U \subseteq V
    PROVE  Costs(U)
<1>1. IsFiniteSet(V) /\ crashes \in Nat /\ Cardinality(V) + (IF TornLast THEN 2 ELSE 0) <= Cost
  BY DEF Costs
<1>2. IsFiniteSet(U) /\ Cardinality(U) <= Cardinality(V)
  BY <1>1, FS_Subset
<1>3. Cardinality(U) \in Nat /\ Cardinality(V) \in Nat
  BY <1>1, <1>2, FS_CardinalityType
<1>4. Cost \in Nat
  BY <1>1, CostNat
<1> QED
  BY <1>1, <1>2, <1>3, <1>4 DEF Costs

LEMMA NewApart ==
    ASSUME StoreInv, op \in {"body", "meta"}
    PROVE  \E V, W : /\ Kept(V \cup W) /\ Costs(V) /\ Spoilt(W)
                     /\ msg.id \notin V \cup W
<1>1. PICK V, W : Kept(V \cup W) /\ Costs(V) /\ Spoilt(W)
  BY DEF StoreInv
<1>2. /\ running /\ msg.id \notin DOMAIN index
      /\ msg.id \in Nat => Messages(msg.id) = {}
  BY <1>1 DEF Kept, OpInv
<1>3. PICK x : x = msg.id
  OBVIOUS
<1>4. Kept((V \cup W) \ {x})
  BY <1>1, <1>2, <1>3, Narrow
<1>5. Costs(V \ {x})
  BY <1>1, FewerCosts
<1>6. Spoilt(W \ {x})
  BY <1>1 DEF Spoilt
<1>7. (V \cup W) \ {x} = (V \ {x}) \cup (W \ {x})
  OBVIOUS
<1>8. Kept((V \ {x}) \cup (W \ {x}))
  BY <1>4, <1>7
<1>9. msg.id \notin (V \ {x}) \cup (W \ {x})
  BY <1>3
<1> QED
  <2> WITNESS V \ {x}, W \ {x}
  <2> QED
    BY <1>5, <1>6, <1>8, <1>9

(* The steps that leave the disk as it is.                                 *)
LEMMA SameDiskSpoils ==
    ASSUME NEW V, NEW W, Costs(V), Spoilt(W), disk' = disk, crashes' = crashes,
           running, running', gone \subseteq gone',
           \A id \in DOMAIN index' : id \in DOMAIN index /\ index'[id].seg = index[id].seg
    PROVE  Costs(V)' /\ Spoilt(W)'
<1>1. (\A m : Garbled(m) => Garbled(m)') /\ (TornLast' => TornLast)
  BY DEF Garbled, TornLast
<1> QED
  BY <1>1, SameCosts, SpoiltStep

LEMMA SameDiskKeeps ==
    ASSUME StoreInv, running', crashes' = crashes,
           \/ \E size \in Sizes, group \in NewGroups : TakeId(size, group)
           \/ \E ids \in SUBSET Ids : Delete(ids)
           \/ Clear
           \/ \E id \in Ids, group \in Groups \cup {None} : SetGroup(id, group)
           \/ \E max \in Entries : SetRetention(max)
           \/ EndReclaim
    PROVE  StoreInv'
<1>1. PICK V, W : Kept(V \cup W) /\ Costs(V) /\ Spoilt(W)
  BY DEF StoreInv
<1>2. running
  BY <1>1 DEF TakeId, Delete, Clear, SetGroup, SetRetention, EndReclaim, Edit, Ready, Kept, OpInv
<1>3. disk' = disk /\ gone \subseteq gone'
  BY EnforceKeeps DEF TakeId, Delete, Clear, SetGroup, SetRetention, EndReclaim, Edit, history
<1>4. \A id \in DOMAIN index' : id \in DOMAIN index /\ index'[id].seg = index[id].seg
  <2>1. CASE \E size \in Sizes, group \in NewGroups : TakeId(size, group)
    BY <2>1 DEF TakeId
  <2>2. CASE \E ids \in SUBSET Ids : Delete(ids)
    BY <2>2 DEF Delete
  <2>3. CASE Clear
    BY <2>3 DEF Clear
  <2>4. CASE \E id \in Ids, group \in Groups \cup {None} : SetGroup(id, group)
    <3>1. PICK id \in Ids, group \in Groups \cup {None} : SetGroup(id, group)
      BY <2>4
    <3>2. id \in DOMAIN index /\ index' = [index EXCEPT ![id].group = group]
      BY <3>1 DEF SetGroup
    <3>3. index[id] \in Slot
      BY <1>1, <1>2, <3>2 DEF Kept, MemInv
    <3> QED
      BY <3>2, <3>3 DEF Slot
  <2>5. CASE \E max \in Entries : SetRetention(max)
    <3>1. PICK max \in Entries : Enforce(index, max, nextId)
      BY <2>5 DEF SetRetention
    <3> QED
      BY <3>1, EnforceKeeps
  <2>6. CASE EndReclaim
    BY <2>6 DEF EndReclaim, memory
  <2> QED
    BY <2>1, <2>2, <2>3, <2>4, <2>5, <2>6
<1>5. Costs(V)' /\ Spoilt(W)'
  BY <1>1, <1>2, <1>3, <1>4, SameDiskSpoils
<1>6. Kept(V \cup W)'
  BY <1>1, TakeIdSafe, DeleteSafe, ClearSafe, SetGroupSafe, SetRetentionSafe, EndReclaimSafe
<1> QED
  BY <1>5, <1>6 DEF StoreInv

(* The steps that write keep their segment's tail, or end it.              *)
LEMMA WrittenTail ==
    ASSUME NEW seg \in Segment, NEW line
    PROVE  Written(seg, line).tail = (IF seg.tail = "garbled" THEN "garbled" ELSE "ended")
<1>1. PICK ls : ls = CASE seg.tail = "ended"   -> Append(seg.lines, line)
                       [] seg.tail = "unended" -> Front(seg.lines)
                       [] seg.tail \in {"cut", "garbled"} -> seg.lines
  OBVIOUS
<1>2. PICK t : t = IF seg.tail = "garbled" THEN "garbled" ELSE "ended"
  OBVIOUS
<1>3. Written(seg, line) = [seg EXCEPT !.tail = t, !.lines = ls]
  BY <1>1, <1>2 DEF Written, Segment
<1> QED
  BY <1>2, <1>3 DEF Segment

LEMMA OpenedIs ==
    ASSUME Sound, CurLast, NEW incoming
    PROVE  /\ SegmentFor(incoming) \in Nat
           /\ \A m \in DOMAIN disk : m <= SegmentFor(incoming)
           /\ Opened(incoming) \in Segment
           /\ IF SegmentFor(incoming) \in DOMAIN disk
              THEN Opened(incoming) = disk[SegmentFor(incoming)]
              ELSE Opened(incoming).tail = "ended"
<1>1. SegmentFor(incoming) \notin DOMAIN disk => Opened(incoming).tail = "ended"
  BY DEF Opened, EmptySeg
<1> QED
  BY <1>1, SegmentFact DEF Opened, CurLast, Sound

LEMMA WriteBodyKeeps ==
    ASSUME StoreInv, WriteBody
    PROVE  StoreInv'
<1>1. PICK V, W : Kept(V \cup W) /\ Costs(V) /\ Spoilt(W)
  BY DEF StoreInv
<1>2. PICK incoming : incoming = msg.att + Reserve
  OBVIOUS
<1>3. PICK n : n = SegmentFor(incoming)
  OBVIOUS
<1>4. PICK seg : seg = [Opened(incoming) EXCEPT !.used = @ + msg.body, !.bodies = @ \cup {msg.id}]
  OBVIOUS
<1>5. /\ op = "body" /\ disk' = PutSegment(n, seg)
      /\ running' = running /\ gone' = gone /\ index' = index /\ crashes' = crashes
  BY <1>2, <1>3, <1>4 DEF WriteBody, history
<1>6. running
  BY <1>1, <1>5 DEF Kept, OpInv
<1>7. CurLast
  BY <1>1, <1>6, RunningFacts
<1>8. /\ n \in Nat /\ \A m \in DOMAIN disk : m <= n
      /\ n \in DOMAIN disk => seg.tail = disk[n].tail
      /\ n \notin DOMAIN disk => seg.tail = "ended"
  BY <1>1, <1>3, <1>4, <1>7, OpenedIs DEF Kept, Segment
<1>9. Costs(V)'
  BY <1>1, <1>5, <1>8, PutTorn, SameCosts DEF Kept, Sound
<1>10. \A m : Garbled(m) => Garbled(m)'
  BY <1>5, <1>8, PutGarbled
<1>11. Spoilt(W)'
  BY <1>1, <1>5, <1>6, <1>10, SpoiltStep
<1>12. Kept(V \cup W)'
  BY <1>1, WriteBodySafe
<1> QED
  BY <1>9, <1>11, <1>12 DEF StoreInv

LEMMA WriteMetaKeeps ==
    ASSUME StoreInv, WriteMeta
    PROVE  StoreInv'
<1>1. PICK V, W : Kept(V \cup W) /\ Costs(V) /\ Spoilt(W) /\ msg.id \notin V \cup W
  BY NewApart DEF WriteMeta
<1>2. PICK n : n = cur
  OBVIOUS
<1>3. PICK x : x = msg.id
  OBVIOUS
<1>4. PICK line : line = MsgLine(msg.id, msg.group, cur)
  OBVIOUS
<1>5. PICK new : new = Written(disk[n], line)
  OBVIOUS
<1>6. /\ op = "meta" /\ disk' = PutSegment(n, new)
      /\ running' = running /\ crashes' = crashes
  BY <1>2, <1>4, <1>5 DEF WriteMeta
<1>7. running /\ cur # None
  BY <1>1, <1>6 DEF Kept, OpInv
<1>8. n \in DOMAIN disk /\ n \in Nat /\ disk[n] \in Segment /\ \A m \in DOMAIN disk : m <= n
  BY <1>1, <1>2, <1>7, RunningFacts DEF CurLast, Kept, Sound
<1>9. new.tail = (IF disk[n].tail = "garbled" THEN "garbled" ELSE "ended")
  BY <1>5, <1>8, WrittenTail
<1>10. \A m : Garbled(m) => Garbled(m)'
  BY <1>6, <1>9, PutGarbled
<1>11. /\ gone \subseteq gone'
       /\ \A id \in DOMAIN index' : \/ id = x /\ index'[id].seg = n
                                    \/ id \in DOMAIN index /\ index'[id].seg = index[id].seg
  <2>1. PICK ix : ix = [id \in DOMAIN index \cup {msg.id} |->
                         IF id = msg.id THEN [seg |-> cur, group |-> msg.group] ELSE index[id]]
    OBVIOUS
  <2>2. Enforce(ix, maxEntries, nextId)
    BY <2>1 DEF WriteMeta
  <2>3. gone \subseteq gone' /\ DOMAIN index' \subseteq DOMAIN ix /\ \A id \in DOMAIN index' : index'[id] = ix[id]
    BY <2>2, EnforceKeeps
  <2> QED
    BY <1>2, <1>3, <2>1, <2>3
<1>12. Spoilt(W)'
  BY <1>1, <1>3, <1>6, <1>7, <1>10, <1>11, SpoiltStep
<1>13. CASE disk[n].tail = "ended"
  <2>1. Kept(V \cup W)'
    BY <1>1, <1>2, <1>13, WriteMetaSafe
  <2>2. Costs(V)'
    BY <1>1, <1>6, <1>8, <1>9, <1>13, PutTorn, SameCosts DEF Kept, Sound
  <2> QED
    BY <1>12, <2>1, <2>2 DEF StoreInv
<1>14. ASSUME disk[n].tail # "ended"
       PROVE  TornLast /\ (disk[n].tail # "unended" => Lost = {})
  <2>1. TornLast
    BY <1>8, <1>14 DEF TornLast
  <2>2. new \in Segment /\ new.lines = Written(disk[n], line).lines /\ new.bodies = disk[n].bodies
    BY <1>5, <1>8, <1>14, GluedIs
  <2> QED
    BY <1>1, <1>6, <1>8, <1>14, <2>1, <2>2, GlueCuts DEF Kept
<1>15. CASE disk[n].tail = "garbled"
  <2>1. Kept(V \cup (W \cup {x}))
    BY <1>1, Widen
  <2>2. Kept(V \cup (W \cup {x}))'
    BY <1>2, <1>3, <1>14, <1>15, <2>1, WriteMetaGlued
  <2>3. Costs(V)'
    BY <1>1, <1>6, <1>8, <1>9, <1>15, PutTorn, SameCosts DEF Kept, Sound
  <2>4. Tears # {}
    <3>1. Cardinality(V) \in Nat /\ Cardinality(V) + 2 <= Cost
      BY <1>1, <1>14, <1>15, FS_CardinalityType DEF Costs
    <3> QED
      BY <3>1 DEF Cost
  <2>5. Garbled(n)'
    BY <1>8, <1>10, <1>15 DEF Garbled
  <2>6. Spoilt(W \cup {x})'
    <3>1. ASSUME NEW id \in (W \cup {x}) \ gone', id \in DOMAIN index'
          PROVE  Garbled(index[id].seg)'
      <4>1. CASE id \in W
        BY <1>6, <1>7, <1>12, <3>1, <4>1 DEF Spoilt
      <4>2. CASE id \notin W
        <5>1. id = x
          BY <3>1, <4>2
        <5>2. x \notin DOMAIN index
          BY <1>1, <1>3, <1>6 DEF Kept, OpInv
        <5>3. index'[id].seg = n
          BY <1>11, <3>1, <5>1, <5>2
        <5> QED
          BY <2>5, <5>3 DEF Garbled
      <4> QED
        BY <4>1, <4>2
    <3> QED
      BY <1>6, <1>7, <2>4, <3>1 DEF Spoilt
  <2> QED
    BY <2>2, <2>3, <2>6 DEF StoreInv
<1>16. CASE disk[n].tail \notin {"ended", "garbled"}
  <2>1. PICK y : Lost \subseteq {y}
    BY LostOne
  <2>2. Kept((V \cup {x, y}) \cup W)
    BY <1>1, Widen
  <2>3. Kept((V \cup {x, y}) \cup W)'
    BY <1>2, <1>3, <1>16, <2>1, <2>2, WriteMetaGlued
  <2>4. ~ TornLast'
    BY <1>1, <1>6, <1>8, <1>9, <1>16, PutTorn DEF Kept, Sound
  <2>5. Costs(V \cup {x, y})'
    BY <1>1, <1>6, <1>14, <1>16, <2>4, GlueCosts
  <2> QED
    BY <1>12, <2>3, <2>5 DEF StoreInv
<1> QED
  BY <1>13, <1>15, <1>16

LEMMA WriteLineKeeps ==
    ASSUME StoreInv, WriteLine
    PROVE  StoreInv'
<1>1. PICK V, W : Kept(V \cup W) /\ Costs(V) /\ Spoilt(W)
  BY DEF StoreInv
<1>2. PICK n : n = SegmentFor(0)
  OBVIOUS
<1>3. PICK seg : seg = Opened(0)
  OBVIOUS
<1>4. PICK line \in todo : disk' = PutSegment(n, Written(seg, line))
  BY <1>2, <1>3 DEF WriteLine
<1>5. PICK new : new = Written(seg, line)
  OBVIOUS
<1>6. /\ op = "lines" /\ disk' = PutSegment(n, new)
      /\ running' = running /\ gone' = gone /\ index' = index /\ crashes' = crashes
  BY <1>4, <1>5 DEF WriteLine, history
<1>7. running
  BY <1>1, <1>6 DEF Kept, OpInv
<1>8. /\ n \in Nat /\ \A m \in DOMAIN disk : m <= n
      /\ seg \in Segment
      /\ IF n \in DOMAIN disk THEN seg = disk[n] ELSE seg.tail = "ended"
  BY <1>1, <1>2, <1>3, <1>7, RunningFacts, OpenedIs DEF Kept
<1>9. new.tail = (IF seg.tail = "garbled" THEN "garbled" ELSE "ended")
  BY <1>5, <1>8, WrittenTail
<1>10. \A m : Garbled(m) => Garbled(m)'
  BY <1>6, <1>8, <1>9, PutGarbled
<1>11. Spoilt(W)'
  BY <1>1, <1>6, <1>7, <1>10, SpoiltStep
<1>12. seg.tail \in {"ended", "garbled"} => Costs(V)'
  BY <1>1, <1>6, <1>8, <1>9, PutTorn, SameCosts DEF Kept, Sound
<1>13. CASE seg.tail = "ended"
  <2>1. Kept(V \cup W)'
    BY <1>1, <1>3, <1>13, WriteLineSafe
  <2> QED
    BY <1>11, <1>12, <1>13, <2>1 DEF StoreInv
<1>14. ASSUME seg.tail # "ended"
       PROVE  TornLast /\ (seg.tail # "unended" => Lost = {})
  <2>1. TornLast
    BY <1>8, <1>14 DEF TornLast
  <2>2. new \in Segment /\ new.lines = Written(seg, line).lines /\ new.bodies = seg.bodies
    BY <1>5, <1>8, <1>14, GluedIs
  <2> QED
    BY <1>1, <1>6, <1>8, <1>14, <2>1, <2>2, GlueCuts DEF Kept
<1>15. CASE seg.tail = "garbled"
  <2>1. Kept(V \cup W)'
    BY <1>1, <1>3, <1>14, <1>15, WriteLineGlued
  <2> QED
    BY <1>11, <1>12, <1>15, <2>1 DEF StoreInv
<1>16. CASE seg.tail \notin {"ended", "garbled"}
  <2>1. PICK x : Lost \subseteq {x}
    BY LostOne
  <2>2. Kept((V \cup {x, x}) \cup W)
    BY <1>1, Widen
  <2>3. Kept((V \cup {x, x}) \cup W)'
    BY <1>3, <1>16, <2>1, <2>2, WriteLineGlued
  <2>4. ~ TornLast'
    BY <1>1, <1>6, <1>8, <1>9, <1>16, PutTorn DEF Kept, Sound
  <2>5. Costs(V \cup {x, x})'
    BY <1>1, <1>6, <1>14, <1>16, <2>4, GlueCosts
  <2> QED
    BY <1>11, <2>3, <2>5 DEF StoreInv
<1> QED
  BY <1>13, <1>15, <1>16

LEMMA DropSegmentKeeps ==
    ASSUME StoreInv, DropSegment
    PROVE  StoreInv'
<1>1. PICK V, W : Kept(V \cup W) /\ Costs(V) /\ Spoilt(W)
  BY DEF StoreInv
<1>2. PICK n : n = Min(Orphans)
  OBVIOUS
<1>3. /\ op = "reclaim" /\ Orphans # {} /\ disk' = [m \in DOMAIN disk \ {n} |-> disk[m]]
      /\ running' = running /\ index' = index /\ gone' = gone /\ crashes' = crashes
  BY <1>2 DEF DropSegment, memory, request, history
<1>4. running /\ cur # None /\ DOMAIN disk \subseteq Nat
  BY <1>1, <1>3 DEF Kept, OpInv, Sound
<1>5. CurLast
  BY <1>1, <1>4, RunningFacts
<1>6. n # cur /\ \A id \in DOMAIN index : index[id].seg # n
  <2>1. n \in Orphans
    <3>1. Orphans \in SUBSET Nat
      BY <1>4 DEF Orphans
    <3> QED
      BY <1>2, <1>3, <3>1, MinFact
  <2> QED
    BY <2>1 DEF Orphans
<1>7. TornLast' => TornLast
  BY <1>3, <1>4, <1>5, <1>6, DropTorn DEF CurLast
<1>8. Costs(V)'
  BY <1>1, <1>3, <1>7, SameCosts
<1>9. Spoilt(W)'
  <2>1. ASSUME NEW id \in W \ gone, id \in DOMAIN index
        PROVE  Garbled(index[id].seg)'
    <3>1. PICK s : s = index[id].seg
      OBVIOUS
    <3>2. Garbled(index[id].seg)
      BY <1>1, <1>4, <2>1 DEF Spoilt
    <3>3. s \in DOMAIN disk /\ disk[s].tail = "garbled" /\ s # n
      BY <1>6, <2>1, <3>1, <3>2 DEF Garbled
    <3>4. s \in DOMAIN disk' /\ disk'[s].tail = "garbled" /\ index'[id].seg = s
      BY <1>3, <3>1, <3>3
    <3> QED
      BY <3>4 DEF Garbled
  <2> QED
    BY <1>1, <1>3, <1>4, <2>1 DEF Spoilt
<1>10. Kept(V \cup W)'
  BY <1>1, DropSegmentSafe
<1> QED
  BY <1>8, <1>9, <1>10 DEF StoreInv

LEMMA CrashGarbled ==
    ASSUME NEW V, Kept(V), Crash
    PROVE  \A m : Garbled(m) => Garbled(m)'
<1>1. running /\ (disk' = disk \/ RolledOnly \/ \E line \in Writing : Torn(line))
  BY DEF Crash
<1>2. CASE disk' = disk
  BY <1>2 DEF Garbled
<1>3. CASE RolledOnly
  <2>1. PICK incoming : disk' = PutSegment(SegmentFor(incoming), Opened(incoming))
    BY <1>3 DEF RolledOnly
  <2> QED
    BY <2>1, PutGarbled DEF Opened
<1>4. CASE \E line \in Writing : Torn(line)
  <2>1. PICK line, n, seg, tail : /\ seg = (IF n \in DOMAIN disk THEN disk[n] ELSE EmptySeg)
                                  /\ disk' = PutSegment(n, TornOff(seg, line, tail))
    BY <1>4 DEF Torn
  <2>2. n \in DOMAIN disk /\ disk[n].tail = "garbled" => TornOff(seg, line, tail).tail = "garbled"
    <3>1. ASSUME n \in DOMAIN disk, disk[n].tail = "garbled"
          PROVE  TornOff(seg, line, tail).tail = "garbled"
      <4>1. seg \in Segment /\ seg.tail = "garbled"
        BY <2>1, <3>1 DEF Kept, Sound
      <4>2. PICK glued : glued = Written(seg, line)
        OBVIOUS
      <4>3. glued \in Segment
        BY <4>1, <4>2, GluedIs
      <4>4. TornOff(seg, line, tail) = [glued EXCEPT !.tail = "garbled"]
        BY <4>1, <4>2 DEF TornOff
      <4> QED
        BY <4>3, <4>4 DEF Segment
    <3> QED
      BY <3>1
  <2>3. PICK new : new = TornOff(seg, line, tail)
    OBVIOUS
  <2> QED
    BY <2>1, <2>2, <2>3, PutGarbled
<1> QED
  BY <1>1, <1>2, <1>3, <1>4

LEMMA CrashKeeps ==
    ASSUME StoreInv, Crash
    PROVE  StoreInv'
<1>1. PICK V, W : /\ Kept(V \cup W) /\ Costs(V) /\ Spoilt(W)
                  /\ op = "meta" => msg.id \notin V \cup W
  <2>1. CASE op = "meta"
    BY <2>1, NewApart
  <2>2. CASE op # "meta"
    BY <2>2 DEF StoreInv
  <2> QED
    BY <2>1, <2>2
<1>2. running /\ running' = FALSE /\ gone' = gone
  BY DEF Crash
<1>3. PICK x : Lost \subseteq {x}
  BY LostOne
<1>4. Kept((V \cup {x}) \cup W)
  BY <1>1, Widen
<1>5. Kept((V \cup {x}) \cup W)' /\ Heirs /\ (Lost # {} => TornLast)
  BY <1>3, <1>4, CrashSafe
<1>6. Spoilt(W)'
  <2>1. ASSUME NEW id \in W \ gone, id \in Nat, NEW p \in Messages(id)'
        PROVE  Garbled(LineAt(p).seg)'
    <3>1. id \in DOMAIN index /\ (LineAt(p).seg)' = index[id].seg
      BY <1>1, <1>5, <2>1 DEF Heirs
    <3>2. PICK s : s = index[id].seg
      OBVIOUS
    <3>3. Garbled(index[id].seg)
      BY <1>1, <1>2, <2>1, <3>1 DEF Spoilt
    <3>4. Garbled(s)
      BY <3>2, <3>3 DEF Garbled
    <3>5. Garbled(s)'
      BY <1>4, <3>4, CrashGarbled
    <3>6. (LineAt(p).seg)' = s
      BY <3>1, <3>2
    <3> QED
      BY <3>5, <3>6 DEF Garbled
  <2>2. ASSUME NEW id, NEW p \in Messages(id)'
        PROVE  id \in Nat
    <3>1. p \in Places' /\ (LineAt(p).id)' = id
      BY <2>2 DEF Messages
    <3>2. PICK n \in DOMAIN disk' : p \in {n} \X DOMAIN disk'[n].lines
      BY <3>1 DEF Places
    <3>3. disk'[n].lines \in Seq(Lines)
      BY <1>5, <3>2 DEF Kept, Sound, Segment
    <3>4. disk'[p[1]].lines[p[2]] \in Lines
      BY <3>2, <3>3
    <3> QED
      BY <3>1, <3>4 DEF LineAt, Lines
  <2> QED
    BY <1>1, <1>2, <2>1, <2>2 DEF Spoilt
<1>7. CASE Lost = {}
  <2>1. Kept(V \cup W)'
    BY <1>1, <1>7, CrashSafe
  <2>2. Costs(V)'
    BY <1>1, CrashCosts
  <2> QED
    BY <1>6, <2>1, <2>2 DEF StoreInv
<1>8. CASE Lost # {}
  <2>1. Costs(V \cup {x})'
    BY <1>1, <1>5, <1>8, CrashGlueCosts
  <2> QED
    BY <1>5, <1>6, <2>1 DEF StoreInv
<1> QED
  BY <1>7, <1>8

LEMMA OpenKeeps ==
    ASSUME StoreInv, NEW max \in Entries, Open(max)
    PROVE  StoreInv'
<1>1. PICK V, W : Kept(V \cup W) /\ Costs(V) /\ Spoilt(W)
  BY DEF StoreInv
<1>2. PICK ix : ix = Replay
  OBVIOUS
<1>3. /\ ~ running /\ running' = TRUE /\ disk' = disk /\ crashes' = crashes
      /\ Enforce(ix, max, NextIdOf(Seen))
  BY <1>2 DEF Open
<1>4. /\ DOMAIN index' \subseteq Live /\ gone \subseteq gone'
      /\ \A id \in DOMAIN index' : index'[id].seg = LineAt(LastMessage(id)).seg
  <2>1. /\ DOMAIN index' \subseteq DOMAIN ix /\ gone \subseteq gone'
        /\ \A id \in DOMAIN index' : index'[id] = ix[id]
    BY <1>3, EnforceKeeps
  <2>2. DOMAIN ix = Live /\ \A id \in Live : ix[id].seg = LineAt(LastMessage(id)).seg
    BY <1>2 DEF Replay
  <2> QED
    BY <2>1, <2>2
<1>5. Spoilt(W)'
  <2>1. ASSUME NEW id \in W \ gone', id \in DOMAIN index'
        PROVE  Garbled(index[id].seg)'
    <3>1. id \in Live /\ index'[id].seg = LineAt(LastMessage(id)).seg
      BY <1>4, <2>1
    <3>2. LastMessage(id) \in Messages(id)
      BY <1>1, <3>1, LastIsThere DEF Live, Alive, Kept
    <3>3. PICK s : s = LineAt(LastMessage(id)).seg
      OBVIOUS
    <3>4. Garbled(LineAt(LastMessage(id)).seg)
      BY <1>1, <1>3, <1>4, <2>1, <3>2 DEF Spoilt
    <3>5. Garbled(s)
      BY <3>3, <3>4
    <3>6. s \in DOMAIN disk' /\ disk'[s].tail = "garbled" /\ index'[id].seg = s
      BY <1>3, <3>1, <3>3, <3>5 DEF Garbled
    <3> QED
      BY <3>6 DEF Garbled
  <2> QED
    BY <1>1, <1>3, <2>1 DEF Spoilt
<1>6. Costs(V)'
  BY <1>1, <1>3, SameCosts DEF TornLast
<1>7. Kept(V \cup W)'
  BY <1>1, OpenSafe
<1> QED
  BY <1>5, <1>6, <1>7 DEF StoreInv

LEMMA StutterKeeps ==
    ASSUME StoreInv, UNCHANGED vars
    PROVE  StoreInv'
<1>1. PICK V, W : Kept(V \cup W) /\ Costs(V) /\ Spoilt(W)
  BY DEF StoreInv
<1>2. disk' = disk /\ running' = running /\ gone' = gone /\ index' = index /\ crashes' = crashes
  BY DEF vars, memory, history
<1>3. Costs(V)'
  BY <1>1, <1>2, SameCosts DEF TornLast
<1>4. Spoilt(W)'
  <2>1. /\ \A id : Messages(id)' = Messages(id)
        /\ \A id : \A p \in Messages(id) : LineAt(p)' = LineAt(p)
    BY <1>2, UnchangedDisk, SameSets
  <2>2. CASE running
    BY <1>1, <1>2, <2>2 DEF Spoilt, Garbled
  <2>3. ASSUME ~ running, NEW id \in W \ gone, NEW p \in Messages(id)'
        PROVE  Garbled(LineAt(p).seg)'
    <3>1. p \in Messages(id) /\ LineAt(p)' = LineAt(p)
      BY <2>1, <2>3
    <3>2. Garbled(LineAt(p).seg)
      BY <1>1, <2>3, <3>1 DEF Spoilt
    <3> QED
      BY <1>2, <3>1, <3>2 DEF Garbled
  <2> QED
    BY <1>1, <1>2, <2>2, <2>3 DEF Spoilt
<1>5. Kept(V \cup W)'
  BY <1>1, StutterSafe
<1> QED
  BY <1>3, <1>4, <1>5 DEF StoreInv

LEMMA NextKeeps ==
    ASSUME StoreInv, [Next]_vars
    PROVE  StoreInv'
<1>1. CASE \/ \E size \in Sizes, group \in NewGroups : TakeId(size, group)
           \/ \E ids \in SUBSET Ids : Delete(ids)
           \/ Clear
           \/ \E id \in Ids, group \in Groups \cup {None} : SetGroup(id, group)
           \/ \E max \in Entries : SetRetention(max)
           \/ EndReclaim
  <2>1. running' = running /\ crashes' = crashes
    BY <1>1 DEF TakeId, Delete, Clear, SetGroup, SetRetention, EndReclaim, Edit, history
  <2>2. running
    <3>1. op = "reclaim" => running
      BY DEF StoreInv, Kept, OpInv
    <3> QED
      BY <1>1, <3>1 DEF TakeId, Delete, Clear, SetGroup, SetRetention, EndReclaim, Edit, Ready
  <2> QED
    BY <1>1, <2>1, <2>2, SameDiskKeeps
<1>2. CASE WriteBody
  BY <1>2, WriteBodyKeeps
<1>3. CASE WriteMeta
  BY <1>3, WriteMetaKeeps
<1>4. CASE WriteLine
  BY <1>4, WriteLineKeeps
<1>5. CASE DropSegment
  BY <1>5, DropSegmentKeeps
<1>6. CASE Crash
  BY <1>6, CrashKeeps
<1>7. CASE \E max \in Entries : Open(max)
  BY <1>7, OpenKeeps
<1>8. CASE UNCHANGED vars
  BY <1>8, StutterKeeps
<1> QED
  BY <1>1, <1>2, <1>3, <1>4, <1>5, <1>6, <1>7, <1>8 DEF Next, Work

LEMMA InitKeeps == Init => StoreInv
<1> SUFFICES ASSUME Init PROVE StoreInv
  OBVIOUS
<1>1. Kept({}) /\ Costs({})
  BY InitSafe
<1>2. Spoilt({})
  BY DEF Spoilt
<1>3. Kept({} \cup {})
  BY <1>1
<1> QED
  BY <1>1, <1>2, <1>3 DEF StoreInv

-----------------------------------------------------------------------------
(* What the invariant means to those who read a message, before and after  *)
(* a restart.                                                              *)

LEMMA SafeIsThere ==
    ASSUME NEW V, Kept(V), running, NEW id \in DOMAIN index \ (gone \cup V)
    PROVE  /\ Alive(id) /\ LineAt(LastMessage(id)).seg = index[id].seg
           /\ index[id].seg \in DOMAIN disk /\ id \in disk[index[id].seg].bodies
<1>1. /\ id \in Nat /\ Messages(id) # {}
      /\ \A p \in Messages(id) : LineAt(p).seg = index[id].seg
  BY RunningFacts
<1>2. PICK h : SafeAt(V, id, h)
  BY <1>1 DEF Kept, DiskInv
<1>3. Alive(id) /\ LineAt(LastMessage(id)).seg = h
  BY <1>1, <1>2, SafeIsAlive DEF Kept
<1>4. h = index[id].seg
  BY <1>1, <1>2 DEF SafeAt
<1> QED
  BY <1>2, <1>3, <1>4 DEF SafeAt

LEMMA StoreIsWhole ==
    ASSUME StoreInv, Tears = {}
    PROVE  WholeInv
<1>1. PICK V, W : Kept(V \cup W) /\ Costs(V) /\ Spoilt(W)
  BY DEF StoreInv
<1>2. /\ IsFiniteSet(V) /\ Cardinality(V) \in Nat
      /\ Cardinality(V) + (IF TornLast THEN 2 ELSE 0) <= 0
  BY <1>1, FS_CardinalityType DEF Costs, Cost
<1>3. V = {} /\ ~ TornLast
  <2>1. Cardinality(V) = 0 /\ ~ TornLast
    BY <1>2
  <2> QED
    BY <1>2, <2>1, FS_EmptySet
<1>4. W = {}
  BY <1>1 DEF Spoilt
<1>5. V \cup W = {}
  BY <1>3, <1>4
<1> QED
  BY <1>1, <1>3, <1>5 DEF WholeInv

LEMMA WholeImplies == WholeInv => NoLoss /\ BodyThere
<1> SUFFICES ASSUME WholeInv, running, NEW id \in DOMAIN index \ gone
             PROVE  /\ Alive(id) /\ LineAt(LastMessage(id)).seg = index[id].seg
                    /\ index[id].seg \in DOMAIN disk
                    /\ id \in disk[index[id].seg].bodies
  BY DEF NoLoss, BodyThere
<1>1. id \in DOMAIN index \ (gone \cup {})
  OBVIOUS
<1> QED
  BY <1>1, SafeIsThere DEF WholeInv

LEMMA CostsAreBounded == StoreInv => TornLineCostsTwo
<1> SUFFICES ASSUME StoreInv, running
             PROVE  Cardinality({id \in DOMAIN index \ gone :
                                     ~ Alive(id) /\ ~ Garbled(index[id].seg)}) <= 2 * crashes
  BY DEF TornLineCostsTwo
<1>1. PICK V, W : Kept(V \cup W) /\ Costs(V) /\ Spoilt(W)
  BY DEF StoreInv
<1>2. PICK L : L = {id \in DOMAIN index \ gone : ~ Alive(id) /\ ~ Garbled(index[id].seg)}
  OBVIOUS
<1>3. L \subseteq V
  <2> SUFFICES ASSUME NEW id \in DOMAIN index \ gone, ~ Alive(id), ~ Garbled(index[id].seg)
               PROVE  id \in V
    BY <1>2
  <2>1. id \notin W
    BY <1>1 DEF Spoilt
  <2>2. id \in V \cup W
    BY <1>1, SafeIsThere
  <2> QED
    BY <2>1, <2>2
<1>4. /\ IsFiniteSet(V) /\ Cardinality(V) \in Nat /\ crashes \in Nat
      /\ Cardinality(V) <= Cost
  BY <1>1, CostNat, FS_CardinalityType DEF Costs
<1>5. Cardinality(L) \in Nat /\ Cardinality(L) <= Cardinality(V)
  BY <1>3, <1>4, FS_Subset, FS_CardinalityType
<1>6. Cardinality(L) <= 2 * crashes
  BY <1>4, <1>5 DEF Cost
<1> QED
  BY <1>2, <1>6

(* The invariant the others follow from: whatever crashes come, between    *)
(* two writes or in the midst of one, all of what is kept is right of all  *)
(* messages but those that were cut off, and those in garbled segments.    *)
THEOREM StoreInvTheorem == Spec => []StoreInv
<1>1. StoreInv /\ [Next]_vars => StoreInv'
  BY NextKeeps
<1> QED
  BY <1>1, InitKeeps, PTL DEF Spec

(* A crash that cuts a line off costs two messages at most, outside the    *)
(* segments where it cut a character (append_meta, read_meta, open).       *)
THEOREM TornLineTheorem == Spec => []TornLineCostsTwo
BY StoreInvTheorem, CostsAreBounded, PTL

(* No message is lost, whenever the process ends, as long as it ends       *)
(* between two writes (append, enforce, delete, reclaim, open).            *)
THEOREM NoLossTheorem ==
    ASSUME Tears = {}
    PROVE  Spec => []NoLoss
<1>1. StoreInv => NoLoss
  BY StoreIsWhole, WholeImplies
<1> QED
  BY <1>1, StoreInvTheorem, PTL

(* No body is unlinked, and none looked for in the wrong segment, while    *)
(* its message is indexed (get, attachment, reclaim).                      *)
THEOREM BodyThereTheorem ==
    ASSUME Tears = {}
    PROVE  Spec => []BodyThere
<1>1. StoreInv => BodyThere
  BY StoreIsWhole, WholeImplies
<1> QED
  BY <1>1, StoreInvTheorem, PTL

-----------------------------------------------------------------------------
(* Types, whether or not lines are cut off.                                *)

TypedLine(b) == {line \in Lines : line.id <= b /\ (line.t = "m" => line.seg \in Nat)}

TypedSegment(b) ==
    {seg \in Segment : seg.lines \in Seq(TypedLine(b)) /\ (seg.tail = "unended" => seg.lines # <<>>)}

DiskTyped == \E b \in Nat : \A n \in DOMAIN disk : n \in Nat /\ n <= b /\ disk[n] \in TypedSegment(b)

OpTyped ==
    /\ op \in {"body", "meta"} => msg \in NewMessage
    /\ op = "meta" => cur # None
    /\ \A line \in todo : line.t = "m" => line.seg \in Nat

TypesInv == TypeOK /\ DiskTyped /\ OpTyped

LEMMA TypedSound ==
    ASSUME DiskTyped
    PROVE  Sound /\ \A p \in Places : LineAt(p).t = "m" => LineAt(p).seg \in Nat
<1>1. PICK b \in Nat : \A n \in DOMAIN disk : n \in Nat /\ n <= b /\ disk[n] \in TypedSegment(b)
  BY DEF DiskTyped
<1>2. ASSUME NEW p \in Places PROVE LineAt(p) \in TypedLine(b)
  <2>1. PICK n \in DOMAIN disk : p \in {n} \X DOMAIN disk[n].lines
    BY DEF Places
  <2>2. p[1] = n /\ p[2] \in DOMAIN disk[n].lines
    BY <2>1
  <2>3. disk[n].lines \in Seq(TypedLine(b))
    BY <1>1 DEF TypedSegment
  <2> QED
    BY <2>2, <2>3 DEF LineAt
<1>3. \A p \in Places : LineAt(p).id <= b /\ (LineAt(p).t = "m" => LineAt(p).seg \in Nat)
  BY <1>2 DEF TypedLine
<1>4. DOMAIN disk \subseteq Nat /\ \A n \in DOMAIN disk : disk[n] \in Segment /\ n <= b
  BY <1>1 DEF TypedSegment
<1> QED
  BY <1>3, <1>4 DEF Sound

LEMMA TypedMore ==
    ASSUME NEW b \in Nat, NEW c \in Nat, b <= c
    PROVE  TypedSegment(b) \subseteq TypedSegment(c)
<1>1. TypedLine(b) \subseteq TypedLine(c)
  BY DEF TypedLine, Lines
<1>2. ASSUME NEW s \in Seq(TypedLine(b)) PROVE s \in Seq(TypedLine(c))
  BY <1>1
<1> QED
  BY <1>2 DEF TypedSegment

LEMMA PutTyped ==
    ASSUME DiskTyped, NEW n \in Nat, NEW c \in Nat, NEW seg \in TypedSegment(c),
           disk' = PutSegment(n, seg)
    PROVE  /\ DiskTyped'
           /\ DOMAIN disk' = DOMAIN disk \cup {n}
           /\ DOMAIN disk' \subseteq Nat /\ \A m \in DOMAIN disk' : disk'[m] \in Segment
<1>1. PICK b \in Nat : \A m \in DOMAIN disk : m \in Nat /\ m <= b /\ disk[m] \in TypedSegment(b)
  BY DEF DiskTyped
<1>2. PICK d \in Nat : b <= d /\ c <= d /\ n <= d
  <2>1. b + c + n \in Nat /\ b <= b + c + n /\ c <= b + c + n /\ n <= b + c + n
    OBVIOUS
  <2> QED
    BY <2>1
<1>3. TypedSegment(b) \subseteq TypedSegment(d) /\ TypedSegment(c) \subseteq TypedSegment(d)
  BY <1>2, TypedMore
<1>4. /\ DOMAIN disk' = DOMAIN disk \cup {n}
      /\ \A m \in DOMAIN disk' : disk'[m] = IF m = n THEN seg ELSE disk[m]
  BY DEF PutSegment
<1>5. \A m \in DOMAIN disk' : m \in Nat /\ m <= d /\ disk'[m] \in TypedSegment(d)
  BY <1>1, <1>2, <1>3, <1>4
<1> QED
  BY <1>4, <1>5 DEF DiskTyped, TypedSegment

LEMMA SegmentTyped ==
    ASSUME DiskTyped, cur \in DOMAIN disk \cup {None}, NEW incoming
    PROVE  /\ SegmentFor(incoming) \in Nat
           /\ \E c \in Nat : Opened(incoming) \in TypedSegment(c)
<1>1. PICK b \in Nat : \A n \in DOMAIN disk : n \in Nat /\ n <= b /\ disk[n] \in TypedSegment(b)
  BY DEF DiskTyped
<1>2. DOMAIN disk # {} => LastSegment \in DOMAIN disk
  <2>1. DOMAIN disk \in SUBSET Nat /\ \A n \in DOMAIN disk : n <= b
    BY <1>1
  <2> QED
    BY <2>1, MaxFact DEF LastSegment
<1> HIDE DEF LastSegment
<1>3. SegmentFor(incoming) \in Nat
  <2>1. CASE ~ NeedRoll(incoming)
    BY <1>1, <2>1 DEF SegmentFor, NeedRoll
  <2>2. CASE NeedRoll(incoming) /\ DOMAIN disk = {}
    BY <2>2 DEF SegmentFor
  <2>3. CASE NeedRoll(incoming) /\ DOMAIN disk # {}
    <3>1. SegmentFor(incoming) \in {LastSegment, LastSegment + 1}
      BY <2>3 DEF SegmentFor
    <3>2. LastSegment \in Nat
      BY <1>1, <1>2, <2>3
    <3> QED
      BY <3>1, <3>2
  <2> QED
    BY <2>1, <2>2, <2>3
<1>4. EmptySeg \in TypedSegment(b)
  <2>1. EmptySeg.lines \in Seq(TypedLine(b)) /\ EmptySeg.tail = "ended"
    BY DEF EmptySeg
  <2>2. EmptySeg \in Segment
    BY DEF EmptySeg, Segment, Tails
  <2> QED
    BY <2>1, <2>2 DEF TypedSegment
<1>5. Opened(incoming) \in TypedSegment(b)
  BY <1>1, <1>4 DEF Opened
<1> QED
  BY <1>3, <1>5

LEMMA WrittenTyped ==
    ASSUME NEW b \in Nat, NEW seg \in TypedSegment(b), NEW line \in Lines,
           line.t = "m" => line.seg \in Nat
    PROVE  \E c \in Nat : Written(seg, line) \in TypedSegment(c)
<1>1. PICK c \in Nat : b <= c /\ line.id <= c
  <2>1. line.id \in Nat
    BY DEF Lines
  <2>2. b + line.id \in Nat /\ b <= b + line.id /\ line.id <= b + line.id
    BY <2>1
  <2> QED
    BY <2>2
<1>2. line \in TypedLine(c)
  BY <1>1 DEF TypedLine
<1>3. seg \in TypedSegment(c)
  BY <1>1, TypedMore
<1>4. seg.lines \in Seq(TypedLine(c)) /\ seg.tail \in Tails /\ (seg.tail = "unended" => seg.lines # <<>>)
  BY <1>3 DEF TypedSegment, Segment
<1> DEFINE lines == CASE seg.tail = "ended"   -> Append(seg.lines, line)
                      [] seg.tail = "unended" -> Front(seg.lines)
                      [] seg.tail \in {"cut", "garbled"} -> seg.lines
           tail == IF seg.tail = "garbled" THEN "garbled" ELSE "ended"
<1>5. lines \in Seq(TypedLine(c))
  <2>1. CASE seg.tail = "ended"
    BY <1>2, <1>4, <2>1
  <2>2. CASE seg.tail \in {"cut", "garbled"}
    BY <1>4, <2>2
  <2>3. CASE seg.tail = "unended"
    <3>1. Len(seg.lines) \in Nat \ {0}
      BY <1>4, <2>3
    <3>2. SubSeq(seg.lines, 1, Len(seg.lines) - 1) \in Seq(TypedLine(c))
      BY <1>4, <3>1
    <3> QED
      BY <2>3, <3>2 DEF Front
  <2> QED
    BY <1>4, <2>1, <2>2, <2>3 DEF Tails
<1>6. Written(seg, line) = [seg EXCEPT !.tail = tail, !.lines = lines]
  <2>1. PICK ls : ls = lines
    OBVIOUS
  <2>2. Written(seg, line) = [seg EXCEPT !.tail = tail, !.lines = ls]
    BY <1>3, <2>1 DEF Written, TypedSegment, Segment
  <2> QED
    BY <2>1, <2>2
<1>10. tail \in {"ended", "garbled"}
  OBVIOUS
<1> HIDE DEF lines, tail
<1>7. lines \in Seq(Lines)
  <2>1. TypedLine(c) \subseteq Lines
    BY DEF TypedLine
  <2> QED
    BY <1>5, <2>1
<1>8. Written(seg, line) = [lines |-> lines, tail |-> tail, used |-> seg.used, bodies |-> seg.bodies]
  BY <1>3, <1>6 DEF TypedSegment, Segment
<1>9. Written(seg, line) \in TypedSegment(c)
  BY <1>3, <1>5, <1>7, <1>8, <1>10 DEF TypedSegment, Segment, Tails
<1> QED
  BY <1>9

LEMMA TornOffTyped ==
    ASSUME NEW b \in Nat, NEW seg \in TypedSegment(b), NEW tail \in Tears,
           NEW line \in Lines, line.t = "m" => line.seg \in Nat
    PROVE  \E c \in Nat : TornOff(seg, line, tail) \in TypedSegment(c)
<1>1. tail \in Tails /\ tail # "ended"
  BY StoreAssumption DEF Tails
<1>2. CASE seg.tail # "ended"
  <2>1. PICK c \in Nat : Written(seg, line) \in TypedSegment(c)
    BY WrittenTyped
  <2>2. PICK glued : glued = Written(seg, line)
    OBVIOUS
  <2>3. PICK t \in {"cut", "garbled"} : TornOff(seg, line, tail) = [glued EXCEPT !.tail = t]
    BY <1>2, <2>2 DEF TornOff
  <2>4. [glued EXCEPT !.tail = t] \in TypedSegment(c)
    BY <2>1, <2>2 DEF TypedSegment, Segment, Tails
  <2> QED
    BY <2>3, <2>4
<1>3. CASE seg.tail = "ended"
  <2>1. PICK c \in Nat : b <= c /\ line.id <= c
    <3>1. line.id \in Nat
      BY DEF Lines
    <3>2. b + line.id \in Nat /\ b <= b + line.id /\ line.id <= b + line.id
      BY <3>1
    <3> QED
      BY <3>2
  <2>2. seg \in TypedSegment(c) /\ line \in TypedLine(c)
    BY <2>1, TypedMore DEF TypedLine
  <2>3. PICK lines : lines = IF tail = "unended" THEN Append(seg.lines, line) ELSE seg.lines
    OBVIOUS
  <2>4. /\ lines \in Seq(TypedLine(c)) /\ lines \in Seq(Lines)
        /\ tail = "unended" => lines # <<>>
    BY <2>2, <2>3 DEF TypedSegment, Segment
  <2>5. TornOff(seg, line, tail) = [seg EXCEPT !.tail = tail, !.lines = lines]
    BY <1>3, <2>2, <2>3 DEF TornOff, TypedSegment, Segment
  <2>6. [seg EXCEPT !.tail = tail, !.lines = lines] \in TypedSegment(c)
    BY <1>1, <2>2, <2>4 DEF TypedSegment, Segment
  <2> QED
    BY <2>5, <2>6
<1> QED
  BY <1>2, <1>3

LEMMA EnforceTyped ==
    ASSUME NEW ix, NEW max, NEW next \in Nat \ {0}, Enforce(ix, max, next),
           \A id \in DOMAIN ix : id \in Nat /\ ix[id] \in Entry
    PROVE  /\ DOMAIN index' \subseteq Nat /\ \A id \in DOMAIN index' : index'[id] \in Entry
           /\ op' \in {"idle", "lines"} /\ sweep' \in BOOLEAN
           /\ \A line \in todo' : line \in Lines /\ line.t = "f"
           /\ \E out \in SUBSET Nat : gone' = gone \cup out
<1>1. PICK kept \in Enforced(ix, max) :
          /\ index' = kept
          /\ gone' = gone \cup (DOMAIN ix \ DOMAIN kept)
          /\ IF kept = ix
             THEN op' = "idle" /\ todo' = {} /\ sweep' = FALSE
             ELSE op' = "lines" /\ todo' = {FloorLine(FloorOf(kept, next))} /\ sweep' = TRUE
  BY DEF Enforce
<1>2. DOMAIN kept \subseteq DOMAIN ix /\ \A id \in DOMAIN kept : kept[id] = ix[id]
  <2>1. PICK from : kept = Newest(ix, from)
    BY DEF Enforced
  <2> QED
    BY <2>1 DEF Newest
<1>3. PICK floor : floor = FloorOf(kept, next)
  OBVIOUS
<1>4. floor \in Nat
  <2>1. DOMAIN kept \in SUBSET Nat
    BY <1>2
  <2>2. DOMAIN kept # {} => Min(DOMAIN kept) \in DOMAIN kept
    BY <2>1, MinFact
  <2> QED
    BY <1>3, <2>1, <2>2 DEF FloorOf
<1>5. FloorLine(floor) \in Lines /\ FloorLine(floor).t = "f"
  BY <1>4 DEF FloorLine, Lines
<1> QED
  BY <1>1, <1>2, <1>3, <1>5

LEMMA EditTypes ==
    ASSUME TypesInv, Edit
    PROVE  /\ edits' \in 0 .. MaxEdits /\ crashes' \in 0 .. MaxCrashes
           /\ disk' = disk /\ running' \in BOOLEAN /\ cur' = cur /\ records' \in Nat
           /\ nextId' = nextId /\ nextId \in Nat \ {0} /\ msg' = msg
BY StoreAssumption DEF TypesInv, TypeOK, Edit, Ready

LEMMA InitTypes ==
    ASSUME Init
    PROVE  TypesInv
<1>1. TypeOK
  <2>1. DOMAIN disk = {} /\ DOMAIN index = {}
    BY DEF Init
  <2>2. /\ edits \in 0 .. MaxEdits /\ crashes \in 0 .. MaxCrashes
        /\ records \in Nat /\ nextId \in Nat \ {0}
    BY StoreAssumption DEF Init
  <2> QED
    BY <2>1, <2>2 DEF Init, TypeOK
<1>2. DiskTyped /\ OpTyped
  BY DEF Init, DiskTyped, OpTyped
<1> QED
  BY <1>1, <1>2 DEF TypesInv

LEMMA SameTypes ==
    ASSUME TypesInv, disk' = disk, cur' = cur
    PROVE  /\ DiskTyped'
           /\ DOMAIN disk' \subseteq Nat /\ \A n \in DOMAIN disk' : disk'[n] \in Segment
           /\ cur' \in DOMAIN disk' \cup {None}
BY DEF TypesInv, TypeOK, DiskTyped

LEMMA TakeIdTypes ==
    ASSUME TypesInv, NEW size \in Sizes, NEW group \in NewGroups, TakeId(size, group)
    PROVE  TypesInv'
<1>1. disk' = disk /\ cur' = cur /\ op' = "body" /\ todo' = todo /\ nextId' = nextId + 1
  BY DEF TakeId
<1>2. nextId \in Nat \ {0}
  BY DEF TypesInv, TypeOK
<1>3. msg' \in NewMessage
  BY <1>2, StoreAssumption DEF TakeId, NewMessage
<1>4. TypeOK'
  BY <1>1, <1>2, <1>3, SameTypes DEF TakeId, TypesInv, TypeOK, history, NewMessage
<1>5. OpTyped'
  BY <1>1, <1>3 DEF OpTyped, TypesInv
<1> QED
  BY <1>1, <1>4, <1>5, SameTypes DEF TypesInv

LEMMA WriteBodyTypes ==
    ASSUME TypesInv, WriteBody
    PROVE  TypesInv'
<1>1. PICK incoming : incoming = msg.att + Reserve
  OBVIOUS
<1>2. PICK n : n = SegmentFor(incoming)
  OBVIOUS
<1>3. PICK old : old = Opened(incoming)
  OBVIOUS
<1>4. PICK seg : seg = [old EXCEPT !.used = @ + msg.body, !.bodies = @ \cup {msg.id}]
  OBVIOUS
<1>5. /\ op = "body" /\ op' = "meta" /\ disk' = PutSegment(n, seg) /\ cur' = n
      /\ records' = RecordsIn(incoming) /\ msg' = msg /\ todo' = todo
  BY <1>1, <1>2, <1>3, <1>4 DEF WriteBody
<1>6. msg \in NewMessage
  BY <1>5 DEF TypesInv, OpTyped
<1>7. n \in Nat /\ \E c \in Nat : old \in TypedSegment(c)
  BY <1>2, <1>3, SegmentTyped DEF TypesInv, TypeOK
<1>8. PICK c \in Nat : old \in TypedSegment(c)
  BY <1>7
<1>9. seg \in TypedSegment(c)
  <2>1. PICK u : u = old.used + msg.body
    OBVIOUS
  <2>2. PICK b : b = old.bodies \cup {msg.id}
    OBVIOUS
  <2>3. /\ u \in Nat /\ b \in SUBSET Nat /\ old.lines \in Seq(Lines) /\ old.tail \in Tails
        /\ old.lines \in Seq(TypedLine(c)) /\ (old.tail = "unended" => old.lines # <<>>)
    BY <1>6, <1>8, <2>1, <2>2 DEF NewMessage, TypedSegment, Segment
  <2>4. seg = [lines |-> old.lines, tail |-> old.tail, used |-> u, bodies |-> b]
    BY <1>4, <1>8, <2>1, <2>2 DEF TypedSegment, Segment
  <2>5. seg \in Segment /\ seg.lines = old.lines /\ seg.tail = old.tail
    BY <2>3, <2>4 DEF Segment
  <2> QED
    BY <2>3, <2>5 DEF TypedSegment
<1>10. /\ DiskTyped'
       /\ DOMAIN disk' = DOMAIN disk \cup {n}
       /\ DOMAIN disk' \subseteq Nat /\ \A m \in DOMAIN disk' : disk'[m] \in Segment
  BY <1>5, <1>7, <1>9, PutTyped DEF TypesInv
<1>11. TypeOK'
  <2>1. records' \in Nat
    BY <1>5 DEF RecordsIn, TypesInv, TypeOK
  <2> QED
    BY <1>5, <1>10, <2>1 DEF WriteBody, TypesInv, TypeOK, history
<1>12. OpTyped'
  <2>1. n # None
    BY <1>7, StoreAssumption
  <2> QED
    BY <1>5, <1>6, <2>1 DEF OpTyped, TypesInv
<1> QED
  BY <1>10, <1>11, <1>12 DEF TypesInv

LEMMA WriteMetaTypes ==
    ASSUME TypesInv, WriteMeta
    PROVE  TypesInv'
<1>1. PICK line : line = MsgLine(msg.id, msg.group, cur)
  OBVIOUS
<1>2. PICK ix : ix = [id \in DOMAIN index \cup {msg.id} |->
                    IF id = msg.id THEN [seg |-> cur, group |-> msg.group] ELSE index[id]]
  OBVIOUS
<1>3. PICK seg : seg = Written(disk[cur], line)
  OBVIOUS
<1>4. /\ op = "meta" /\ disk' = PutSegment(cur, seg) /\ cur' = cur /\ msg' = None
      /\ Enforce(ix, maxEntries, nextId) /\ nextId' = nextId
  BY <1>1, <1>2, <1>3 DEF WriteMeta
<1>5. msg \in NewMessage /\ cur # None
  BY <1>4 DEF TypesInv, OpTyped
<1>6. cur \in DOMAIN disk /\ cur \in Nat /\ nextId \in Nat \ {0}
  BY <1>5 DEF TypesInv, TypeOK
<1>7. line \in Lines /\ line.seg \in Nat
  BY <1>1, <1>5, <1>6 DEF MsgLine, Lines, NewMessage
<1>8. PICK b \in Nat : disk[cur] \in TypedSegment(b)
  BY <1>6 DEF TypesInv, DiskTyped
<1>9. PICK c \in Nat : seg \in TypedSegment(c)
  BY <1>3, <1>7, <1>8, WrittenTyped
<1>10. /\ DiskTyped'
       /\ DOMAIN disk' = DOMAIN disk \cup {cur}
       /\ DOMAIN disk' \subseteq Nat /\ \A m \in DOMAIN disk' : disk'[m] \in Segment
  BY <1>4, <1>6, <1>9, PutTyped DEF TypesInv
<1>11. \A id \in DOMAIN ix : id \in Nat /\ ix[id] \in Entry
  BY <1>2, <1>5, <1>6 DEF NewMessage, Entry, TypesInv, TypeOK
<1>12. /\ DOMAIN index' \subseteq Nat /\ \A id \in DOMAIN index' : index'[id] \in Entry
       /\ op' \in {"idle", "lines"} /\ sweep' \in BOOLEAN
       /\ \A l \in todo' : l \in Lines /\ l.t = "f"
       /\ \E out \in SUBSET Nat : gone' = gone \cup out
  BY <1>4, <1>6, <1>11, EnforceTyped
<1>13. TypeOK'
  BY <1>4, <1>6, <1>10, <1>12 DEF WriteMeta, TypesInv, TypeOK
<1>14. OpTyped'
  BY <1>12 DEF OpTyped
<1> QED
  BY <1>10, <1>13, <1>14 DEF TypesInv

LEMMA DeleteTypes ==
    ASSUME TypesInv, NEW ids \in SUBSET Ids, Delete(ids)
    PROVE  TypesInv'
<1>1. /\ edits' \in 0 .. MaxEdits /\ crashes' \in 0 .. MaxCrashes
      /\ disk' = disk /\ running' \in BOOLEAN /\ cur' = cur /\ records' \in Nat
      /\ nextId' = nextId /\ nextId \in Nat \ {0} /\ msg' = msg
  BY EditTypes DEF Delete
<1>2. \A line \in todo' : line \in Lines /\ line.t = "d"
  <2> SUFFICES ASSUME NEW line \in todo' PROVE line \in Lines /\ line.t = "d"
    OBVIOUS
  <2>1. PICK id \in ids : line = DelLine(id)
    BY DEF Delete
  <2>2. id \in Nat
    BY StoreAssumption DEF Ids
  <2> QED
    BY <2>1, <2>2 DEF DelLine, Lines
<1>3. TypeOK'
  BY <1>1, <1>2, SameTypes DEF Delete, TypesInv, TypeOK
<1>4. OpTyped'
  BY <1>2 DEF Delete, OpTyped
<1> QED
  BY <1>1, <1>3, <1>4, SameTypes DEF TypesInv

LEMMA ClearTypes ==
    ASSUME TypesInv, Clear
    PROVE  TypesInv'
<1>1. /\ edits' \in 0 .. MaxEdits /\ crashes' \in 0 .. MaxCrashes
      /\ disk' = disk /\ running' \in BOOLEAN /\ cur' = cur /\ records' \in Nat
      /\ nextId' = nextId /\ nextId \in Nat \ {0} /\ msg' = msg
  BY EditTypes DEF Clear
<1>2. \A line \in todo' : line \in Lines /\ line.t = "f"
  BY <1>1 DEF Clear, FloorLine, Lines
<1>3. DOMAIN index' = {}
  BY DEF Clear
<1>4. TypeOK'
  BY <1>1, <1>2, <1>3, SameTypes DEF Clear, TypesInv, TypeOK
<1>5. OpTyped'
  BY <1>2 DEF Clear, OpTyped
<1> QED
  BY <1>1, <1>4, <1>5, SameTypes DEF TypesInv

LEMMA SetGroupTypes ==
    ASSUME TypesInv, NEW id \in Ids, NEW group \in Groups \cup {None}, SetGroup(id, group)
    PROVE  TypesInv'
<1>1. /\ edits' \in 0 .. MaxEdits /\ crashes' \in 0 .. MaxCrashes
      /\ disk' = disk /\ running' \in BOOLEAN /\ cur' = cur /\ records' \in Nat
      /\ nextId' = nextId /\ nextId \in Nat \ {0} /\ msg' = msg
  BY EditTypes DEF SetGroup
<1>2. id \in DOMAIN index /\ id \in Nat /\ index[id] \in Entry /\ index[id].seg \in Nat
  BY DEF SetGroup, TypesInv, TypeOK, Entry
<1>3. \A line \in todo' : line \in Lines /\ line.seg \in Nat
  BY <1>2 DEF SetGroup, MsgLine, Lines
<1>4. DOMAIN index' = DOMAIN index /\ \A i \in DOMAIN index' : index'[i] \in Entry
  <2>1. /\ DOMAIN index' = DOMAIN index /\ index'[id] = [index[id] EXCEPT !.group = group]
        /\ \A i \in DOMAIN index : i # id => index'[i] = index[i]
    BY <1>2 DEF SetGroup
  <2>2. index'[id] \in Entry
    BY <1>2, <2>1 DEF Entry
  <2> QED
    BY <2>1, <2>2 DEF TypesInv, TypeOK
<1>5. TypeOK'
  BY <1>1, <1>3, <1>4, SameTypes DEF SetGroup, TypesInv, TypeOK
<1>6. OpTyped'
  BY <1>3 DEF SetGroup, OpTyped
<1> QED
  BY <1>1, <1>5, <1>6, SameTypes DEF TypesInv

LEMMA SetRetentionTypes ==
    ASSUME TypesInv, NEW max \in Entries, SetRetention(max)
    PROVE  TypesInv'
<1>1. /\ edits' \in 0 .. MaxEdits /\ crashes' \in 0 .. MaxCrashes
      /\ disk' = disk /\ running' \in BOOLEAN /\ cur' = cur /\ records' \in Nat
      /\ nextId' = nextId /\ nextId \in Nat \ {0} /\ msg' = msg
  BY EditTypes DEF SetRetention
<1>2. /\ DOMAIN index' \subseteq Nat /\ \A id \in DOMAIN index' : index'[id] \in Entry
      /\ op' \in {"idle", "lines"} /\ sweep' \in BOOLEAN
      /\ \A l \in todo' : l \in Lines /\ l.t = "f"
      /\ \E out \in SUBSET Nat : gone' = gone \cup out
  <2>1. Enforce(index, max, nextId) /\ \A id \in DOMAIN index : id \in Nat /\ index[id] \in Entry
    BY DEF SetRetention, TypesInv, TypeOK
  <2> QED
    BY <1>1, <2>1, EnforceTyped
<1>3. TypeOK'
  BY <1>1, <1>2, SameTypes DEF SetRetention, TypesInv, TypeOK
<1>4. OpTyped'
  BY <1>2 DEF OpTyped
<1> QED
  BY <1>1, <1>3, <1>4, SameTypes DEF TypesInv

LEMMA WriteLineTypes ==
    ASSUME TypesInv, WriteLine
    PROVE  TypesInv'
<1>1. PICK n : n = SegmentFor(0)
  OBVIOUS
<1>2. PICK old : old = Opened(0)
  OBVIOUS
<1>3. PICK line \in todo :
          /\ disk' = PutSegment(n, Written(old, line))
          /\ todo' = todo \ {line}
          /\ op' = IF todo # {line} THEN "lines" ELSE IF sweep THEN "reclaim" ELSE "idle"
  BY <1>1, <1>2 DEF WriteLine
<1>4. n \in Nat /\ \E c \in Nat : old \in TypedSegment(c)
  BY <1>1, <1>2, SegmentTyped DEF TypesInv, TypeOK
<1>5. line \in Lines /\ (line.t = "m" => line.seg \in Nat)
  BY <1>3 DEF TypesInv, TypeOK, OpTyped
<1>6. PICK seg : seg = Written(old, line)
  OBVIOUS
<1>7. \E c \in Nat : seg \in TypedSegment(c)
  BY <1>4, <1>5, <1>6, WrittenTyped
<1>8. /\ DiskTyped'
      /\ DOMAIN disk' = DOMAIN disk \cup {n}
      /\ DOMAIN disk' \subseteq Nat /\ \A m \in DOMAIN disk' : disk'[m] \in Segment
  BY <1>3, <1>4, <1>6, <1>7, PutTyped DEF TypesInv
<1>9. TypeOK'
  <2>1. records' \in Nat
    BY DEF WriteLine, RecordsIn, TypesInv, TypeOK
  <2>2. cur' = n
    BY <1>1 DEF WriteLine
  <2> QED
    BY <1>3, <1>8, <2>1, <2>2 DEF WriteLine, TypesInv, TypeOK, history
<1>10. OpTyped'
  BY <1>3 DEF OpTyped, TypesInv
<1> QED
  BY <1>8, <1>9, <1>10 DEF TypesInv

LEMMA DropSegmentTypes ==
    ASSUME TypesInv, DropSegment
    PROVE  TypesInv'
<1>1. PICK n : n = Min(Orphans)
  OBVIOUS
<1>2. /\ op = "reclaim" /\ Orphans # {} /\ disk' = [m \in DOMAIN disk \ {n} |-> disk[m]]
      /\ UNCHANGED <<running, memory, request, history>>
  BY <1>1 DEF DropSegment
<1>3. n # cur
  <2>1. Orphans \in SUBSET Nat
    BY DEF Orphans, TypesInv, TypeOK
  <2>2. n \in Orphans
    BY <1>1, <1>2, <2>1, MinFact
  <2> QED
    BY <2>2 DEF Orphans
<1>4. DOMAIN disk' = DOMAIN disk \ {n} /\ \A m \in DOMAIN disk' : disk'[m] = disk[m]
  BY <1>2
<1>5. DiskTyped'
  BY <1>4 DEF TypesInv, DiskTyped
<1>6. TypeOK'
  BY <1>2, <1>3, <1>4 DEF TypesInv, TypeOK, memory, request, history
<1>7. OpTyped'
  BY <1>2 DEF OpTyped, TypesInv, memory, request, history
<1> QED
  BY <1>5, <1>6, <1>7 DEF TypesInv

LEMMA EndReclaimTypes ==
    ASSUME TypesInv, EndReclaim
    PROVE  TypesInv'
<1>1. TypeOK'
  BY DEF EndReclaim, TypesInv, TypeOK, memory, request, history
<1>2. OpTyped'
  BY DEF EndReclaim, TypesInv, OpTyped
<1>3. disk' = disk /\ cur' = cur
  BY DEF EndReclaim, memory
<1> QED
  BY <1>1, <1>2, <1>3, SameTypes DEF TypesInv

(* A line that is cut off leaves a segment, too.                           *)
LEMMA CrashTypes ==
    ASSUME TypesInv, Crash
    PROVE  TypesInv'
<1>1. /\ disk' = disk \/ RolledOnly \/ \E line \in Writing : Torn(line)
      /\ running' = FALSE /\ cur' = None /\ records' = 0 /\ index' = <<>> /\ nextId' = 1
      /\ op' = "idle" /\ msg' = None /\ todo' = {} /\ sweep' = FALSE
      /\ crashes < MaxCrashes /\ crashes' = crashes + 1
      /\ UNCHANGED <<maxEntries, gone, byHand, edits>>
  BY DEF Crash
<1>2. DiskTyped' /\ DOMAIN disk' \subseteq Nat /\ \A m \in DOMAIN disk' : disk'[m] \in Segment
  <2>1. CASE disk' = disk
    BY <2>1 DEF TypesInv, TypeOK, DiskTyped
  <2>2. CASE RolledOnly
    <3>1. PICK incoming : disk' = PutSegment(SegmentFor(incoming), Opened(incoming))
      BY <2>2 DEF RolledOnly
    <3>2. PICK n : n = SegmentFor(incoming)
      OBVIOUS
    <3>3. PICK seg : seg = Opened(incoming)
      OBVIOUS
    <3>4. n \in Nat /\ \E c \in Nat : seg \in TypedSegment(c)
      BY <3>2, <3>3, SegmentTyped DEF TypesInv, TypeOK
    <3> QED
      BY <3>1, <3>2, <3>3, <3>4, PutTyped DEF TypesInv
  <2>3. CASE \E line \in Writing : Torn(line)
    <3>1. PICK line \in Writing : Torn(line)
      BY <2>3
    <3>2. PICK n : n = IF op = "meta" THEN cur ELSE SegmentFor(0)
      OBVIOUS
    <3>3. PICK old : old = IF n \in DOMAIN disk THEN disk[n] ELSE EmptySeg
      OBVIOUS
    <3>4. PICK tail \in Tears : disk' = PutSegment(n, TornOff(old, line, tail))
      BY <3>1, <3>2, <3>3 DEF Torn
    <3>5. n \in Nat
      <4>1. CASE op = "meta"
        BY <3>2, <4>1 DEF TypesInv, TypeOK, OpTyped
      <4>2. CASE op # "meta"
        BY <3>2, <4>2, SegmentTyped DEF TypesInv, TypeOK
      <4> QED
        BY <4>1, <4>2
    <3>6. line \in Lines /\ (line.t = "m" => line.seg \in Nat)
      <4>1. CASE op = "meta"
        <5>1. line = MsgLine(msg.id, msg.group, cur)
          BY <3>1, <4>1 DEF Writing
        <5>2. msg \in NewMessage /\ cur \in Nat
          BY <4>1 DEF TypesInv, TypeOK, OpTyped
        <5> QED
          BY <5>1, <5>2 DEF MsgLine, Lines, NewMessage
      <4>2. CASE op = "lines"
        <5>1. line \in todo
          BY <3>1, <4>2 DEF Writing
        <5> QED
          BY <5>1 DEF TypesInv, TypeOK, OpTyped
      <4>3. CASE op \notin {"meta", "lines"}
        BY <3>1, <4>3 DEF Writing
      <4> QED
        BY <4>1, <4>2, <4>3
    <3>7. PICK b \in Nat : old \in TypedSegment(b)
      <4>1. PICK b \in Nat : \A m \in DOMAIN disk : disk[m] \in TypedSegment(b)
        BY DEF TypesInv, DiskTyped
      <4>2. EmptySeg \in TypedSegment(b)
        <5>1. EmptySeg.lines \in Seq(TypedLine(b)) /\ EmptySeg.tail = "ended"
          BY DEF EmptySeg
        <5>2. EmptySeg \in Segment
          BY DEF EmptySeg, Segment, Tails
        <5> QED
          BY <5>1, <5>2 DEF TypedSegment
      <4> QED
        BY <3>3, <4>1, <4>2
    <3>8. PICK seg : seg = TornOff(old, line, tail)
      OBVIOUS
    <3>9. \E d \in Nat : seg \in TypedSegment(d)
      BY <3>6, <3>7, <3>8, TornOffTyped
    <3> QED
      BY <3>4, <3>5, <3>8, <3>9, PutTyped DEF TypesInv
  <2> QED
    BY <1>1, <2>1, <2>2, <2>3
<1>3. TypeOK'
  <2>1. DOMAIN index' = {}
    BY <1>1
  <2>2. crashes' \in 0 .. MaxCrashes
    BY <1>1, StoreAssumption DEF TypesInv, TypeOK
  <2>3. /\ cur' = None /\ records' \in Nat /\ nextId' \in Nat \ {0}
        /\ op' = "idle" /\ msg' = None /\ todo' = {}
    BY <1>1
  <2>4. running' \in BOOLEAN /\ sweep' \in BOOLEAN
    BY <1>1, Zenon
  <2>5. /\ maxEntries' = maxEntries /\ gone' = gone /\ byHand' = byHand /\ edits' = edits
    BY <1>1
  <2>6. /\ maxEntries' \in Entries /\ gone' \subseteq Nat /\ byHand' \subseteq gone'
        /\ edits' \in 0 .. MaxEdits
    BY <2>5 DEF TypesInv, TypeOK
  <2> QED
    BY <1>2, <2>1, <2>2, <2>3, <2>4, <2>6 DEF TypeOK
<1>4. OpTyped'
  BY <1>1 DEF OpTyped
<1> QED
  BY <1>2, <1>3, <1>4 DEF TypesInv

LEMMA OpenTypes ==
    ASSUME TypesInv, NEW max \in Entries, Open(max)
    PROVE  TypesInv'
<1>1. PICK ix : ix = Replay
  OBVIOUS
<1>2. PICK next : next = NextIdOf(Seen)
  OBVIOUS
<1>3. /\ nextId' = next /\ Enforce(ix, max, next) /\ running' = TRUE /\ maxEntries' = max
      /\ UNCHANGED <<disk, cur, records, msg, byHand, edits, crashes>>
  BY <1>1, <1>2 DEF Open
<1>4. Sound /\ \A p \in Places : LineAt(p).t = "m" => LineAt(p).seg \in Nat
  BY TypedSound DEF TypesInv
<1>5. next \in Nat \ {0}
  <2>1. next \in Nat /\ \A id \in Seen : id \in Nat /\ id < next
    BY <1>2, <1>4, NextIdFact
  <2>2. Seen = {} => next = 1
    BY <1>2 DEF NextIdOf
  <2> QED
    BY <2>1, <2>2
<1>6. \A id \in DOMAIN ix : id \in Nat /\ ix[id] \in Entry
  <2>1. /\ DOMAIN ix = Live
        /\ \A id \in Live : ix[id] = [seg   |-> LineAt(LastMessage(id)).seg,
                                      group |-> LineAt(LastMessage(id)).group]
    BY <1>1 DEF Replay
  <2> SUFFICES ASSUME NEW id \in Live PROVE id \in Nat /\ ix[id] \in Entry
    BY <2>1
  <2>2. Messages(id) # {}
    BY DEF Live, Alive
  <2>3. LastMessage(id) \in Messages(id)
    BY <1>4, <2>2, LastIsThere
  <2>4. PICK p : p = LastMessage(id)
    OBVIOUS
  <2>5. p \in Places /\ LineAt(p).t = "m" /\ LineAt(p).id = id
    BY <2>3, <2>4 DEF Messages
  <2>6. LineAt(p) \in Lines /\ LineAt(p).seg \in Nat
    BY <1>4, <2>5, LinesAre
  <2> QED
    BY <2>1, <2>4, <2>5, <2>6 DEF Lines, Entry
<1>7. /\ DOMAIN index' \subseteq Nat /\ \A id \in DOMAIN index' : index'[id] \in Entry
      /\ op' \in {"idle", "lines"} /\ sweep' \in BOOLEAN
      /\ \A l \in todo' : l \in Lines /\ l.t = "f"
      /\ \E out \in SUBSET Nat : gone' = gone \cup out
  BY <1>3, <1>5, <1>6, EnforceTyped
<1>8. TypeOK'
  BY <1>3, <1>5, <1>7, SameTypes DEF TypesInv, TypeOK
<1>9. OpTyped'
  BY <1>7 DEF OpTyped
<1> QED
  BY <1>3, <1>8, <1>9, SameTypes DEF TypesInv

LEMMA NextTypes ==
    ASSUME TypesInv, [Next]_vars
    PROVE  TypesInv'
<1>1. CASE \E size \in Sizes, group \in NewGroups : TakeId(size, group)
  BY <1>1, TakeIdTypes
<1>2. CASE \E ids \in SUBSET Ids : Delete(ids)
  BY <1>2, DeleteTypes
<1>3. CASE Clear
  BY <1>3, ClearTypes
<1>4. CASE \E id \in Ids, group \in Groups \cup {None} : SetGroup(id, group)
  BY <1>4, SetGroupTypes
<1>5. CASE \E max \in Entries : SetRetention(max)
  BY <1>5, SetRetentionTypes
<1>6. CASE WriteBody
  BY <1>6, WriteBodyTypes
<1>7. CASE WriteMeta
  BY <1>7, WriteMetaTypes
<1>8. CASE WriteLine
  BY <1>8, WriteLineTypes
<1>9. CASE DropSegment
  BY <1>9, DropSegmentTypes
<1>10. CASE EndReclaim
  BY <1>10, EndReclaimTypes
<1>11. CASE Crash
  BY <1>11, CrashTypes
<1>12. CASE \E max \in Entries : Open(max)
  BY <1>12, OpenTypes
<1>13. CASE UNCHANGED vars
  BY <1>13 DEF TypesInv, TypeOK, DiskTyped, OpTyped, vars, memory, request, history
<1> QED
  BY <1>1, <1>2, <1>3, <1>4, <1>5, <1>6, <1>7, <1>8, <1>9, <1>10, <1>11, <1>12, <1>13
     DEF Next, Work

(* Every state the store reaches, torn or not, is one of the right type.   *)
THEOREM TypesCorrect == Spec => []TypeOK
<1>1. Init => TypesInv
  BY InitTypes
<1>2. TypesInv /\ [Next]_vars => TypesInv'
  BY NextTypes
<1>3. TypesInv => TypeOK
  BY DEF TypesInv
<1> QED
  BY <1>1, <1>2, <1>3, PTL DEF Spec

-----------------------------------------------------------------------------
(* As long as nobody deletes by hand and no line is cut off, an eviction   *)
(* is final and no id is given out twice.                                  *)
(*                                                                         *)
(* Without deletions what is live is what the highest floor leaves         *)
(* (Stays).  The highest floor never gets lost: reclaim is always preceded *)
(* by a floor, at least as high as those before it, in the segment that    *)
(* reclaim does not touch (OpEvict).                                       *)

Stays(id) == Messages(id) # {} /\ \A f \in Floors : f <= id

HomeAt(id, h) ==
    /\ \A p \in Messages(id) : LineAt(p).seg = h
    /\ \E p \in Messages(id) : p[1] = h

(* What was taken out has still a line, or a floor above it.               *)
Remembered(g) == g \in Nat /\ (Messages(g) # {} \/ \E f \in Floors : g < f)

LinesEvict ==
    /\ \A p \in Places : LineAt(p).t # "d"
    /\ \A id \in Nat : Stays(id) => \E h \in Nat : HomeAt(id, h)
    /\ \A g \in gone : Remembered(g)

(* The index is what is kept, and will be by the floor still to come.      *)
MemEvict ==
    running =>
        /\ \A g \in gone : g < nextId
        /\ \A id \in Nat :
              id \in DOMAIN index <=> Stays(id) /\ \A line \in todo : line.t = "f" => line.id <= id
        /\ \A id \in DOMAIN index : \A p \in Messages(id) : LineAt(p).seg = index[id].seg

Awaited(line) ==
    /\ line.t # "d"
    /\ line.t = "f" => \A f \in Floors : f <= line.id
    /\ line.t = "m" => line.id \in DOMAIN index /\ line.seg = index[line.id].seg

OpEvict ==
    running =>
        /\ op = "lines" =>
              \E line \in todo : todo = {line} /\ (sweep => line.t = "f") /\ Awaited(line)
        /\ op = "reclaim" =>
              \A f \in Floors :
                  \E p \in Places : p[1] = cur /\ LineAt(p).t = "f" /\ f <= LineAt(p).id

EvictInv == byHand = {} => LinesEvict /\ MemEvict /\ OpEvict

-----------------------------------------------------------------------------
(* What there is to build on: no line was cut off.                         *)

LEMMA WholeFacts ==
    ASSUME WholeInv, running
    PROVE  /\ nextId \in Nat
           /\ \A id \in Nat \ gone : Messages(id) # {} <=> id \in DOMAIN index
           /\ \A id \in DOMAIN index \ gone : \A p \in Messages(id) : LineAt(p).seg = index[id].seg
           /\ \A id \in DOMAIN index : id \in Nat /\ id < nextId /\ index[id] \in Slot
           /\ \A id \in Nat : Messages(id) # {} => id < nextId
           /\ \A f \in Floors : f <= nextId
           /\ CurLast
BY RunningFacts DEF WholeInv

LEMMA WholeOpened ==
    ASSUME WholeInv, CurLast, NEW incoming
    PROVE  /\ SegmentFor(incoming) \in Nat
           /\ \A n \in DOMAIN disk : n <= SegmentFor(incoming)
           /\ Opened(incoming) \in Segment /\ Opened(incoming).tail = "ended"
           /\ Opened(incoming).lines = LinesIn(SegmentFor(incoming))
BY SegmentFact, OpenedEnded DEF WholeInv, Kept, CurLast

-----------------------------------------------------------------------------
(* What is kept, when the lines stay and when one is added.                *)

LEMMA SameStays ==
    ASSUME SameLines
    PROVE  /\ \A id : Stays(id)' <=> Stays(id)
           /\ \A g : Remembered(g)' <=> Remembered(g)
           /\ LinesEvict /\ (\A g \in gone' : Remembered(g)) => LinesEvict'
<1>1. /\ \A id : Messages(id)' = Messages(id) /\ Deletes(id)' = Deletes(id)
      /\ Floors' = Floors
      /\ \A id : \A p \in Messages(id) : LineAt(p)' = LineAt(p)
  BY SameSets
<1>2. \A id : Stays(id)' <=> Stays(id)
  BY <1>1 DEF Stays
<1>3. \A g : Remembered(g)' <=> Remembered(g)
  BY <1>1 DEF Remembered
<1>4. ASSUME NEW id, NEW h, HomeAt(id, h) PROVE HomeAt(id, h)'
  BY <1>1, <1>4 DEF HomeAt
<1>5. ASSUME LinesEvict, \A g \in gone' : Remembered(g) PROVE LinesEvict'
  <2>1. \A p \in Places' : LineAt(p)'.t # "d"
    BY <1>5 DEF SameLines, LinesEvict
  <2>2. \A id \in Nat : Stays(id)' => \E h \in Nat : HomeAt(id, h)'
    BY <1>2, <1>4, <1>5 DEF LinesEvict
  <2>3. \A g \in gone' : Remembered(g)'
    BY <1>3, <1>5 DEF LinesEvict
  <2> QED
    BY <2>1, <2>2, <2>3 DEF LinesEvict
<1> QED
  BY <1>2, <1>3, <1>5

(* What a line may say that is written at p.                               *)
Fitting(p, line) ==
    /\ line.t \in {"m", "f"}
    /\ line.id \in Nat
    /\ line.t = "m" =>
          \/ Stays(line.id) /\ \A q \in Messages(line.id) : LineAt(q).seg = line.seg
          \/ /\ Messages(line.id) = {} /\ line.seg = p[1] /\ p[1] \in Nat
             /\ \A f \in Floors : f <= line.id

LEMMA GrowStays ==
    ASSUME LinesEvict, NEW p, NEW line, Grows(p, line), Fitting(p, line)
    PROVE  /\ \A q \in Places' : LineAt(q)'.t # "d"
           /\ \A id \in Nat : Stays(id)' => \E h \in Nat : HomeAt(id, h)'
           /\ \A g \in gone : Remembered(g)'
           /\ line.t = "m" => \A id \in Nat : Stays(id)' <=> Stays(id) \/ id = line.id
           /\ line.t = "f" => \A id \in Nat : Stays(id)' <=> Stays(id) /\ line.id <= id
<1>1. ASSUME NEW id
      PROVE  /\ Messages(id) \subseteq Messages(id)'
             /\ \A q \in Messages(id)' : q \in Messages(id) \/ q = p
             /\ p \in Messages(id)' <=> line.t = "m" /\ line.id = id
             /\ \A q \in Messages(id) : LineAt(q)' = LineAt(q)
  BY GrowSets
<1>2. Floors' = Floors \cup (IF line.t = "f" THEN {line.id} ELSE {})
  BY GrowSets
<1>3. /\ Places' = Places \cup {p} /\ LineAt(p)' = line
      /\ \A q \in Places : LineAt(q)' = LineAt(q)
  BY DEF Grows
<1>4. \A q \in Places' : LineAt(q)'.t # "d"
  BY <1>3 DEF LinesEvict, Fitting
<1>5. \A g \in gone : Remembered(g)'
  BY <1>1, <1>2 DEF LinesEvict, Remembered
<1>6. ASSUME line.t = "m" PROVE \A id \in Nat : Stays(id)' <=> Stays(id) \/ id = line.id
  <2>1. Floors' = Floors
    BY <1>2, <1>6
  <2>2. \A id \in Nat : Messages(id)' # {} <=> Messages(id) # {} \/ id = line.id
    BY <1>1, <1>6
  <2>3. \A f \in Floors : f <= line.id
    BY <1>6 DEF Fitting, Stays
  <2> QED
    BY <2>1, <2>2, <2>3 DEF Stays
<1>7. ASSUME line.t = "f" PROVE \A id \in Nat : Stays(id)' <=> Stays(id) /\ line.id <= id
  <2>1. Floors' = Floors \cup {line.id}
    BY <1>2, <1>7
  <2>2. \A id \in Nat : Messages(id)' # {} <=> Messages(id) # {}
    BY <1>1, <1>7
  <2> QED
    BY <2>1, <2>2 DEF Stays
<1>8. ASSUME NEW id \in Nat, Stays(id)' PROVE \E h \in Nat : HomeAt(id, h)'
  <2>1. CASE Stays(id)
    <3>1. PICK h \in Nat : HomeAt(id, h)
      BY <2>1 DEF LinesEvict
    <3>2. PICK r \in Messages(id) : r[1] = h
      BY <3>1 DEF HomeAt
    <3>3. ASSUME NEW q \in Messages(id)' PROVE (LineAt(q).seg)' = h
      <4>1. CASE q \in Messages(id)
        BY <1>1, <3>1, <4>1 DEF HomeAt
      <4>2. CASE q = p
        <5>1. line.t = "m" /\ line.id = id
          BY <1>1, <4>2
        <5>2. line.seg = LineAt(r).seg
          BY <3>2, <5>1 DEF Fitting
        <5> QED
          BY <1>3, <3>1, <3>2, <4>2, <5>2 DEF HomeAt
      <4> QED
        BY <1>1, <4>1, <4>2
    <3>4. r \in Messages(id)'
      BY <1>1, <3>2
    <3> QED
      BY <3>2, <3>3, <3>4 DEF HomeAt
  <2>2. CASE ~ Stays(id)
    <3>1. line.t = "m" /\ id = line.id
      BY <1>6, <1>7, <1>8, <2>2 DEF Fitting
    <3>2. Messages(id) = {} /\ line.seg = p[1] /\ p[1] \in Nat
      BY <2>2, <3>1 DEF Fitting
    <3>3. p \in Messages(id)' /\ \A q \in Messages(id)' : q = p
      BY <1>1, <3>1, <3>2
    <3>4. HomeAt(id, p[1])'
      BY <1>3, <3>2, <3>3 DEF HomeAt
    <3> QED
      BY <3>2, <3>4
  <2> QED
    BY <2>1, <2>2
<1> QED
  BY <1>4, <1>5, <1>6, <1>7, <1>8

-----------------------------------------------------------------------------
(* An operation that ends with enforce.                                    *)

Settles(ix, next) ==
    /\ \A id \in Nat : id \in DOMAIN ix <=> Stays(id)'
    /\ \A id \in DOMAIN ix : /\ id \in Nat /\ id < next
                             /\ \A p \in Messages(id)' : (LineAt(p).seg)' = ix[id].seg
    /\ \A f \in Floors' : f <= next
    /\ \A g \in gone : Remembered(g)' /\ g < next

LEMMA EnforceEvict ==
    ASSUME NEW ix, NEW max, NEW next \in Nat, Enforce(ix, max, next), nextId' = next,
           Settles(ix, next)
    PROVE  MemEvict' /\ OpEvict' /\ \A g \in gone' : Remembered(g)'
<1>1. PICK kept \in Enforced(ix, max) :
          /\ index' = kept
          /\ gone' = gone \cup (DOMAIN ix \ DOMAIN kept)
          /\ IF kept = ix
             THEN op' = "idle" /\ todo' = {} /\ sweep' = FALSE
             ELSE op' = "lines" /\ todo' = {FloorLine(FloorOf(kept, next))} /\ sweep' = TRUE
  BY DEF Enforce
<1>2. PICK from \in Nat : kept = Newest(ix, from)
  BY StoreAssumption DEF Enforced
<1>3. /\ DOMAIN kept \subseteq DOMAIN ix /\ \A id \in DOMAIN kept : kept[id] = ix[id] /\ from <= id
      /\ \A id \in DOMAIN ix : id >= from => id \in DOMAIN kept
  BY <1>2 DEF Newest
<1>4. PICK floor : floor = FloorOf(kept, next)
  OBVIOUS
<1>5. /\ floor \in Nat
      /\ \A id \in DOMAIN ix : id \in DOMAIN kept <=> floor <= id
      /\ \A f \in Floors' : f <= floor
  <2>1. CASE DOMAIN kept = {}
    <3>1. floor = next
      BY <1>4, <2>1 DEF FloorOf
    <3>2. \A id \in DOMAIN ix : ~ (floor <= id)
      BY <3>1 DEF Settles
    <3> QED
      BY <2>1, <3>1, <3>2 DEF Settles
  <2>2. CASE DOMAIN kept # {}
    <3>1. DOMAIN kept \in SUBSET Nat
      BY <1>3 DEF Settles
    <3>2. floor \in DOMAIN kept /\ \A id \in DOMAIN kept : floor <= id
      BY <1>4, <2>2, <3>1, MinFact DEF FloorOf
    <3>3. floor \in Nat /\ from <= floor
      BY <1>3, <3>1, <3>2
    <3>4. ASSUME NEW id \in DOMAIN ix, floor <= id PROVE id \in DOMAIN kept
      BY <1>3, <3>3, <3>4 DEF Settles
    <3>5. Stays(floor)'
      BY <1>3, <3>2, <3>3 DEF Settles
    <3>6. \A f \in Floors' : f <= floor
      BY <3>5 DEF Stays
    <3> QED
      BY <3>2, <3>3, <3>4, <3>6
  <2> QED
    BY <2>1, <2>2
<1>6. ASSUME NEW g \in gone' PROVE Remembered(g)' /\ g < next
  <2>1. CASE g \in gone
    BY <2>1 DEF Settles
  <2>2. CASE g \in DOMAIN ix
    <3>1. g \in Nat /\ g < next /\ Stays(g)'
      BY <2>2 DEF Settles
    <3> QED
      BY <3>1 DEF Stays, Remembered
  <2> QED
    BY <1>1, <2>1, <2>2
<1>7. CASE kept = ix
  <2>1. todo' = {} /\ op' = "idle" /\ index' = ix
    BY <1>1, <1>7
  <2>2. MemEvict'
    BY <1>6, <2>1 DEF MemEvict, Settles
  <2>3. OpEvict'
    BY <2>1 DEF OpEvict
  <2> QED
    BY <1>6, <2>2, <2>3
<1>8. CASE kept # ix
  <2>1. op' = "lines" /\ todo' = {FloorLine(floor)} /\ index' = kept
    BY <1>1, <1>4, <1>8
  <2>2. PICK line : line = FloorLine(floor)
    OBVIOUS
  <2>3. line.t = "f" /\ line.id = floor /\ todo' = {line}
    BY <2>1, <2>2 DEF FloorLine
  <2>4. \A id \in Nat : id \in DOMAIN kept <=> Stays(id)' /\ floor <= id
    BY <1>3, <1>5 DEF Settles
  <2>5. \A id \in DOMAIN kept : \A p \in Messages(id)' : (LineAt(p).seg)' = kept[id].seg
    BY <1>3 DEF Settles
  <2>6. MemEvict'
    BY <1>6, <2>1, <2>3, <2>4, <2>5 DEF MemEvict
  <2>7. Awaited(line)'
    BY <1>5, <2>3 DEF Awaited
  <2>8. OpEvict'
    BY <2>1, <2>3, <2>7 DEF OpEvict
  <2> QED
    BY <1>6, <2>6, <2>8
<1> QED
  BY <1>7, <1>8

-----------------------------------------------------------------------------
(* One lemma for each action.                                              *)

LEMMA EvictFacts ==
    ASSUME EvictInv, byHand = {}, running
    PROVE  /\ LinesEvict /\ MemEvict /\ OpEvict
           /\ \A g \in gone : Remembered(g) /\ g < nextId
           /\ \A id \in Nat :
                 id \in DOMAIN index <=> Stays(id) /\ \A line \in todo : line.t = "f" => line.id <= id
           /\ \A id \in DOMAIN index : \A p \in Messages(id) : LineAt(p).seg = index[id].seg
BY DEF EvictInv, LinesEvict, MemEvict

(* Nothing of this changes while an operation goes on elsewhere.           *)
LEMMA RestEvict ==
    ASSUME WholeInv, EvictInv, SameLines, running, running' = running, byHand' = byHand,
           gone' = gone, index' = index, nextId' = nextId \/ nextId' = nextId + 1,
           todo' = todo, op' \in {"body", "meta", "idle"}
    PROVE  EvictInv'
<1> SUFFICES ASSUME byHand = {} PROVE LinesEvict' /\ MemEvict' /\ OpEvict'
  BY DEF EvictInv
<1>1. /\ \A id : Stays(id)' <=> Stays(id)
      /\ LinesEvict /\ (\A g \in gone' : Remembered(g)) => LinesEvict'
  BY SameStays
<1>2. /\ LinesEvict /\ MemEvict /\ OpEvict
      /\ \A g \in gone : Remembered(g) /\ g < nextId
      /\ \A id \in Nat :
            id \in DOMAIN index <=> Stays(id) /\ \A line \in todo : line.t = "f" => line.id <= id
      /\ \A id \in DOMAIN index : \A p \in Messages(id) : LineAt(p).seg = index[id].seg
  BY EvictFacts
<1>3. LinesEvict'
  BY <1>1, <1>2
<1>4. \A id \in DOMAIN index : \A p \in Messages(id)' : (LineAt(p).seg)' = index[id].seg
  BY <1>2, SameSets
<1>5. \A g \in gone : g < nextId'
  <2>1. \A g \in gone : g \in Nat
    BY <1>2 DEF Remembered
  <2> QED
    BY <1>2, <2>1, WholeFacts
<1>6. MemEvict'
  BY <1>1, <1>2, <1>4, <1>5 DEF MemEvict
<1>7. OpEvict'
  BY DEF OpEvict
<1> QED
  BY <1>3, <1>6, <1>7

LEMMA TakeIdEvict ==
    ASSUME WholeInv, EvictInv, NEW size, NEW group, TakeId(size, group)
    PROVE  EvictInv'
<1>1. /\ running /\ disk' = disk /\ gone' = gone /\ index' = index /\ byHand' = byHand
      /\ running' = running /\ todo' = todo /\ nextId' = nextId + 1 /\ op' = "body"
  BY DEF TakeId, Ready, history
<1>2. SameLines
  BY <1>1, UnchangedDisk
<1> QED
  BY <1>1, <1>2, RestEvict

LEMMA EndReclaimEvict ==
    ASSUME WholeInv, EvictInv, EndReclaim
    PROVE  EvictInv'
<1>1. /\ op = "reclaim" /\ op' = "idle" /\ disk' = disk /\ byHand' = byHand
      /\ running' = running /\ index' = index /\ nextId' = nextId
      /\ todo' = todo /\ gone' = gone
  BY DEF EndReclaim, memory, history
<1>2. running
  BY <1>1 DEF WholeInv, Kept, OpInv
<1>3. SameLines
  BY <1>1, UnchangedDisk
<1> QED
  BY <1>1, <1>2, <1>3, RestEvict

LEMMA WriteBodyEvict ==
    ASSUME WholeInv, EvictInv, WriteBody
    PROVE  EvictInv'
<1>1. PICK incoming : incoming = msg.att + Reserve
  OBVIOUS
<1>2. PICK n : n = SegmentFor(incoming)
  OBVIOUS
<1>3. PICK old : old = Opened(incoming)
  OBVIOUS
<1>4. PICK seg : seg = [old EXCEPT !.used = @ + msg.body, !.bodies = @ \cup {msg.id}]
  OBVIOUS
<1>5. /\ op = "body" /\ op' = "meta" /\ disk' = PutSegment(n, seg)
      /\ running' = running /\ gone' = gone /\ index' = index /\ nextId' = nextId
      /\ todo' = todo /\ byHand' = byHand
  BY <1>1, <1>2, <1>3, <1>4 DEF WriteBody, history
<1>6. running /\ msg \in NewMessage
  BY <1>5 DEF WholeInv, Kept, OpInv
<1>7. CurLast
  BY <1>6, WholeFacts
<1>8. n \in Nat /\ old \in Segment /\ old.tail = "ended" /\ old.lines = LinesIn(n)
  BY <1>2, <1>3, <1>7, WholeOpened
<1>9. seg \in Segment /\ seg.tail = "ended" /\ seg.lines = LinesIn(n)
  <2>1. PICK u : u = old.used + msg.body
    OBVIOUS
  <2>2. PICK b : b = old.bodies \cup {msg.id}
    OBVIOUS
  <2>3. u \in Nat /\ b \in SUBSET Nat /\ old.lines \in Seq(Lines) /\ old.tail \in Tails
    BY <1>6, <1>8, <2>1, <2>2 DEF NewMessage, Segment
  <2>4. seg = [lines |-> old.lines, tail |-> old.tail, used |-> u, bodies |-> b]
    BY <1>4, <1>8, <2>1, <2>2 DEF Segment
  <2> QED
    BY <1>8, <2>3, <2>4 DEF Segment
<1>10. SameLines
  BY <1>5, <1>8, <1>9, PutSame DEF WholeInv, Kept
<1> QED
  BY <1>5, <1>6, <1>10, RestEvict

LEMMA WriteMetaEvict ==
    ASSUME WholeInv, EvictInv, WriteMeta
    PROVE  EvictInv'
<1> SUFFICES ASSUME byHand = {} PROVE LinesEvict' /\ MemEvict' /\ OpEvict'
  BY DEF WriteMeta, EvictInv
<1>1. PICK line : line = MsgLine(msg.id, msg.group, cur)
  OBVIOUS
<1>2. PICK ix : ix = [id \in DOMAIN index \cup {msg.id} |->
                    IF id = msg.id THEN [seg |-> cur, group |-> msg.group] ELSE index[id]]
  OBVIOUS
<1>3. PICK n : n = cur
  OBVIOUS
<1>4. PICK seg : seg = disk[n]
  OBVIOUS
<1>5. PICK next : next = nextId
  OBVIOUS
<1>6. PICK max : max = maxEntries
  OBVIOUS
<1>7. PICK new : new = msg.id
  OBVIOUS
<1>8. /\ op = "meta" /\ disk' = PutSegment(n, Written(seg, line))
      /\ Enforce(ix, max, next) /\ nextId' = next
  BY <1>1, <1>2, <1>3, <1>4, <1>5, <1>6 DEF WriteMeta
<1>9. /\ running /\ msg \in NewMessage /\ new < next /\ new \notin DOMAIN index
      /\ \A id \in Nat : Messages(id) # {} => id # new
      /\ \A f \in Floors : f <= new
      /\ cur # None /\ todo = {}
  BY <1>5, <1>7, <1>8 DEF WholeInv, Kept, OpInv
<1>10. /\ next \in Nat /\ CurLast
       /\ \A id \in DOMAIN index : id \in Nat /\ id < next
       /\ \A f \in Floors : f <= next
  BY <1>5, <1>9, WholeFacts
<1>11. /\ LinesEvict /\ \A g \in gone : Remembered(g) /\ g < next
       /\ \A id \in Nat : id \in DOMAIN index <=> Stays(id)
       /\ \A id \in DOMAIN index : \A p \in Messages(id) : LineAt(p).seg = index[id].seg
  BY <1>5, <1>9, EvictFacts
<1>12. /\ n \in DOMAIN disk /\ n \in Nat /\ \A m \in DOMAIN disk : m <= n
       /\ seg \in Segment /\ seg.tail = "ended" /\ seg.lines = LinesIn(n)
  BY <1>3, <1>4, <1>9, <1>10 DEF CurLast, WholeInv, TornLast, Kept, Sound, LinesIn
<1>13. /\ line \in Lines /\ line.t = "m" /\ line.id = new /\ line.seg = n /\ new \in Nat
  BY <1>1, <1>3, <1>7, <1>9, <1>12 DEF MsgLine, Lines, NewMessage
<1>14. /\ DOMAIN ix = DOMAIN index \cup {new} /\ ix[new].seg = n
       /\ \A id \in DOMAIN index : ix[id] = index[id]
  BY <1>2, <1>3, <1>7, <1>9
<1>15. PICK p : p = <<n, Len(seg.lines) + 1>>
  OBVIOUS
<1>16. Grows(p, line) /\ p[1] = n
  BY <1>8, <1>12, <1>13, <1>15, WriteGrows DEF WholeInv, Kept
<1>17. Fitting(p, line)
  <2>1. Messages(new) = {}
    BY <1>9, <1>13
  <2> QED
    BY <1>9, <1>12, <1>13, <1>16, <2>1 DEF Fitting
<1>18. /\ \A q \in Places' : LineAt(q)'.t # "d"
       /\ \A id \in Nat : Stays(id)' => \E h \in Nat : HomeAt(id, h)'
       /\ \A g \in gone : Remembered(g)'
       /\ \A id \in Nat : Stays(id)' <=> Stays(id) \/ id = new
  BY <1>11, <1>13, <1>16, <1>17, GrowStays
<1>19. ASSUME NEW id \in DOMAIN ix, NEW q \in Messages(id)'
       PROVE  (LineAt(q).seg)' = ix[id].seg
  <2>1. /\ q \in Messages(id) \/ q = p
        /\ p \in Messages(id)' <=> id = new
        /\ \A r \in Messages(id) : LineAt(r)' = LineAt(r)
    BY <1>13, <1>16, GrowSets
  <2>2. id \in Nat
    BY <1>10, <1>13, <1>14
  <2>3. CASE id = new
    <3>1. q = p /\ LineAt(p)' = line
      BY <1>9, <1>16, <2>1, <2>2, <2>3 DEF Grows
    <3> QED
      BY <1>13, <1>14, <2>3, <3>1
  <2>4. CASE id # new
    <3>1. q \in Messages(id) /\ id \in DOMAIN index
      BY <1>14, <2>1, <2>4
    <3> QED
      BY <1>11, <1>14, <2>1, <3>1
  <2> QED
    BY <2>3, <2>4
<1>20. \A f \in Floors' : f <= next
  <2>1. Floors' = Floors \cup (IF line.t = "f" THEN {line.id} ELSE {})
    BY <1>16, GrowSets
  <2> QED
    BY <1>10, <1>13, <2>1
<1>21. Settles(ix, next)
  BY <1>9, <1>10, <1>11, <1>13, <1>14, <1>18, <1>19, <1>20 DEF Settles
<1>22. MemEvict' /\ OpEvict' /\ \A g \in gone' : Remembered(g)'
  BY <1>8, <1>10, <1>21, EnforceEvict
<1> QED
  BY <1>18, <1>22 DEF LinesEvict

(* delete ends what is said here.                                          *)
LEMMA DeleteEvict ==
    ASSUME WholeInv, NEW ids, Delete(ids)
    PROVE  EvictInv'
BY DEF Delete, EvictInv

LEMMA ClearEvict ==
    ASSUME WholeInv, EvictInv, Clear
    PROVE  EvictInv'
<1> SUFFICES ASSUME byHand = {} PROVE LinesEvict' /\ MemEvict' /\ OpEvict'
  BY DEF Clear, EvictInv
<1>1. /\ running /\ op = "idle" /\ disk' = disk /\ nextId' = nextId /\ op' = "lines"
      /\ gone' = gone \cup DOMAIN index /\ index' = <<>> /\ todo' = {FloorLine(nextId)}
  BY DEF Clear, Edit, Ready
<1>2. SameLines
  BY <1>1, UnchangedDisk
<1>3. /\ \A id : Stays(id)' <=> Stays(id)
      /\ \A g : Remembered(g)' <=> Remembered(g)
  BY <1>2, SameStays
<1>4. todo = {}
  BY <1>1 DEF WholeInv, Kept, OpInv
<1>5. /\ LinesEvict /\ \A g \in gone : Remembered(g) /\ g < nextId
      /\ \A id \in Nat : id \in DOMAIN index <=> Stays(id)
  BY <1>1, <1>4, EvictFacts
<1>6. /\ \A id \in DOMAIN index : id \in Nat /\ id < nextId
      /\ \A f \in Floors : f <= nextId
      /\ nextId \in Nat
  BY <1>1, WholeFacts
<1>7. \A g \in gone' : Remembered(g) /\ g < nextId
  BY <1>1, <1>5, <1>6 DEF Remembered, Stays
<1>8. PICK line : line = FloorLine(nextId)
  OBVIOUS
<1>9. line.t = "f" /\ line.id = nextId /\ todo' = {line}
  BY <1>1, <1>8 DEF FloorLine
<1>10. LinesEvict'
  BY <1>2, <1>5, <1>7, SameStays
<1>11. MemEvict'
  <2>1. DOMAIN index' = {}
    BY <1>1
  <2>2. \A id \in Nat : ~ (Stays(id)' /\ nextId <= id)
    BY <1>3, <1>5, <1>6
  <2> QED
    BY <1>1, <1>7, <1>9, <2>1, <2>2 DEF MemEvict
<1>12. Awaited(line)'
  <2>1. Floors' = Floors
    BY <1>2, SameSets
  <2> QED
    BY <1>6, <1>9, <2>1 DEF Awaited
<1>13. OpEvict'
  BY <1>1, <1>9, <1>12 DEF OpEvict
<1> QED
  BY <1>10, <1>11, <1>13

LEMMA SetGroupEvict ==
    ASSUME WholeInv, EvictInv, NEW id \in Ids, NEW group, SetGroup(id, group)
    PROVE  EvictInv'
<1> SUFFICES ASSUME byHand = {} PROVE LinesEvict' /\ MemEvict' /\ OpEvict'
  BY DEF SetGroup, EvictInv
<1>1. /\ running /\ op = "idle" /\ disk' = disk /\ nextId' = nextId /\ op' = "lines"
      /\ gone' = gone /\ sweep' = FALSE /\ id \in DOMAIN index
      /\ index' = [index EXCEPT ![id].group = group]
      /\ todo' = {MsgLine(id, group, index[id].seg)}
  BY DEF SetGroup, Edit, Ready
<1>2. SameLines
  BY <1>1, UnchangedDisk
<1>3. \A i : Stays(i)' <=> Stays(i)
  BY <1>2, SameStays
<1>4. todo = {}
  BY <1>1 DEF WholeInv, Kept, OpInv
<1>5. /\ LinesEvict /\ \A g \in gone : Remembered(g) /\ g < nextId
      /\ \A i \in Nat : i \in DOMAIN index <=> Stays(i)
      /\ \A i \in DOMAIN index : \A p \in Messages(i) : LineAt(p).seg = index[i].seg
  BY <1>1, <1>4, EvictFacts
<1>6. LinesEvict'
  BY <1>1, <1>2, <1>5, SameStays
<1>7. \A i \in DOMAIN index : index[i] \in Slot
  BY <1>1, WholeFacts
<1>8. DOMAIN index' = DOMAIN index /\ \A i \in DOMAIN index : index'[i].seg = index[i].seg
  <2>1. /\ DOMAIN index' = DOMAIN index /\ index'[id] = [index[id] EXCEPT !.group = group]
        /\ \A i \in DOMAIN index : i # id => index'[i] = index[i]
    BY <1>1
  <2>2. index'[id].seg = index[id].seg
    BY <1>1, <1>7, <2>1 DEF Slot
  <2> QED
    BY <2>1, <2>2
<1>9. PICK line : line = MsgLine(id, group, index[id].seg)
  OBVIOUS
<1>10. line.t = "m" /\ line.id = id /\ line.seg = index[id].seg /\ todo' = {line}
  BY <1>1, <1>9 DEF MsgLine
<1>11. MemEvict'
  <2>1. \A i \in DOMAIN index : \A p \in Messages(i)' : (LineAt(p).seg)' = index[i].seg
    BY <1>2, <1>5, SameSets
  <2>2. \A i \in DOMAIN index' : \A p \in Messages(i)' : (LineAt(p).seg)' = index'[i].seg
    BY <1>8, <2>1
  <2> QED
    BY <1>1, <1>3, <1>5, <1>8, <1>10, <2>2 DEF MemEvict
<1>12. Awaited(line)'
  BY <1>1, <1>8, <1>10 DEF Awaited
<1>13. OpEvict'
  BY <1>1, <1>10, <1>12 DEF OpEvict
<1> QED
  BY <1>6, <1>11, <1>13

LEMMA SetRetentionEvict ==
    ASSUME WholeInv, EvictInv, NEW max, SetRetention(max)
    PROVE  EvictInv'
<1> SUFFICES ASSUME byHand = {} PROVE LinesEvict' /\ MemEvict' /\ OpEvict'
  BY DEF SetRetention, EvictInv
<1>1. PICK ix : ix = index
  OBVIOUS
<1>2. PICK next : next = nextId
  OBVIOUS
<1>3. /\ running /\ op = "idle" /\ disk' = disk /\ nextId' = next /\ Enforce(ix, max, next)
  BY <1>1, <1>2 DEF SetRetention, Edit, Ready
<1>4. SameLines
  BY <1>3, UnchangedDisk
<1>5. /\ \A i : Stays(i)' <=> Stays(i)
      /\ \A g : Remembered(g)' <=> Remembered(g)
  BY <1>4, SameStays
<1>6. todo = {}
  BY <1>3 DEF WholeInv, Kept, OpInv
<1>7. /\ LinesEvict /\ \A g \in gone : Remembered(g) /\ g < next
      /\ \A i \in Nat : i \in DOMAIN index <=> Stays(i)
      /\ \A i \in DOMAIN index : \A p \in Messages(i) : LineAt(p).seg = index[i].seg
  BY <1>2, <1>3, <1>6, EvictFacts
<1>8. /\ \A id \in DOMAIN index : id \in Nat /\ id < next
      /\ \A f \in Floors : f <= next
      /\ next \in Nat
  BY <1>2, <1>3, WholeFacts
<1>9. \A i \in DOMAIN index : \A p \in Messages(i)' : (LineAt(p).seg)' = index[i].seg
  BY <1>4, <1>7, SameSets
<1>10. Floors' = Floors
  BY <1>4, SameSets
<1>11. Settles(ix, next)
  BY <1>1, <1>5, <1>7, <1>8, <1>9, <1>10 DEF Settles
<1>12. MemEvict' /\ OpEvict' /\ \A g \in gone' : Remembered(g)'
  BY <1>3, <1>8, <1>11, EnforceEvict
<1>13. LinesEvict'
  <2>1. \A g \in gone' : Remembered(g)
    BY <1>5, <1>12
  <2> QED
    BY <1>4, <1>7, <2>1, SameStays
<1> QED
  BY <1>12, <1>13

LEMMA WriteLineEvict ==
    ASSUME WholeInv, EvictInv, WriteLine
    PROVE  EvictInv'
<1> SUFFICES ASSUME byHand = {} PROVE LinesEvict' /\ MemEvict' /\ OpEvict'
  BY DEF WriteLine, history, EvictInv
<1>1. /\ op = "lines" /\ cur' = SegmentFor(0)
      /\ running' = running /\ gone' = gone /\ index' = index /\ nextId' = nextId
  BY DEF WriteLine, history
<1>2. running
  BY <1>1 DEF WholeInv, Kept, OpInv
<1>3. PICK line \in todo : todo = {line} /\ (sweep => line.t = "f") /\ Awaited(line)
  BY <1>1, <1>2, EvictFacts DEF OpEvict
<1>4. PICK n : n = SegmentFor(0)
  OBVIOUS
<1>5. PICK seg : seg = Opened(0)
  OBVIOUS
<1>6. PICK p : p = <<n, Len(seg.lines) + 1>>
  OBVIOUS
<1>7. /\ disk' = PutSegment(n, Written(seg, line)) /\ todo' = {}
      /\ op' = IF sweep THEN "reclaim" ELSE "idle"
  BY <1>3, <1>4, <1>5 DEF WriteLine
<1>8. /\ LinesEvict /\ \A g \in gone : Remembered(g) /\ g < nextId
      /\ \A id \in Nat :
            id \in DOMAIN index <=> Stays(id) /\ \A l \in todo : l.t = "f" => l.id <= id
      /\ \A id \in DOMAIN index : \A q \in Messages(id) : LineAt(q).seg = index[id].seg
  BY <1>2, EvictFacts
<1>9. line \in Lines /\ line.id \in Nat /\ line.t \in {"m", "f"}
  <2>1. line \in Lines
    BY <1>3 DEF WholeInv, Kept, OpInv, Harmless
  <2> QED
    BY <1>3, <2>1 DEF Lines, Awaited
<1>10. Grows(p, line) /\ p[1] = n
  <2>1. CurLast
    BY <1>2, WholeFacts
  <2>2. /\ n \in Nat /\ \A m \in DOMAIN disk : m <= n
        /\ seg \in Segment /\ seg.tail = "ended" /\ seg.lines = LinesIn(n)
    BY <1>4, <1>5, <2>1, WholeOpened
  <2> QED
    BY <1>6, <1>7, <1>9, <2>2, WriteGrows DEF WholeInv, Kept
<1>11. ASSUME line.t = "m" PROVE Stays(line.id) /\ line.id \in DOMAIN index
  BY <1>3, <1>8, <1>9, <1>11 DEF Awaited
<1>12. Fitting(p, line)
  BY <1>3, <1>8, <1>9, <1>11 DEF Fitting, Awaited
<1>13. /\ \A q \in Places' : LineAt(q)'.t # "d"
       /\ \A id \in Nat : Stays(id)' => \E h \in Nat : HomeAt(id, h)'
       /\ \A g \in gone : Remembered(g)'
       /\ line.t = "m" => \A id \in Nat : Stays(id)' <=> Stays(id) \/ id = line.id
       /\ line.t = "f" => \A id \in Nat : Stays(id)' <=> Stays(id) /\ line.id <= id
  BY <1>8, <1>10, <1>12, GrowStays
<1>14. LinesEvict'
  BY <1>1, <1>13 DEF LinesEvict
<1>15. \A id \in Nat : id \in DOMAIN index <=> Stays(id)'
  BY <1>3, <1>8, <1>9, <1>11, <1>13
<1>16. ASSUME NEW id \in DOMAIN index, NEW q \in Messages(id)'
       PROVE  (LineAt(q).seg)' = index[id].seg
  <2>1. /\ q \in Messages(id) \/ q = p
        /\ p \in Messages(id)' <=> line.t = "m" /\ line.id = id
        /\ \A r \in Messages(id) : LineAt(r)' = LineAt(r)
    BY <1>10, GrowSets
  <2>2. CASE q \in Messages(id)
    BY <1>8, <2>1, <2>2
  <2>3. CASE q = p
    <3>1. line.t = "m" /\ line.id = id /\ LineAt(p)' = line
      BY <1>10, <2>1, <2>3 DEF Grows
    <3> QED
      BY <1>3, <2>3, <3>1 DEF Awaited
  <2> QED
    BY <2>1, <2>2, <2>3
<1>17. MemEvict'
  BY <1>1, <1>7, <1>8, <1>15, <1>16 DEF MemEvict
<1>18. OpEvict'
  <2>1. CASE ~ sweep
    BY <1>7, <2>1 DEF OpEvict
  <2>2. CASE sweep
    <3>1. line.t = "f" /\ \A f \in Floors : f <= line.id
      BY <1>3, <2>2 DEF Awaited
    <3>2. Floors' = Floors \cup {line.id}
      <4>1. Floors' = Floors \cup (IF line.t = "f" THEN {line.id} ELSE {})
        BY <1>10, GrowSets
      <4> QED
        BY <3>1, <4>1
    <3>3. p \in Places' /\ p[1] = cur' /\ LineAt(p)' = line
      BY <1>1, <1>4, <1>10 DEF Grows
    <3>4. \A f \in Floors' : f <= line.id
      BY <1>9, <3>1, <3>2
    <3>5. \A f \in Floors' : \E q \in Places' : q[1] = cur' /\ LineAt(q)'.t = "f" /\ f <= LineAt(q)'.id
      BY <3>1, <3>3, <3>4
    <3> QED
      BY <1>7, <2>2, <3>5 DEF OpEvict
  <2> QED
    BY <2>1, <2>2
<1> QED
  BY <1>14, <1>17, <1>18

LEMMA DropSegmentEvict ==
    ASSUME WholeInv, EvictInv, DropSegment
    PROVE  EvictInv'
<1> SUFFICES ASSUME byHand = {} PROVE LinesEvict' /\ MemEvict' /\ OpEvict'
  BY DEF DropSegment, history, EvictInv
<1>1. PICK n : n = Min(Orphans)
  OBVIOUS
<1>2. /\ op = "reclaim" /\ Orphans # {} /\ disk' = [m \in DOMAIN disk \ {n} |-> disk[m]]
      /\ running' = running /\ cur' = cur /\ index' = index /\ nextId' = nextId
      /\ op' = op /\ todo' = todo /\ gone' = gone
  BY <1>1 DEF DropSegment, memory, request, history
<1>3. n # cur /\ \A id \in DOMAIN index : index[id].seg # n
  <2>1. Orphans \in SUBSET Nat
    BY DEF Orphans, WholeInv, Kept, Sound
  <2>2. n \in Orphans
    BY <1>1, <1>2, <2>1, MinFact
  <2> QED
    BY <2>2 DEF Orphans
<1>4. running /\ todo = {}
  BY <1>2 DEF WholeInv, Kept, OpInv
<1>5. /\ LinesEvict /\ OpEvict /\ \A g \in gone : Remembered(g) /\ g < nextId
      /\ \A id \in Nat : id \in DOMAIN index <=> Stays(id)
      /\ \A id \in DOMAIN index : \A p \in Messages(id) : LineAt(p).seg = index[id].seg
  BY <1>4, EvictFacts
<1>6. Shrinks(n)
  BY <1>2, DropShrinks DEF WholeInv, Kept
<1>7. /\ \A id : /\ Messages(id)' = {p \in Messages(id) : p[1] # n}
                 /\ \A p \in Messages(id)' : LineAt(p)' = LineAt(p)
      /\ Floors' \subseteq Floors
  BY <1>6, ShrinkSets
<1>8. ASSUME NEW f \in Floors
      PROVE  \E p \in Places' : p[1] = cur /\ LineAt(p)'.t = "f" /\ f <= LineAt(p)'.id
  <2>1. PICK p \in Places : p[1] = cur /\ LineAt(p).t = "f" /\ f <= LineAt(p).id
    BY <1>2, <1>4, <1>5 DEF OpEvict
  <2>2. p \in Places' /\ LineAt(p)' = LineAt(p)
    BY <1>3, <1>6, <2>1 DEF Shrinks
  <2> QED
    BY <2>1, <2>2
<1>9. /\ \A f \in Floors : f \in Nat
      /\ \A f \in Floors : \E g \in Floors' : f <= g
  <2>1. \A p \in Places : LineAt(p) \in Lines
    BY LinesAre DEF WholeInv, Kept
  <2>2. \A f \in Floors : f \in Nat
    BY <2>1 DEF Floors, Lines
  <2>3. \A p \in Places' : LineAt(p)'.t = "f" => LineAt(p)'.id \in Floors'
    BY DEF Floors
  <2> QED
    BY <1>8, <2>2, <2>3
<1>10. ASSUME NEW id \in Nat PROVE Stays(id)' <=> Stays(id)
  <2>1. ASSUME Stays(id) PROVE Stays(id)'
    <3>1. id \in DOMAIN index
      BY <1>5, <2>1
    <3>2. PICK h \in Nat : HomeAt(id, h)
      BY <1>5, <2>1 DEF LinesEvict
    <3>3. PICK p \in Messages(id) : p[1] = h
      BY <3>2 DEF HomeAt
    <3>4. h = index[id].seg
      BY <1>5, <3>1, <3>2, <3>3 DEF HomeAt
    <3>5. p \in Messages(id)'
      BY <1>3, <1>7, <3>1, <3>3, <3>4
    <3> QED
      BY <1>7, <2>1, <3>5 DEF Stays
  <2>2. ASSUME Stays(id)' PROVE Stays(id)
    <3>1. Messages(id) # {} /\ \A f \in Floors' : f <= id
      BY <1>7, <2>2 DEF Stays
    <3>2. \A f \in Floors : f <= id
      BY <1>7, <1>9, <3>1
    <3> QED
      BY <3>1, <3>2 DEF Stays
  <2> QED
    BY <2>1, <2>2
<1>11. ASSUME NEW id \in Nat, Stays(id)' PROVE \E h \in Nat : HomeAt(id, h)'
  <2>1. PICK h \in Nat : HomeAt(id, h)
    BY <1>5, <1>10, <1>11 DEF LinesEvict
  <2>2. PICK p \in Messages(id) : p[1] = h
    BY <2>1 DEF HomeAt
  <2>3. h # n
    BY <1>3, <1>5, <1>10, <1>11, <2>1, <2>2 DEF HomeAt
  <2>4. p \in Messages(id)' /\ \A q \in Messages(id)' : LineAt(q)'.seg = h
    BY <1>7, <2>1, <2>2, <2>3 DEF HomeAt
  <2> QED
    BY <2>2, <2>4 DEF HomeAt
<1>12. ASSUME NEW g \in gone PROVE Remembered(g)'
  <2>1. g \in Nat
    BY <1>5 DEF Remembered
  <2>2. CASE Stays(g)
    BY <1>10, <2>1, <2>2 DEF Stays, Remembered
  <2>3. CASE ~ Stays(g)
    <3>1. PICK f \in Floors : g < f
      BY <1>5, <1>9, <2>1, <2>3 DEF Remembered, Stays
    <3>2. PICK h \in Floors' : f <= h
      BY <1>9
    <3>3. g < h
      BY <1>7, <1>9, <2>1, <3>1, <3>2
    <3> QED
      BY <2>1, <3>2, <3>3 DEF Remembered
  <2> QED
    BY <2>2, <2>3
<1>13. LinesEvict'
  <2>1. \A p \in Places' : LineAt(p)'.t # "d"
    BY <1>5, <1>6 DEF LinesEvict, Shrinks
  <2> QED
    BY <1>2, <1>11, <1>12, <2>1 DEF LinesEvict
<1>14. MemEvict'
  <2>1. \A id \in DOMAIN index : \A p \in Messages(id)' : (LineAt(p).seg)' = index[id].seg
    BY <1>5, <1>7
  <2> QED
    BY <1>2, <1>4, <1>5, <1>10, <2>1 DEF MemEvict
<1>15. OpEvict'
  BY <1>2, <1>7, <1>8 DEF OpEvict
<1> QED
  BY <1>13, <1>14, <1>15

LEMMA CrashEvict ==
    ASSUME WholeInv, EvictInv, Tears = {}, Crash
    PROVE  EvictInv'
<1> SUFFICES ASSUME byHand = {} PROVE LinesEvict' /\ MemEvict' /\ OpEvict'
  BY DEF Crash, EvictInv
<1>1. running /\ running' = FALSE /\ gone' = gone /\ (disk' = disk \/ RolledOnly)
  BY DEF Crash, Torn
<1>2. SameLines
  <2>1. CASE disk' = disk
    BY <2>1, UnchangedDisk
  <2>2. CASE RolledOnly
    <3>1. PICK incoming : disk' = PutSegment(SegmentFor(incoming), Opened(incoming))
      BY <2>2 DEF RolledOnly
    <3>2. PICK n : n = SegmentFor(incoming)
      OBVIOUS
    <3>3. PICK seg : seg = Opened(incoming)
      OBVIOUS
    <3>4. CurLast
      BY <1>1, WholeFacts
    <3>5. /\ n \in Nat /\ seg \in Segment /\ seg.tail = "ended" /\ seg.lines = LinesIn(n)
      BY <3>2, <3>3, <3>4, WholeOpened
    <3>6. disk' = PutSegment(n, seg)
      BY <3>1, <3>2, <3>3
    <3> QED
      BY <3>5, <3>6, PutSame DEF WholeInv, Kept
  <2> QED
    BY <1>1, <2>1, <2>2
<1>3. LinesEvict'
  <2>1. LinesEvict /\ \A g \in gone' : Remembered(g)
    BY <1>1 DEF EvictInv, LinesEvict
  <2> QED
    BY <1>2, <2>1, SameStays
<1> QED
  BY <1>1, <1>3 DEF MemEvict, OpEvict

(* What open reads is what is kept.                                        *)
LEMMA LiveStays ==
    ASSUME Sound, LinesEvict
    PROVE  \A id : id \in Live <=> id \in Nat /\ Stays(id)
<1>1. Seen \subseteq Nat
  BY LinesAre DEF Seen, Lines
<1>2. \A id : Deletes(id) = {}
  BY DEF LinesEvict, Deletes
<1>3. \A id : Messages(id) # {} => id \in Seen
  BY DEF Messages, Seen
<1> QED
  BY <1>1, <1>2, <1>3 DEF Live, Alive, Stays

LEMMA OpenEvict ==
    ASSUME WholeInv, EvictInv, NEW max, Open(max)
    PROVE  EvictInv'
<1> SUFFICES ASSUME byHand = {} PROVE LinesEvict' /\ MemEvict' /\ OpEvict'
  BY DEF Open, EvictInv
<1>1. PICK ix : ix = Replay
  OBVIOUS
<1>2. PICK next : next = NextIdOf(Seen)
  OBVIOUS
<1>3. nextId' = next /\ disk' = disk /\ Enforce(ix, max, next)
  BY <1>1, <1>2 DEF Open
<1>4. LinesEvict
  BY DEF EvictInv
<1>5. next \in Nat /\ \A id \in Seen : id \in Nat /\ id < next
  BY <1>2, NextIdFact DEF WholeInv, Kept
<1>6. DOMAIN ix = Live /\ \A id \in Live : ix[id].seg = LineAt(LastMessage(id)).seg
  BY <1>1 DEF Replay
<1>7. \A id \in DOMAIN ix : id \in Nat /\ id < next
  BY <1>5, <1>6 DEF Live
<1>8. \A id \in DOMAIN ix : \A p \in Messages(id) : LineAt(p).seg = ix[id].seg
  <2> SUFFICES ASSUME NEW id \in Live, NEW p \in Messages(id)
               PROVE  LineAt(p).seg = ix[id].seg
    BY <1>6
  <2>1. id \in Nat /\ Stays(id)
    BY <1>4, LiveStays DEF WholeInv, Kept
  <2>2. PICK h \in Nat : HomeAt(id, h)
    BY <1>4, <2>1 DEF LinesEvict
  <2>3. LastMessage(id) \in Messages(id)
    BY LastIsThere DEF WholeInv, Kept
  <2> QED
    BY <1>6, <2>2, <2>3 DEF HomeAt
<1>9. /\ \A f \in Floors : f <= next
      /\ \A g \in gone : Remembered(g) /\ g < next
  <2>1. \A f \in Floors : f \in Nat /\ f < next
    BY <1>5 DEF Floors, Seen
  <2>2. \A id : Messages(id) # {} => id \in Seen
    BY DEF Messages, Seen
  <2>3. \A g \in gone : Remembered(g) /\ g < next
    BY <1>4, <1>5, <2>1, <2>2 DEF LinesEvict, Remembered
  <2> QED
    BY <1>5, <2>1, <2>3
<1>10. SameLines
  BY <1>3, UnchangedDisk
<1>11. /\ \A i : Stays(i)' <=> Stays(i)
       /\ \A g : Remembered(g)' <=> Remembered(g)
  BY <1>10, SameStays
<1>12. \A i \in DOMAIN ix : \A p \in Messages(i)' : (LineAt(p).seg)' = ix[i].seg
  BY <1>8, <1>10, SameSets
<1>13. Floors' = Floors
  BY <1>10, SameSets
<1>14. \A id \in Nat : id \in DOMAIN ix <=> Stays(id)'
  BY <1>4, <1>6, <1>11, LiveStays DEF WholeInv, Kept
<1>15. Settles(ix, next)
  BY <1>7, <1>9, <1>11, <1>12, <1>13, <1>14 DEF Settles
<1>16. MemEvict' /\ OpEvict' /\ \A g \in gone' : Remembered(g)'
  BY <1>3, <1>5, <1>15, EnforceEvict
<1>17. LinesEvict'
  <2>1. \A g \in gone' : Remembered(g)
    BY <1>11, <1>16
  <2> QED
    BY <1>4, <1>10, <2>1, SameStays
<1> QED
  BY <1>16, <1>17

-----------------------------------------------------------------------------
LEMMA InitEvict ==
    ASSUME Init
    PROVE  EvictInv
<1>1. DOMAIN disk = {} /\ DOMAIN index = {} /\ gone = {} /\ op = "idle"
  BY DEF Init
<1>2. Places = {}
  BY <1>1 DEF Places
<1>3. \A id : Messages(id) = {}
  BY <1>2 DEF Messages
<1>4. LinesEvict
  BY <1>1, <1>2, <1>3 DEF LinesEvict, Stays
<1>5. MemEvict
  BY <1>1, <1>3 DEF MemEvict, Stays
<1> QED
  BY <1>1, <1>4, <1>5 DEF EvictInv, OpEvict

LEMMA StutterEvict ==
    ASSUME EvictInv, UNCHANGED vars
    PROVE  EvictInv'
<1>1. /\ disk' = disk /\ op' = op /\ running' = running /\ cur' = cur /\ index' = index
      /\ nextId' = nextId /\ todo' = todo /\ gone' = gone /\ byHand' = byHand /\ sweep' = sweep
  BY DEF vars, memory, request, history
<1>2. Places' = Places /\ \A p : LineAt(p)' = LineAt(p)
  BY <1>1 DEF Places, LineAt
<1>3. SameLines
  BY <1>2 DEF SameLines
<1>4. \A id : Stays(id)' <=> Stays(id)
  BY <1>3, SameStays
<1>5. (\A id : Messages(id)' = Messages(id)) /\ Floors' = Floors
  BY <1>3, SameSets
<1> SUFFICES ASSUME byHand = {} PROVE LinesEvict' /\ MemEvict' /\ OpEvict'
  BY <1>1 DEF EvictInv
<1>6. LinesEvict /\ MemEvict /\ OpEvict
  BY DEF EvictInv
<1>7. LinesEvict'
  BY <1>1, <1>3, <1>6, SameStays DEF LinesEvict
<1>8. MemEvict'
  BY <1>1, <1>2, <1>4, <1>5, <1>6 DEF MemEvict
<1>9. OpEvict'
  <2>1. \A line \in todo : Awaited(line)' <=> Awaited(line)
    BY <1>1, <1>5 DEF Awaited
  <2> QED
    BY <1>1, <1>2, <1>5, <1>6, <2>1 DEF OpEvict
<1> QED
  BY <1>7, <1>8, <1>9

LEMMA NextEvict ==
    ASSUME StoreInv, EvictInv, Tears = {}, [Next]_vars
    PROVE  EvictInv'
<1> USE StoreIsWhole
<1>1. CASE \E size \in Sizes, group \in NewGroups : TakeId(size, group)
  BY <1>1, TakeIdEvict
<1>2. CASE \E ids \in SUBSET Ids : Delete(ids)
  BY <1>2, DeleteEvict
<1>3. CASE Clear
  BY <1>3, ClearEvict
<1>4. CASE \E id \in Ids, group \in Groups \cup {None} : SetGroup(id, group)
  BY <1>4, SetGroupEvict
<1>5. CASE \E max \in Entries : SetRetention(max)
  BY <1>5, SetRetentionEvict
<1>6. CASE WriteBody
  BY <1>6, WriteBodyEvict
<1>7. CASE WriteMeta
  BY <1>7, WriteMetaEvict
<1>8. CASE WriteLine
  BY <1>8, WriteLineEvict
<1>9. CASE DropSegment
  BY <1>9, DropSegmentEvict
<1>10. CASE EndReclaim
  BY <1>10, EndReclaimEvict
<1>11. CASE Crash
  BY <1>11, CrashEvict
<1>12. CASE \E max \in Entries : Open(max)
  BY <1>12, OpenEvict
<1>13. CASE UNCHANGED vars
  BY <1>13, StutterEvict
<1> QED
  BY <1>1, <1>2, <1>3, <1>4, <1>5, <1>6, <1>7, <1>8, <1>9, <1>10, <1>11, <1>12, <1>13
     DEF Next, Work

LEMMA EvictInvImplies ==
    ASSUME WholeInv, EvictInv
    PROVE  EvictionIsFinal /\ IdsNotReused
<1> SUFFICES ASSUME Ready, byHand = {}
             PROVE  /\ Live = DOMAIN index
                    /\ \A id \in DOMAIN index \cup gone : id < nextId /\ id < NextIdOf(Seen)
  BY DEF EvictionIsFinal, IdsNotReused
<1>1. running /\ todo = {}
  BY DEF Ready, WholeInv, Kept, OpInv
<1>2. /\ LinesEvict /\ \A g \in gone : Remembered(g) /\ g < nextId
      /\ \A id \in Nat : id \in DOMAIN index <=> Stays(id)
  BY <1>1, EvictFacts
<1>3. \A id \in DOMAIN index : id \in Nat /\ id < nextId
  BY <1>1, WholeFacts
<1>4. Live = DOMAIN index
  <2>1. \A id : id \in Live <=> id \in DOMAIN index
    BY <1>2, <1>3, LiveStays DEF WholeInv, Kept
  <2> QED
    BY <2>1
<1>5. \A id \in DOMAIN index \cup gone : Remembered(id) /\ id < nextId
  BY <1>2, <1>3 DEF Stays, Remembered
<1>6. \A id : Remembered(id) => id < NextIdOf(Seen)
  <2> SUFFICES ASSUME NEW id, Remembered(id) PROVE id < NextIdOf(Seen)
    OBVIOUS
  <2>1. NextIdOf(Seen) \in Nat /\ \A i \in Seen : i \in Nat /\ i < NextIdOf(Seen)
    BY NextIdFact DEF WholeInv, Kept
  <2>2. CASE Messages(id) # {}
    <3>1. id \in Seen
      BY <2>2 DEF Messages, Seen
    <3> QED
      BY <2>1, <3>1
  <2>3. CASE \E f \in Floors : id < f
    <3>1. PICK f \in Floors : id < f
      BY <2>3
    <3>2. f \in Seen /\ id \in Nat
      BY DEF Floors, Seen, Remembered
    <3> QED
      BY <2>1, <3>1, <3>2
  <2> QED
    BY <2>2, <2>3 DEF Remembered
<1> QED
  BY <1>4, <1>5, <1>6

(* As long as nobody deletes by hand, a restart finds the messages there   *)
(* are and no others: what enforce and clear took out stays out            *)
(* (enforce, clear, reclaim, open).                                        *)
THEOREM EvictionTheorem ==
    ASSUME Tears = {}
    PROVE  Spec => []EvictionIsFinal
<1>1. Init => StoreInv /\ EvictInv
  BY InitKeeps, InitEvict
<1>2. (StoreInv /\ EvictInv) /\ [Next]_vars => (StoreInv /\ EvictInv)'
  BY NextKeeps, NextEvict
<1>3. StoreInv /\ EvictInv => EvictionIsFinal
  BY StoreIsWhole, EvictInvImplies
<1> QED
  BY <1>1, <1>2, <1>3, PTL DEF Spec

(* As long as nobody deletes by hand, no id is given out a second time,    *)
(* before a restart or after one (append, enforce, reclaim, open).         *)
THEOREM IdsTheorem ==
    ASSUME Tears = {}
    PROVE  Spec => []IdsNotReused
<1>1. Init => StoreInv /\ EvictInv
  BY InitKeeps, InitEvict
<1>2. (StoreInv /\ EvictInv) /\ [Next]_vars => (StoreInv /\ EvictInv)'
  BY NextKeeps, NextEvict
<1>3. StoreInv /\ EvictInv => IdsNotReused
  BY StoreIsWhole, EvictInvImplies
<1> QED
  BY <1>1, <1>2, <1>3, PTL DEF Spec
=============================================================================
