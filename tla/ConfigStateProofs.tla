-------------------------- MODULE ConfigStateProofs --------------------------
(***************************************************************************)
(* Theorems about ConfigState, for any number of requests, workers,        *)
(* messages and restarts: a torn state file is found only after two saves  *)
(* at once; the settings agree wherever they are kept unless two requests  *)
(* that put them overlapped; an id keeps its meaning and an edit stays,    *)
(* unless its request overlapped with another; and messages name groups    *)
(* that are there, or that went in one of the ways ConfigState names.      *)
(*                                                                         *)
(* The first two rest on what is true of a file and its temporary file, of *)
(* whatever kind: they are two inodes, and no request for the other file   *)
(* has one of them open; and as long as requests for it came one at a      *)
(* time, the one under way finds in the temporary file what it wrote.  The *)
(* other three follow what a save may still put in the file: what it is,   *)
(* what is about to become it, and the copies of the requests under way.   *)
(***************************************************************************)
EXTENDS ConfigState, ListProofs, FiniteSetTheorems

FileNames == {"state", "stateTmp", "ini", "iniTmp"}
KindsOf(file) == IF file = "state" THEN Saves ELSE Patches
PairOf(file) == {file, TmpOf(file)}
Met(file) == IF file = "state" THEN past.met.saves ELSE past.met.puts

(* A State: every id was given out.                                        *)
Items == [id : Nat \ {0}, by : Requests, uses : SUBSET Nat, dead : SUBSET Nat]
States == [groups : Seq(Items), channels : Seq(Items), rules : Seq(Items),
           access : Requests \cup {None}, nextId : Nat \ {0}]
IsState(s) ==
    /\ s \in States
    /\ \A l \in ListNames : \A x \in ToSet(s[l]) : x.id < s.nextId

IsSettings(s) == s = [f \in {"account", "limit"} |-> s[f]]
Fits(file, s) == IF file = "state" THEN IsState(s) ELSE IsSettings(s)

(* None and Torn are marks: neither is a State or Settings.                *)
Marks == \A s : IsState(s) \/ IsSettings(s) => s # None /\ s # Torn

IsRequest(q) == q = [f \in {"step", "kind", "id", "copy", "fd", "undoes", "page"} |-> q[f]]

-----------------------------------------------------------------------------
(* What is true of every state.                                            *)

RequestOK(q) ==
    /\ IsRequest(q)
    /\ q.step \in Steps
    /\ q.step = "new" => q.kind = None
    /\ q.step \in {"loaded", "opened", "written", "renamed"} => q.kind \in Saves \cup Patches
    /\ q.step \in {"runtime", "retain"} => q.kind \in Patches
    /\ q.step \in {"stored", "ungroup"} => q.kind \in Saves
    /\ q.step \in {"page", "regroup"} => q.kind = "regroup"
    /\ q.step = "opened" => q.fd \in Files
    /\ q.step # "opened" => q.fd = None

ReqTypes ==
    /\ req = [r \in Requests |-> req[r]]
    /\ \A r \in Requests : RequestOK(req[r])
    /\ IsFiniteSet(Working)
    /\ Cardinality(Working) <= Workers

PastTypes ==
    past = [met    |-> [saves |-> past.met.saves, puts |-> past.met.puts],
            undone |-> past.undone, issued |-> past.issued,
            left   |-> past.left,   broken |-> past.broken]

(* The four names are those of different inodes.                           *)
DiskTypes ==
    /\ inode = [i \in Files |-> inode[i]]
    /\ names \in [FileNames -> Files \cup {None}]
    /\ \A f, g \in FileNames : f # g /\ names[f] # None => names[f] # names[g]

(* What a request has open is not the other file.                          *)
OpenApart ==
    \A r \in Requests : req[r].step = "opened" =>
        /\ \A f \in FileNames \ PairOf(FileOf(r)) : req[r].fd # names[f]
        /\ \A x \in Requests :
              req[x].step = "opened" /\ FileOf(x) # FileOf(r) => req[x].fd # req[r].fd

(* What is in memory, copied or written is of the right kind.              *)
Shaped ==
    /\ IsState(memory)
    /\ IsSettings(settings)
    /\ \A file \in {"state", "ini"} :
          /\ \A r \in UnderWay : req[r].kind \in KindsOf(file) => Fits(file, req[r].copy)
          /\ \A f \in PairOf(file) :
                names[f] # None => inode[names[f]] = Torn \/ Fits(file, inode[names[f]])

(* A request that overlapped with no other for the file: it alone is under *)
(* way, and has the temporary file to itself.                              *)
OnItsOwn(file, r) ==
    /\ \A x \in UnderWay : req[x].kind \in KindsOf(file) => x = r
    /\ req[r].step = "opened" =>
          req[r].fd = names[TmpOf(file)] /\ inode[req[r].fd] = Torn
    /\ req[r].step = "written" =>
          names[TmpOf(file)] # None /\ inode[names[TmpOf(file)]] = req[r].copy

Undisturbed(file) ==
    \A r \in UnderWay :
        req[r].kind \in KindsOf(file) /\ r \notin Met(file) => OnItsOwn(file, r)

FilesInv ==
    /\ ReqTypes
    /\ PastTypes
    /\ DiskTypes
    /\ OpenApart
    /\ Shaped
    /\ Undisturbed("state")
    /\ Undisturbed("ini")

(* What the state file holds is whole.                                     *)
StateWhole == SavesAlone => ~ past.broken /\ Content("state") # Torn

(* The settings agree until the new ones are in the file, and then get to  *)
(* the places they are kept in one after the other.                        *)
SettingsOnTheirWay ==
    past.met.puts = {} =>
        /\ \/ \E r \in Requests : req[r].step \in {"renamed", "runtime", "retain"} /\ req[r].kind \in Patches
           \/ settings = Parsed /\ runtime = settings.account /\ retention = settings.limit
        /\ \A r \in Requests : req[r].kind \in Patches =>
              /\ req[r].step \in {"renamed", "runtime", "retain"} => Parsed = req[r].copy
              /\ req[r].step \in {"runtime", "retain"} => runtime = req[r].copy.account
              /\ req[r].step = "retain" => settings = req[r].copy

ConfigInv == FilesInv /\ StateWhole /\ SettingsOnTheirWay

-----------------------------------------------------------------------------
(* A request takes a step: what the others hold stays.                     *)

Moves(r) ==
    /\ req' = [x \in Requests |-> IF x = r THEN req'[r] ELSE req[x]]
    /\ req[r].step # "new" => req'[r].kind \in {req[r].kind, None}

(* What a request has.                                                     *)
Fields == {"step", "kind", "id", "copy", "fd", "undoes", "page"}

LEMMA FieldSet ==
    ASSUME NEW q, IsRequest(q), NEW f \in Fields, NEW v
    PROVE  /\ IsRequest([q EXCEPT ![f] = v])
           /\ \A g \in Fields : [q EXCEPT ![f] = v][g] = IF g = f THEN v ELSE q[g]
BY SMT DEF IsRequest, Fields

LEMMA IdleIsRequest == IsRequest(Idle)
BY SMT DEF IsRequest, Idle

LEMMA GotoMoves ==
    ASSUME ReqTypes, NEW r \in Requests, NEW step, Goto(r, step)
    PROVE  /\ Moves(r) /\ IsRequest(req'[r])
           /\ req'[r].step = step /\ req'[r].kind = req[r].kind
           /\ req'[r].copy = req[r].copy /\ req'[r].fd = req[r].fd
BY SMT DEF ReqTypes, RequestOK, IsRequest, Goto, Moves

LEMMA FinishMoves ==
    ASSUME ReqTypes, NEW r \in Requests, NEW end \in Ends, Finish(r, end)
    PROVE  /\ Moves(r) /\ IsRequest(req'[r])
           /\ req'[r].step = end /\ req'[r].fd = None
           /\ req'[r].kind \in {req[r].kind, None}
           /\ RequestOK(req'[r])
<1>1. /\ req = [x \in Requests |-> req[x]] /\ IsRequest(req[r])
  BY DEF ReqTypes, RequestOK
<1>2. /\ req' = [req EXCEPT ![r] = req'[r]]
      /\ IsRequest(req'[r]) /\ req'[r].step = end /\ req'[r].fd = None
      /\ req'[r].kind \in {req[r].kind, None}
  <2>1. CASE end = "ok"
    <3>1. req' = [req EXCEPT ![r] = [req[r] EXCEPT !.step = end, !.copy = None, !.fd = None]]
      BY <1>1, <2>1 DEF Finish
    <3> DEFINE p == [req[r] EXCEPT !.step = end]
               o == [p EXCEPT !.copy = None]
               q == [o EXCEPT !.fd = None]
    <3>2. q = [req[r] EXCEPT !.step = end, !.copy = None, !.fd = None]
      OBVIOUS
    <3>3. IsRequest(p) /\ \A g \in Fields : p[g] = IF g = "step" THEN end ELSE req[r][g]
      BY <1>1, FieldSet DEF Fields
    <3> HIDE DEF p
    <3>4. IsRequest(o) /\ \A g \in Fields : o[g] = IF g = "copy" THEN None ELSE p[g]
      BY <3>3, FieldSet DEF Fields
    <3> HIDE DEF o
    <3>5. IsRequest(q) /\ \A g \in Fields : q[g] = IF g = "fd" THEN None ELSE o[g]
      BY <3>4, FieldSet DEF Fields
    <3> HIDE DEF q
    <3>6. IsRequest(q) /\ q.step = end /\ q.fd = None /\ q.kind = req[r].kind
      BY <3>3, <3>4, <3>5, SMT DEF Fields
    <3>7. req' = [req EXCEPT ![r] = q]
      BY <3>2, <3>1
    <3>8. req'[r] = q
      BY <1>1, <3>7
    <3> QED
      BY <3>6, <3>7, <3>8
  <2>2. CASE end # "ok"
    <3> DEFINE p == [Idle EXCEPT !.step = end]
               q == [p EXCEPT !.undoes = req[r].undoes]
    <3>1. req' = [req EXCEPT ![r] = q]
      BY <2>2 DEF Finish
    <3>2. IsRequest(p) /\ \A g \in Fields : p[g] = IF g = "step" THEN end ELSE Idle[g]
      BY IdleIsRequest, FieldSet DEF Fields
    <3> HIDE DEF p
    <3>3. IsRequest(q) /\ \A g \in Fields : q[g] = IF g = "undoes" THEN req[r].undoes ELSE p[g]
      BY <3>2, FieldSet DEF Fields
    <3>4. IsRequest(q) /\ q.step = end /\ q.fd = None /\ q.kind = None
      BY <3>2, <3>3, SMT DEF Fields, Idle
    <3> HIDE DEF q
    <3>5. req'[r] = q
      BY <1>1, <3>1
    <3> QED
      BY <3>1, <3>4, <3>5
  <2> QED
    BY <2>1, <2>2
<1>3. Moves(r)
  BY <1>1, <1>2 DEF Moves
<1> QED
  BY <1>2, <1>3, SMT DEF RequestOK, Ends, Steps

(* A step of a request that needs no worker it has not got.                *)
LEMMA MoveTypes ==
    ASSUME ReqTypes, NEW r \in Requests, Moves(r), RequestOK(req'[r]),
           req'[r].step \in OnWorker => req[r].step \in OnWorker \/ CanStart(r),
           Workers \in Nat
    PROVE  ReqTypes'
<1>1. /\ req' = [x \in Requests |-> req'[x]]
      /\ \A x \in Requests : RequestOK(req'[x])
  BY DEF ReqTypes, Moves
<1>2. \A x \in Requests : x # r => req'[x] = req[x]
  BY DEF Moves
<1>3. IsFiniteSet(Working) /\ Cardinality(Working) <= Workers /\ Cardinality(Working) \in Nat
  BY FS_CardinalityType DEF ReqTypes
<1>4. CASE r \in Working \/ r \notin Working'
  <2>1. Working' \subseteq Working
    BY <1>2, <1>4 DEF Working
  <2>2. IsFiniteSet(Working') /\ Cardinality(Working') <= Cardinality(Working)
    BY <1>3, <2>1, FS_Subset
  <2>3. Cardinality(Working') \in Nat
    BY <2>2, FS_CardinalityType
  <2> QED
    BY <1>1, <1>3, <2>2, <2>3 DEF ReqTypes
<1>5. CASE r \notin Working /\ r \in Working'
  <2>1. Cardinality(Working) < Workers
    BY <1>5 DEF Working, CanStart
  <2>2. Working' = Working \cup {r}
    BY <1>2, <1>5 DEF Working
  <2>3. IsFiniteSet(Working') /\ Cardinality(Working') = Cardinality(Working) + 1
    BY <1>3, <1>5, <2>2, FS_AddElement
  <2> QED
    BY <1>1, <1>3, <2>1, <2>3 DEF ReqTypes
<1> QED
  BY <1>4, <1>5


(* A step that leaves the disk alone keeps what is true of it.             *)
Proper(r) ==
    \A file \in {"state", "ini"} :
        /\ Met(file) \subseteq Met(file)'
        /\ req'[r].step \notin Ends \cup {"new"} /\ req'[r].kind \in KindsOf(file) =>
              /\ Fits(file, req'[r].copy)
              /\ \/ r \in UnderWay /\ req[r].kind \in KindsOf(file)
                 \/ \A x \in UnderWay : req[x].kind \in KindsOf(file) => {x, r} \subseteq Met(file)'

LEMMA ElsewhereKeeps ==
    ASSUME FilesInv, NEW r \in Requests, Moves(r), ReqTypes', PastTypes', UNCHANGED disk,
           req'[r].step \notin {"opened", "written"}, Proper(r),
           IsState(memory'), IsSettings(settings')
    PROVE  FilesInv'
<1>1. inode' = inode /\ names' = names
  BY DEF disk
<1>2. \A x \in Requests : x # r => req'[x] = req[x]
  BY DEF Moves
<1>3. \A x \in Requests : req'[x].step \in {"opened", "written"} => x # r /\ req'[x] = req[x]
  BY <1>2
<1>4. DiskTypes'
  BY <1>1 DEF FilesInv, DiskTypes
<1>5. OpenApart'
  BY <1>1, <1>3 DEF FilesInv, OpenApart, FileOf
<1>6. \A x \in UnderWay' : x # r => x \in UnderWay /\ req'[x] = req[x]
  BY <1>2 DEF UnderWay
<1>7. Shaped'
  <2>1. ASSUME NEW file \in {"state", "ini"}
        PROVE  \A x \in UnderWay' : req'[x].kind \in KindsOf(file) => Fits(file, req'[x].copy)
    <3>1. ASSUME NEW x \in UnderWay', x # r, req'[x].kind \in KindsOf(file)
          PROVE  Fits(file, req'[x].copy)
      BY <1>6, <3>1 DEF FilesInv, Shaped
    <3>2. ASSUME r \in UnderWay', req'[r].kind \in KindsOf(file) PROVE Fits(file, req'[r].copy)
      BY <3>2 DEF Proper, UnderWay
    <3> QED
      BY <3>1, <3>2
  <2>2. ASSUME NEW file \in {"state", "ini"}, NEW f \in PairOf(file)
        PROVE  names'[f] # None => inode'[names'[f]] = Torn \/ Fits(file, inode'[names'[f]])
    BY <1>1 DEF FilesInv, Shaped
  <2> QED
    BY <2>1, <2>2 DEF Shaped
<1>8. ASSUME NEW file \in {"state", "ini"}, Undisturbed(file),
             NEW s \in UnderWay', req'[s].kind \in KindsOf(file), s \notin Met(file)'
      PROVE  OnItsOwn(file, s)'
  <2>1. s \notin Met(file)
    BY <1>8 DEF Proper
  <2>2. s # r => s \in UnderWay /\ req'[s] = req[s] /\ OnItsOwn(file, s)
    BY <1>6, <1>8, <2>1 DEF Undisturbed
  <2>3. r \in UnderWay' /\ req'[r].kind \in KindsOf(file) =>
           \/ r \in UnderWay /\ req[r].kind \in KindsOf(file)
           \/ \A x \in UnderWay : req[x].kind \in KindsOf(file) => {x, r} \subseteq Met(file)'
    BY DEF Proper, UnderWay
  <2>4. ASSUME NEW x \in UnderWay', req'[x].kind \in KindsOf(file) PROVE x = s
    <3>1. CASE s # r /\ x # r
      BY <1>6, <2>2, <2>4, <3>1 DEF OnItsOwn
    <3>2. CASE s # r /\ x = r
      <4>1. s \in UnderWay /\ req[s].kind \in KindsOf(file)
        BY <1>8, <2>2, <3>2
      <4>2. r \in UnderWay /\ req[r].kind \in KindsOf(file)
        BY <1>8, <2>3, <2>4, <3>2, <4>1
      <4> QED
        BY <2>2, <3>2, <4>2 DEF OnItsOwn
    <3>3. CASE s = r /\ x # r
      <4>1. x \in UnderWay /\ req[x].kind \in KindsOf(file)
        BY <1>6, <2>4, <3>3
      <4>2. r \in UnderWay /\ req[r].kind \in KindsOf(file)
        BY <1>8, <2>3, <3>3, <4>1
      <4>3. OnItsOwn(file, r)
        BY <1>8, <2>1, <3>3, <4>2 DEF Undisturbed
      <4> QED
        BY <3>3, <4>1, <4>3 DEF OnItsOwn
    <3> QED
      BY <3>1, <3>2, <3>3
  <2>5. req'[s].step \in {"opened", "written"} => s # r
    OBVIOUS
  <2> QED
    BY <1>1, <2>2, <2>4, <2>5 DEF OnItsOwn
<1>9. Undisturbed("state")' /\ Undisturbed("ini")'
  <2>1. ASSUME NEW file \in {"state", "ini"} PROVE Undisturbed(file)'
    <3>1. Undisturbed(file)
      BY DEF FilesInv
    <3> QED
      BY <1>8, <3>1 DEF Undisturbed
  <2> QED
    BY <2>1
<1> QED
  BY <1>4, <1>5, <1>7, <1>9 DEF FilesInv

-----------------------------------------------------------------------------
(* There is always an inode left: the names take four, and the requests on *)
(* a worker one each.                                                      *)
LEMMA AtMostFour ==
    ASSUME NEW a, NEW b, NEW c, NEW d
    PROVE  IsFiniteSet({a, b, c, d}) /\ Cardinality({a, b, c, d}) <= 4
<1> DEFINE S == {a, b, c, d}
           f == [i \in 1 .. 4 |-> IF i = 1 THEN a ELSE IF i = 2 THEN b ELSE IF i = 3 THEN c ELSE d]
<1>1. f \in [1 .. 4 -> S]
  OBVIOUS
<1>2. \A x \in S : \E i \in 1 .. 4 : f[i] = x
  <2>1. f[1] = a /\ f[2] = b /\ f[3] = c /\ f[4] = d
    OBVIOUS
  <2>2. 1 \in 1 .. 4 /\ 2 \in 1 .. 4 /\ 3 \in 1 .. 4 /\ 4 \in 1 .. 4
    OBVIOUS
  <2> QED
    BY <2>1, <2>2, Zenon
<1>3. f \in Surjection(1 .. 4, S)
  BY <1>1, <1>2, Zenon DEF Surjection
<1>4. IsFiniteSet(1 .. 4) /\ Cardinality(1 .. 4) = 4
  <2>1. \A n \in Nat : 1 \in Int /\ n \in Int /\ (IF 1 > n THEN 0 ELSE n - 1 + 1) = n
    OBVIOUS
  <2>2. \A n \in Nat : IsFiniteSet(1 .. n) /\ Cardinality(1 .. n) = n
    BY <2>1, FS_Interval, Zenon
  <2>3. 4 \in Nat
    OBVIOUS
  <2> QED
    BY <2>2, <2>3, Zenon
<1> HIDE DEF f, S
<1>5. IsFiniteSet(S) /\ Cardinality(S) <= Cardinality(1 .. 4)
  BY <1>3, <1>4, FS_Surjection, Zenon
<1>6. Cardinality(S) <= 4
  BY <1>4, <1>5
<1> QED
  BY <1>5, <1>6 DEF S

LEMMA FreeInode ==
    ASSUME ReqTypes, DiskTypes
    PROVE  \E i \in Files : i \notin Held
<1> DEFINE N == {names["state"], names["stateTmp"], names["ini"], names["iniTmp"]}
           F == {req[r].fd : r \in Working}
<1>1. /\ IsFiniteSet(Files) /\ Cardinality(Files) > 4 + Workers
      /\ Workers \in Nat /\ Cardinality(Files) \in Nat
  BY ConfigAssumption, FS_CardinalityType
<1>2. ASSUME NEW i \in Files, i \in Held PROVE i \in N \cup F
  <2>1. CASE i \in {names[f] : f \in DOMAIN names}
    BY <2>1 DEF DiskTypes, FileNames
  <2>2. CASE i \in {req[r].fd : r \in Requests}
    <3>1. PICK r \in Requests : i = req[r].fd
      BY <2>2
    <3>2. i # None
      BY ConfigAssumption
    <3>3. req[r].step = "opened"
      BY <3>1, <3>2 DEF ReqTypes, RequestOK
    <3> QED
      BY <3>1, <3>3 DEF Working, OnWorker
  <2> QED
    BY <1>2, <2>1, <2>2 DEF Held
<1>3. IsFiniteSet(N) /\ Cardinality(N) <= 4 /\ Cardinality(N) \in Nat
  BY AtMostFour, FS_CardinalityType
<1>4. IsFiniteSet(F) /\ Cardinality(F) <= Workers /\ Cardinality(F) \in Nat
  <2> DEFINE f == [r \in Working |-> req[r].fd]
  <2>1. f \in Surjection(Working, F)
    BY DEF Surjection
  <2> HIDE DEF f, F
  <2>2. IsFiniteSet(Working) /\ Cardinality(Working) <= Workers /\ Cardinality(Working) \in Nat
    BY FS_CardinalityType DEF ReqTypes
  <2>3. IsFiniteSet(F) /\ Cardinality(F) <= Cardinality(Working)
    BY <2>1, <2>2, FS_Surjection
  <2>4. Cardinality(F) \in Nat
    BY <2>3, FS_CardinalityType
  <2> QED
    BY <1>1, <2>2, <2>3, <2>4
<1> HIDE DEF N, F
<1>5. IsFiniteSet(N \cup F) /\ Cardinality(N \cup F) <= 4 + Workers
  <2>1. /\ IsFiniteSet(N \cup F)
        /\ Cardinality(N \cup F) = Cardinality(N) + Cardinality(F) - Cardinality(N \cap F)
    BY <1>3, <1>4, FS_Union
  <2>2. Cardinality(N \cap F) \in Nat
    <3>1. IsFiniteSet(N \cap F)
      BY <1>3, FS_Subset
    <3> QED
      BY <3>1, FS_CardinalityType
  <2> QED
    BY <1>1, <1>3, <1>4, <2>1, <2>2
<1>6. ASSUME \A i \in Files : i \in Held PROVE FALSE
  <2>1. Files \subseteq N \cup F
    BY <1>2, <1>6
  <2>2. Cardinality(Files) <= Cardinality(N \cup F) /\ Cardinality(N \cup F) \in Nat
    BY <1>5, <2>1, FS_Subset, FS_CardinalityType
  <2> QED
    BY <1>1, <1>5, <2>2
<1> QED
  BY <1>6

-----------------------------------------------------------------------------
(* The steps of writing a file.                                            *)

AtFile == {"loaded", "opened", "written", "renamed"}

LEMMA FileFacts ==
    ASSUME ReqTypes, NEW r \in Requests, req[r].step \in AtFile
    PROVE  /\ FileOf(r) \in {"state", "ini"} /\ r \in UnderWay
           /\ \A file \in {"state", "ini"} : req[r].kind \in KindsOf(file) <=> file = FileOf(r)
           /\ Writes(r) = TmpOf(FileOf(r)) /\ TmpOf(FileOf(r)) \in FileNames
           /\ IsRequest(req[r]) /\ RequestOK(req[r])
<1>1. RequestOK(req[r]) /\ IsRequest(req[r])
  BY DEF ReqTypes, RequestOK
<1>2. req[r].kind \in Saves \cup Patches
  BY <1>1 DEF RequestOK, AtFile
<1>3. FileOf(r) \in {"state", "ini"}
  BY DEF FileOf
<1>4. r \in UnderWay
  BY DEF UnderWay, AtFile, Ends
<1>5. \A file \in {"state", "ini"} : req[r].kind \in KindsOf(file) <=> file = FileOf(r)
  BY <1>2 DEF KindsOf, FileOf, Saves, Patches
<1> QED
  BY <1>1, <1>3, <1>4, <1>5 DEF Writes, TmpOf, FileNames

LEMMA Pairs ==
    ASSUME NEW file \in {"state", "ini"}, NEW other \in {"state", "ini"}
    PROVE  /\ file \in FileNames /\ TmpOf(file) \in FileNames /\ file # TmpOf(file)
           /\ PairOf(file) \subseteq FileNames
           /\ other # file => PairOf(file) \cap PairOf(other) = {}
BY DEF TmpOf, PairOf, FileNames

(* Open: the temporary file there is, or an inode that nobody holds.       *)
LEMMA OpenFacts ==
    ASSUME FilesInv, NEW r \in Requests, Open(r)
    PROVE  \E i \in Files :
              /\ req[r].step = "loaded" /\ Moves(r) /\ RequestOK(req'[r])
              /\ req'[r].step = "opened" /\ req'[r].fd = i
              /\ req'[r].kind = req[r].kind /\ req'[r].copy = req[r].copy
              /\ inode' = [inode EXCEPT ![i] = Torn]
              /\ names' = [names EXCEPT ![TmpOf(FileOf(r))] = i]
              /\ i = names[TmpOf(FileOf(r))] \/ i \notin Held
<1>1. req[r].step = "loaded" /\ ReqTypes /\ DiskTypes
  BY DEF Open, FilesInv
<1>2. /\ Writes(r) = TmpOf(FileOf(r)) /\ TmpOf(FileOf(r)) \in FileNames
      /\ RequestOK(req[r]) /\ IsRequest(req[r])
  BY <1>1, FileFacts DEF AtFile
<1> DEFINE name == TmpOf(FileOf(r))
           i == IF names[name] # None THEN names[name] ELSE CHOOSE x \in Files : x \notin Held
           p == [req[r] EXCEPT !.step = "opened"]
           q == [p EXCEPT !.fd = i]
<1>3. /\ inode' = [inode EXCEPT ![i] = Torn] /\ names' = [names EXCEPT ![name] = i]
      /\ req' = [req EXCEPT ![r].step = "opened", ![r].fd = i]
  BY <1>2 DEF Open
<1>4. i \in Files /\ (i = names[name] \/ i \notin Held)
  <2>1. names[name] \in Files \cup {None}
    BY <1>1, <1>2 DEF DiskTypes
  <2>2. \E x \in Files : x \notin Held
    BY <1>1, FreeInode
  <2> QED
    BY <2>1, <2>2
<1> HIDE DEF i
<1>5. req = [x \in Requests |-> req[x]]
  BY <1>1 DEF ReqTypes
<1>6. req'[r] = q /\ req' = [req EXCEPT ![r] = q]
  BY <1>3, <1>5
<1>7. IsRequest(p) /\ \A g \in Fields : p[g] = IF g = "step" THEN "opened" ELSE req[r][g]
  BY <1>2, FieldSet DEF Fields
<1> HIDE DEF p
<1>8. IsRequest(q) /\ \A g \in Fields : q[g] = IF g = "fd" THEN i ELSE p[g]
  BY <1>7, FieldSet DEF Fields
<1> HIDE DEF q
<1>9. IsRequest(req'[r]) /\ \A g \in Fields : req'[r][g] = q[g]
  BY <1>6, <1>8
<1>10. /\ req'[r].step = "opened" /\ req'[r].fd = i
       /\ req'[r].kind = req[r].kind /\ req'[r].copy = req[r].copy
  BY <1>7, <1>8, <1>9, SMT DEF Fields
<1>11. Moves(r)
  BY <1>5, <1>6, <1>10 DEF Moves
<1>12. RequestOK(req'[r])
  BY <1>1, <1>2, <1>4, <1>9, <1>10 DEF RequestOK, Steps, OnWorker
<1> QED
  BY <1>1, <1>3, <1>4, <1>10, <1>11, <1>12

(* The inode that is opened belongs to no other name and no other file.    *)
LEMMA OpenedApart ==
    ASSUME FilesInv, NEW r \in Requests, req[r].step \in AtFile, NEW i \in Files,
           i = names[TmpOf(FileOf(r))] \/ i \notin Held
    PROVE  /\ \A f \in FileNames : f # TmpOf(FileOf(r)) => names[f] # i
           /\ \A x \in Requests :
                 req[x].step = "opened" /\ FileOf(x) # FileOf(r) => req[x].fd # i
<1>1. /\ FileOf(r) \in {"state", "ini"} /\ TmpOf(FileOf(r)) \in FileNames
      /\ ReqTypes /\ DiskTypes /\ OpenApart
  BY FileFacts DEF FilesInv
<1>2. i # None
  BY ConfigAssumption
<1>3. CASE i = names[TmpOf(FileOf(r))]
  <2>1. \A f \in FileNames : f # TmpOf(FileOf(r)) => names[f] # i
    BY <1>1, <1>2, <1>3 DEF DiskTypes
  <2>2. ASSUME NEW x \in Requests, req[x].step = "opened", FileOf(x) # FileOf(r)
        PROVE  req[x].fd # i
    <3>1. TmpOf(FileOf(r)) \in FileNames \ PairOf(FileOf(x))
      BY <1>1, <2>2 DEF FileOf, TmpOf, PairOf, FileNames
    <3> QED
      BY <1>1, <1>3, <2>2, <3>1 DEF OpenApart
  <2> QED
    BY <2>1, <2>2
<1>4. CASE i \notin Held
  <2>1. \A f \in FileNames : names[f] \in Held
    BY <1>1 DEF Held, DiskTypes
  <2>2. \A x \in Requests : req[x].fd \in Held
    BY DEF Held
  <2> QED
    BY <1>4, <2>1, <2>2
<1> QED
  BY <1>3, <1>4

LEMMA OpenKeeps ==
    ASSUME FilesInv, NEW r \in Requests, Open(r), PastTypes', ReqTypes'
    PROVE  FilesInv'
<1>1. PICK i \in Files :
              /\ req[r].step = "loaded" /\ Moves(r) /\ RequestOK(req'[r])
              /\ req'[r].step = "opened" /\ req'[r].fd = i
              /\ req'[r].kind = req[r].kind /\ req'[r].copy = req[r].copy
              /\ inode' = [inode EXCEPT ![i] = Torn]
              /\ names' = [names EXCEPT ![TmpOf(FileOf(r))] = i]
              /\ i = names[TmpOf(FileOf(r))] \/ i \notin Held
  BY OpenFacts
<1>2. PICK file \in {"state", "ini"} : file = FileOf(r)
  BY DEF FileOf
<1>3. /\ r \in UnderWay
      /\ \A other \in {"state", "ini"} : req[r].kind \in KindsOf(other) <=> other = file
      /\ ReqTypes /\ DiskTypes /\ OpenApart /\ Shaped
      /\ Undisturbed("state") /\ Undisturbed("ini")
  BY <1>1, <1>2, FileFacts DEF AtFile, FilesInv
<1>4. PICK name \in FileNames : name = TmpOf(file)
  BY <1>2, Pairs
<1>5. /\ \A f \in FileNames : f # name => names[f] # i
      /\ \A x \in Requests : req[x].step = "opened" /\ FileOf(x) # file => req[x].fd # i
      /\ i # None
  BY <1>1, <1>2, <1>4, OpenedApart, ConfigAssumption DEF AtFile
<1>6. /\ names \in [FileNames -> Files \cup {None}]
      /\ inode = [x \in Files |-> inode[x]]
  BY <1>3 DEF DiskTypes
<1>7. /\ names'[name] = i /\ \A f \in FileNames : f # name => names'[f] = names[f]
      /\ inode'[i] = Torn /\ \A x \in Files : x # i => inode'[x] = inode[x]
      /\ names' \in [FileNames -> Files \cup {None}]
      /\ inode' = [x \in Files |-> inode'[x]]
  BY <1>1, <1>2, <1>4, <1>6
<1>8. /\ \A x \in Requests : x # r => req'[x] = req[x]
      /\ \A x \in Requests : FileOf(x)' = FileOf(x)
  BY <1>1 DEF Moves, FileOf
<1>9. DiskTypes'
  <2>1. ASSUME NEW f \in FileNames, NEW g \in FileNames, f # g, names'[f] # None
        PROVE  names'[f] # names'[g]
    BY <1>3, <1>5, <1>7, <2>1 DEF DiskTypes
  <2> QED
    BY <1>7, <2>1 DEF DiskTypes
<1>10. OpenApart'
  <2>1. ASSUME NEW x \in Requests, req'[x].step = "opened", NEW f \in FileNames \ PairOf(FileOf(x))
        PROVE  req'[x].fd # names'[f]
    <3>1. CASE x = r
      <4>1. f # name
        BY <1>2, <1>4, <2>1, <3>1 DEF PairOf
      <4> QED
        BY <1>1, <1>5, <1>7, <3>1, <4>1
    <3>2. CASE x # r /\ f # name
      BY <1>3, <1>7, <1>8, <2>1, <3>2 DEF OpenApart
    <3>3. CASE x # r /\ f = name
      <4>1. FileOf(x) # file
        BY <1>2, <1>4, <2>1, <3>3 DEF PairOf
      <4> QED
        BY <1>5, <1>7, <1>8, <2>1, <3>3, <4>1
    <3> QED
      BY <3>1, <3>2, <3>3
  <2>2. ASSUME NEW x \in Requests, req'[x].step = "opened", NEW y \in Requests,
               req'[y].step = "opened", FileOf(x) # FileOf(y)
        PROVE  req'[y].fd # req'[x].fd
    <3>1. CASE x = r
      BY <1>1, <1>2, <1>5, <1>8, <2>2, <3>1
    <3>2. CASE y = r
      BY <1>1, <1>2, <1>5, <1>8, <2>2, <3>2
    <3>3. CASE x # r /\ y # r
      BY <1>3, <1>8, <2>2, <3>3 DEF OpenApart
    <3> QED
      BY <3>1, <3>2, <3>3
  <2> QED
    BY <1>8, <2>1, <2>2 DEF OpenApart
<1>11. Shaped'
  <2>1. memory' = memory /\ settings' = settings
    BY DEF Open
  <2>2. ASSUME NEW other \in {"state", "ini"}, NEW x \in UnderWay', req'[x].kind \in KindsOf(other)
        PROVE  Fits(other, req'[x].copy)
    <3>1. req'[x].kind = req[x].kind /\ req'[x].copy = req[x].copy /\ x \in UnderWay
      BY <1>1, <1>3, <1>8 DEF UnderWay
    <3> QED
      BY <1>3, <2>2, <3>1 DEF Shaped
  <2>3. ASSUME NEW other \in {"state", "ini"}, NEW f \in PairOf(other), names'[f] # None
        PROVE  inode'[names'[f]] = Torn \/ Fits(other, inode'[names'[f]])
    <3>1. f \in FileNames
      BY Pairs
    <3>2. CASE f = name
      BY <1>7, <3>2
    <3>3. CASE f # name
      <4>1. names'[f] = names[f] /\ names[f] # i /\ names[f] \in Files
        BY <1>5, <1>6, <1>7, <2>3, <3>1, <3>3
      <4> QED
        BY <1>3, <1>7, <2>3, <4>1 DEF Shaped
    <3> QED
      BY <3>2, <3>3
  <2> QED
    BY <1>3, <2>1, <2>2, <2>3 DEF Shaped

<1>12. ASSUME NEW other \in {"state", "ini"}, Undisturbed(other),
              NEW s \in UnderWay', req'[s].kind \in KindsOf(other), s \notin Met(other)'
       PROVE  OnItsOwn(other, s)'
  <2>1. s \notin Met(other)
    BY <1>12 DEF Open, Met
  <2>2. ASSUME NEW x \in UnderWay', req'[x].kind \in KindsOf(other)
        PROVE  req'[x].kind = req[x].kind /\ req'[x].copy = req[x].copy /\ x \in UnderWay
    BY <1>1, <1>3, <1>8, <2>2 DEF UnderWay
  <2>3. OnItsOwn(other, s)
    BY <1>12, <2>1, <2>2 DEF Undisturbed
  <2>4. \A x \in UnderWay' : req'[x].kind \in KindsOf(other) => x = s
    BY <2>2, <2>3 DEF OnItsOwn
  <2>5. ASSUME s # r, req'[s].step \in {"opened", "written"}
        PROVE  /\ req'[s] = req[s] /\ names'[TmpOf(other)] = names[TmpOf(other)]
               /\ names[TmpOf(other)] # i
    <3>1. other # file
      BY <1>3, <2>3, <2>5 DEF OnItsOwn
    <3>2. TmpOf(other) \in FileNames /\ TmpOf(other) # name
      BY <1>4, <3>1 DEF TmpOf, FileNames
    <3> QED
      <4>1. s \in Requests
        BY DEF UnderWay
      <4> QED
        BY <1>5, <1>7, <1>8, <2>5, <3>2, <4>1
  <2>6. ASSUME req'[s].step = "opened"
        PROVE  req'[s].fd = names'[TmpOf(other)] /\ inode'[req'[s].fd] = Torn
    <3>1. CASE s = r
      BY <1>1, <1>3, <1>4, <1>7, <1>12, <3>1
    <3>2. CASE s # r
      <4>1. req'[s] = req[s] /\ s \in Requests
        BY <2>5, <2>6, <3>2 DEF UnderWay
      <4>2. req[s].fd = names[TmpOf(other)] /\ inode[req[s].fd] = Torn /\ req[s].fd \in Files
        BY <1>3, <2>3, <2>6, <4>1 DEF OnItsOwn, ReqTypes, RequestOK
      <4> QED
        BY <1>7, <2>5, <2>6, <3>2, <4>2
    <3> QED
      BY <3>1, <3>2
  <2>7. ASSUME req'[s].step = "written"
        PROVE  names'[TmpOf(other)] # None /\ inode'[names'[TmpOf(other)]] = req'[s].copy
    <3>1. s # r
      BY <1>1, <2>7
    <3>2. names[TmpOf(other)] # None /\ inode[names[TmpOf(other)]] = req[s].copy
      BY <2>3, <2>5, <2>7, <3>1 DEF OnItsOwn
    <3>3. names[TmpOf(other)] \in Files
      BY <1>6, <3>2, Pairs
    <3> QED
      BY <1>7, <2>5, <2>7, <3>1, <3>2, <3>3
  <2> QED
    BY <2>4, <2>6, <2>7 DEF OnItsOwn
<1>13. Undisturbed("state")' /\ Undisturbed("ini")'
  <2>1. ASSUME NEW other \in {"state", "ini"} PROVE Undisturbed(other)'
    <3>1. Undisturbed(other)
      BY <1>3
    <3> QED
      BY <1>12, <3>1 DEF Undisturbed
  <2> QED
    BY <2>1
<1> QED
  BY <1>9, <1>10, <1>11, <1>13 DEF FilesInv

(* Write: the inode that was opened holds what the request wrote.          *)
LEMMA WriteFacts ==
    ASSUME FilesInv, NEW r \in Requests, Write(r)
    PROVE  \E text \in {req[r].copy, Torn} :
              /\ req[r].step = "opened" /\ Moves(r) /\ RequestOK(req'[r])
              /\ inode' = [inode EXCEPT ![req[r].fd] = text]
              /\ names' = names
              /\ \/ /\ req'[r].step = "written"
                    /\ req'[r].kind = req[r].kind /\ req'[r].copy = req[r].copy
                    /\ inode[req[r].fd] = Torn => text = req[r].copy
                 \/ req'[r].step = "error"
<1>1. req[r].step = "opened" /\ ReqTypes
  BY DEF Write, FilesInv
<1>2. RequestOK(req[r]) /\ IsRequest(req[r]) /\ req = [x \in Requests |-> req[x]]
  BY <1>1, FileFacts DEF AtFile, ReqTypes
<1>3. names' = names
  BY DEF Write
<1>4. CASE /\ \E text \in {req[r].copy} \cup (IF inode[req[r].fd] = Torn THEN {} ELSE {Torn}) :
                 inode' = [inode EXCEPT ![req[r].fd] = text]
           /\ req' = [req EXCEPT ![r].step = "written", ![r].fd = None]
  <2>1. PICK text \in {req[r].copy, Torn} :
            /\ inode' = [inode EXCEPT ![req[r].fd] = text]
            /\ inode[req[r].fd] = Torn => text = req[r].copy
    BY <1>4
  <2> DEFINE p == [req[r] EXCEPT !.step = "written"]
             q == [p EXCEPT !.fd = None]
  <2>2. req'[r] = q /\ req' = [req EXCEPT ![r] = q]
    BY <1>2, <1>4
  <2>3. IsRequest(p) /\ \A g \in Fields : p[g] = IF g = "step" THEN "written" ELSE req[r][g]
    BY <1>2, FieldSet DEF Fields
  <2> HIDE DEF p
  <2>4. IsRequest(q) /\ \A g \in Fields : q[g] = IF g = "fd" THEN None ELSE p[g]
    BY <2>3, FieldSet DEF Fields
  <2> HIDE DEF q
  <2>5. IsRequest(req'[r]) /\ \A g \in Fields : req'[r][g] = q[g]
    BY <2>2, <2>4
  <2>6. /\ req'[r].step = "written" /\ req'[r].fd = None
        /\ req'[r].kind = req[r].kind /\ req'[r].copy = req[r].copy
    BY <2>3, <2>4, <2>5, SMT DEF Fields
  <2>7. Moves(r)
    BY <1>2, <2>2, <2>6 DEF Moves
  <2>8. RequestOK(req'[r])
    BY <1>1, <1>2, <2>5, <2>6 DEF RequestOK, Steps, OnWorker
  <2> QED
    BY <1>1, <1>3, <2>1, <2>6, <2>7, <2>8
<1>5. CASE inode' = [inode EXCEPT ![req[r].fd] = Torn] /\ Finish(r, "error")
  <2>1. Moves(r) /\ req'[r].step = "error" /\ RequestOK(req'[r])
    BY <1>1, <1>5, FinishMoves DEF Ends
  <2> QED
    BY <1>1, <1>3, <1>5, <2>1
<1> QED
  BY <1>4, <1>5 DEF Write

LEMMA WriteKeeps ==
    ASSUME FilesInv, NEW r \in Requests, Write(r), PastTypes', ReqTypes'
    PROVE  FilesInv'
<1>1. PICK text \in {req[r].copy, Torn} :
              /\ req[r].step = "opened" /\ Moves(r) /\ RequestOK(req'[r])
              /\ inode' = [inode EXCEPT ![req[r].fd] = text]
              /\ names' = names
              /\ \/ /\ req'[r].step = "written"
                    /\ req'[r].kind = req[r].kind /\ req'[r].copy = req[r].copy
                    /\ inode[req[r].fd] = Torn => text = req[r].copy
                 \/ req'[r].step = "error"
  BY WriteFacts
<1>2. PICK file \in {"state", "ini"} : file = FileOf(r)
  BY DEF FileOf
<1>3. /\ r \in UnderWay
      /\ \A other \in {"state", "ini"} : req[r].kind \in KindsOf(other) <=> other = file
      /\ ReqTypes /\ DiskTypes /\ OpenApart /\ Shaped
      /\ Undisturbed("state") /\ Undisturbed("ini")
  BY <1>1, <1>2, FileFacts DEF AtFile, FilesInv
<1>4. PICK i \in Files : i = req[r].fd
  BY <1>1, <1>3 DEF ReqTypes, RequestOK
<1>5. /\ inode'[i] = text /\ \A x \in Files : x # i => inode'[x] = inode[x]
      /\ inode' = [x \in Files |-> inode'[x]]
  BY <1>1, <1>3, <1>4 DEF DiskTypes
<1>6. \A x \in Requests : x # r => req'[x] = req[x]
  BY <1>1 DEF Moves
<1>7. \A x \in Requests : req'[x].step = "opened" => x # r
  BY <1>1
<1>8. DiskTypes'
  BY <1>1, <1>3, <1>5 DEF DiskTypes
<1>9. OpenApart'
  BY <1>1, <1>3, <1>6, <1>7 DEF OpenApart, FileOf
<1>10. \A f \in FileNames \ PairOf(file) : names[f] # i
  BY <1>1, <1>2, <1>3, <1>4 DEF OpenApart
<1>11. ASSUME NEW x \in UnderWay', NEW other \in {"state", "ini"}, req'[x].kind \in KindsOf(other)
       PROVE  req'[x].kind = req[x].kind /\ req'[x].copy = req[x].copy /\ x \in UnderWay
  <2>1. CASE x = r
    BY <1>1, <1>3, <1>11, <2>1 DEF UnderWay, Ends
  <2>2. CASE x # r
    BY <1>6, <1>11, <2>2 DEF UnderWay
  <2> QED
    BY <2>1, <2>2
<1>12. Shaped'
  <2>1. memory' = memory /\ settings' = settings
    BY DEF Write
  <2>2. ASSUME NEW other \in {"state", "ini"}, NEW x \in UnderWay', req'[x].kind \in KindsOf(other)
        PROVE  Fits(other, req'[x].copy)
    BY <1>3, <1>11, <2>2 DEF Shaped
  <2>3. ASSUME NEW other \in {"state", "ini"}, NEW f \in PairOf(other), names[f] # None
        PROVE  inode'[names[f]] = Torn \/ Fits(other, inode'[names[f]])
    <3>1. f \in FileNames /\ names[f] \in Files
      BY <1>3, <2>3, Pairs DEF DiskTypes
    <3>2. CASE names[f] = i
      <4>1. other = file
        BY <1>10, <3>1, <3>2, Pairs
      <4>2. Fits(file, req[r].copy)
        BY <1>3 DEF Shaped
      <4> QED
        BY <1>5, <3>2, <4>1, <4>2
    <3>3. CASE names[f] # i
      BY <1>3, <1>5, <2>3, <3>1, <3>3 DEF Shaped
    <3> QED
      BY <3>2, <3>3
  <2> QED
    BY <1>1, <1>3, <2>1, <2>2, <2>3 DEF Shaped
<1>13. ASSUME NEW other \in {"state", "ini"}, Undisturbed(other),
              NEW s \in UnderWay', req'[s].kind \in KindsOf(other), s \notin Met(other)'
       PROVE  OnItsOwn(other, s)'
  <2>1. s \notin Met(other)
    BY <1>13 DEF Write, Met
  <2>2. OnItsOwn(other, s)
    BY <1>11, <1>13, <2>1 DEF Undisturbed
  <2>3. \A x \in UnderWay' : req'[x].kind \in KindsOf(other) => x = s
    BY <1>11, <2>2 DEF OnItsOwn
  <2>4. ASSUME s # r, req'[s].step \in {"opened", "written"}
        PROVE  /\ req'[s] = req[s] /\ names[TmpOf(other)] # i
               /\ req'[s].step = "opened" => req[s].fd # i
    <3>1. req'[s] = req[s]
      BY <1>6, <2>4 DEF UnderWay
    <3>2. other # file
      BY <1>3, <2>2, <2>4 DEF OnItsOwn
    <3>3. TmpOf(other) \in FileNames \ PairOf(file)
      BY <3>2 DEF TmpOf, FileNames, PairOf
    <3>4. names[TmpOf(other)] # i
      BY <1>10, <3>3
    <3>5. req[s].step = "opened" => req[s].fd = names[TmpOf(other)]
      BY <2>2 DEF OnItsOwn
    <3> QED
      BY <3>1, <3>4, <3>5
  <2>5. ASSUME req'[s].step = "opened"
        PROVE  req'[s].fd = names'[TmpOf(other)] /\ inode'[req'[s].fd] = Torn
    <3>1. s # r
      BY <1>7, <2>5
    <3>2. req'[s] = req[s] /\ s \in Requests
      BY <2>4, <2>5, <3>1 DEF UnderWay
    <3>3. req[s].fd = names[TmpOf(other)] /\ inode[req[s].fd] = Torn /\ req[s].fd \in Files
      BY <1>3, <2>2, <2>5, <3>2 DEF OnItsOwn, ReqTypes, RequestOK
    <3> QED
      BY <1>1, <1>5, <2>4, <2>5, <3>1, <3>3
  <2>6. ASSUME req'[s].step = "written"
        PROVE  names'[TmpOf(other)] # None /\ inode'[names'[TmpOf(other)]] = req'[s].copy
    <3>1. CASE s = r
      <4>1. req'[r].copy = req[r].copy /\ (inode[i] = Torn => text = req[r].copy)
        BY <1>1, <1>4, <2>6, <3>1
      <4>2. i = names[TmpOf(other)] /\ inode[i] = Torn
        BY <1>1, <1>4, <2>2, <3>1 DEF OnItsOwn
      <4>3. i # None
        BY ConfigAssumption
      <4> QED
        BY <1>1, <1>5, <3>1, <4>1, <4>2, <4>3
    <3>2. CASE s # r
      <4>1. names[TmpOf(other)] # None /\ inode[names[TmpOf(other)]] = req[s].copy
        BY <2>2, <2>4, <2>6, <3>2 DEF OnItsOwn
      <4>2. names[TmpOf(other)] \in Files
        BY <1>3, <4>1, Pairs DEF DiskTypes
      <4> QED
        BY <1>1, <1>5, <2>4, <2>6, <3>2, <4>1, <4>2
    <3> QED
      BY <3>1, <3>2
  <2> QED
    BY <2>3, <2>5, <2>6 DEF OnItsOwn
<1>14. Undisturbed("state")' /\ Undisturbed("ini")'
  <2>1. ASSUME NEW other \in {"state", "ini"} PROVE Undisturbed(other)'
    <3>1. Undisturbed(other)
      BY <1>3
    <3> QED
      BY <1>13, <3>1 DEF Undisturbed
  <2> QED
    BY <2>1
<1> QED
  BY <1>8, <1>9, <1>12, <1>14 DEF FilesInv

(* Rename: the file is what the temporary file was.                        *)
LEMMA RenameFacts ==
    ASSUME FilesInv, NEW r \in Requests, Rename(r), names[TmpOf(FileOf(r))] # None
    PROVE  /\ req[r].step = "written" /\ Moves(r) /\ RequestOK(req'[r])
           /\ req'[r].step = "renamed"
           /\ req'[r].kind = req[r].kind /\ req'[r].copy = req[r].copy
           /\ inode' = [i \in Files |-> IF i = names[FileOf(r)] THEN Torn ELSE inode[i]]
           /\ names' = [names EXCEPT ![FileOf(r)] = names[TmpOf(FileOf(r))],
                                     ![TmpOf(FileOf(r))] = None]
           /\ Met("state")' = Met("state") /\ Met("ini")' = Met("ini")
           /\ past'.broken = past.broken
<1>1. req[r].step = "written" /\ ReqTypes /\ PastTypes
  BY DEF Rename, FilesInv
<1>2. RequestOK(req[r]) /\ Writes(r) = TmpOf(FileOf(r))
  BY <1>1, FileFacts DEF AtFile, ReqTypes
<1>3. /\ inode' = [i \in Files |-> IF i = names[FileOf(r)] THEN Torn ELSE inode[i]]
      /\ names' = [names EXCEPT ![FileOf(r)] = names[TmpOf(FileOf(r))], ![TmpOf(FileOf(r))] = None]
      /\ Goto(r, "renamed")
      /\ past' = [past EXCEPT !.issued = @ \cup IssuedBy(r), !.undone = @ \cup req[r].undoes]
  BY <1>2 DEF Rename
<1>4. /\ Moves(r) /\ IsRequest(req'[r]) /\ req'[r].step = "renamed" /\ req'[r].kind = req[r].kind
      /\ req'[r].copy = req[r].copy /\ req'[r].fd = req[r].fd
  BY <1>1, <1>3, GotoMoves
<1>5. RequestOK(req'[r])
  BY <1>1, <1>2, <1>4 DEF RequestOK, Steps, OnWorker
<1>6. past'.met = past.met /\ past'.broken = past.broken
  BY <1>1, <1>3, SMT DEF PastTypes
<1> QED
  BY <1>1, <1>3, <1>4, <1>5, <1>6 DEF Met

LEMMA RenameKeeps ==
    ASSUME FilesInv, NEW r \in Requests, Rename(r), names[TmpOf(FileOf(r))] # None,
           PastTypes', ReqTypes'
    PROVE  FilesInv'
<1>1. PICK file \in {"state", "ini"} : file = FileOf(r)
  BY DEF FileOf
<1>2. /\ req[r].step = "written" /\ Moves(r) /\ RequestOK(req'[r])
      /\ req'[r].step = "renamed"
      /\ req'[r].kind = req[r].kind /\ req'[r].copy = req[r].copy
      /\ inode' = [x \in Files |-> IF x = names[file] THEN Torn ELSE inode[x]]
      /\ names' = [names EXCEPT ![file] = names[TmpOf(file)], ![TmpOf(file)] = None]
      /\ Met("state")' = Met("state") /\ Met("ini")' = Met("ini")
  BY <1>1, RenameFacts
<1>3. /\ r \in UnderWay
      /\ \A other \in {"state", "ini"} : req[r].kind \in KindsOf(other) <=> other = file
      /\ ReqTypes /\ DiskTypes /\ OpenApart /\ Shaped
      /\ Undisturbed("state") /\ Undisturbed("ini")
  BY <1>1, <1>2, FileFacts DEF AtFile, FilesInv
<1>4. PICK tmp \in FileNames : tmp = TmpOf(file)
  BY Pairs
<1>5. /\ file \in FileNames /\ file # tmp /\ names[tmp] # None
      /\ names \in [FileNames -> Files \cup {None}]
  BY <1>1, <1>3, <1>4, Pairs DEF DiskTypes
<1>6. /\ names'[file] = names[tmp] /\ names'[tmp] = None
      /\ \A f \in FileNames : f \notin {file, tmp} => names'[f] = names[f]
      /\ names' \in [FileNames -> Files \cup {None}]
      /\ inode' = [x \in Files |-> inode'[x]]
      /\ \A x \in Files : x # names[file] => inode'[x] = inode[x]
      /\ \A x \in Files : inode'[x] \in {Torn, inode[x]}
  BY <1>2, <1>4, <1>5
<1>7. /\ \A x \in Requests : x # r => req'[x] = req[x]
      /\ \A x \in Requests : req'[x].step \in {"opened", "written"} => x # r
      /\ \A x \in Requests : FileOf(x)' = FileOf(x)
  BY <1>2 DEF Moves, FileOf
<1>8. DiskTypes'
  <2>1. ASSUME NEW f \in FileNames, NEW g \in FileNames, f # g, names'[f] # None
        PROVE  names'[f] # names'[g]
    BY <1>3, <1>5, <1>6, <2>1 DEF DiskTypes
  <2> QED
    BY <1>6, <2>1 DEF DiskTypes
<1>9. OpenApart'
  <2>1. ASSUME NEW x \in Requests, req'[x].step = "opened", NEW f \in FileNames \ PairOf(FileOf(x))
        PROVE  req'[x].fd # names'[f]
    <3>1. /\ req'[x] = req[x] /\ req[x].fd \in Files /\ req[x].fd # None
          /\ \A g \in FileNames \ PairOf(FileOf(x)) : req[x].fd # names[g]
      BY <1>3, <1>7, <2>1, ConfigAssumption DEF OpenApart, ReqTypes, RequestOK
    <3>2. CASE f = file
      <4>1. tmp \in FileNames \ PairOf(FileOf(x))
        BY <1>4, <2>1, <3>2 DEF PairOf, TmpOf, FileNames, FileOf
      <4> QED
        BY <1>6, <3>1, <3>2, <4>1
    <3>3. CASE f = tmp
      BY <1>6, <3>1, <3>3
    <3>4. CASE f \notin {file, tmp}
      BY <1>6, <2>1, <3>1, <3>4
    <3> QED
      BY <3>2, <3>3, <3>4
  <2>2. ASSUME NEW x \in Requests, req'[x].step = "opened", NEW y \in Requests,
               req'[y].step = "opened", FileOf(x) # FileOf(y)
        PROVE  req'[y].fd # req'[x].fd
    BY <1>3, <1>7, <2>2 DEF OpenApart
  <2> QED
    BY <1>7, <2>1, <2>2 DEF OpenApart
<1>10. ASSUME NEW x \in UnderWay'
       PROVE  req'[x].kind = req[x].kind /\ req'[x].copy = req[x].copy /\ x \in UnderWay
  BY <1>2, <1>3, <1>7, <1>10 DEF UnderWay
<1>11. Shaped'
  <2>1. memory' = memory /\ settings' = settings
    BY DEF Rename
  <2>2. ASSUME NEW other \in {"state", "ini"}, NEW x \in UnderWay', req'[x].kind \in KindsOf(other)
        PROVE  Fits(other, req'[x].copy)
    BY <1>3, <1>10, <2>2 DEF Shaped
  <2>3. ASSUME NEW other \in {"state", "ini"}, NEW f \in PairOf(other), names'[f] # None
        PROVE  inode'[names'[f]] = Torn \/ Fits(other, inode'[names'[f]])
    <3>1. f \in FileNames /\ names'[f] \in Files
      BY <1>6, <2>3, Pairs
    <3>2. \E g \in PairOf(other) : names'[f] = names[g] /\ names[g] # None
      <4>1. CASE f = file
        BY <1>4, <1>5, <1>6, <2>3, <4>1, Pairs DEF PairOf, TmpOf
      <4>2. CASE f # file
        BY <1>6, <2>3, <3>1, <4>2
      <4> QED
        BY <4>1, <4>2
    <3> QED
      BY <1>3, <1>6, <3>1, <3>2 DEF Shaped
  <2> QED
    BY <1>3, <2>1, <2>2, <2>3 DEF Shaped
<1>12. ASSUME NEW other \in {"state", "ini"}, Undisturbed(other),
              NEW s \in UnderWay', req'[s].kind \in KindsOf(other), s \notin Met(other)'
       PROVE  OnItsOwn(other, s)'
  <2>1. s \notin Met(other)
    BY <1>2, <1>12
  <2>2. OnItsOwn(other, s)
    BY <1>10, <1>12, <2>1 DEF Undisturbed
  <2>3. \A x \in UnderWay' : req'[x].kind \in KindsOf(other) => x = s
    BY <1>10, <2>2 DEF OnItsOwn
  <2>4. ASSUME req'[s].step \in {"opened", "written"}
        PROVE  /\ req'[s] = req[s] /\ names'[TmpOf(other)] = names[TmpOf(other)]
               /\ names[TmpOf(other)] # None => names[TmpOf(other)] # names[file]
    <3>1. s \in Requests
      BY DEF UnderWay
    <3>2. req'[s] = req[s] /\ s # r
      BY <1>7, <2>4, <3>1
    <3>3. other # file
      BY <1>3, <2>2, <3>2 DEF OnItsOwn
    <3>4. TmpOf(other) \in FileNames /\ TmpOf(other) # tmp /\ TmpOf(other) # file
      BY <1>4, <3>3 DEF TmpOf, FileNames
    <3> QED
      BY <1>3, <1>5, <1>6, <3>2, <3>4 DEF DiskTypes
  <2>5. ASSUME req'[s].step = "opened"
        PROVE  req'[s].fd = names'[TmpOf(other)] /\ inode'[req'[s].fd] = Torn
    <3>1. s \in Requests
      BY DEF UnderWay
    <3>2. /\ req[s].fd = names[TmpOf(other)] /\ inode[req[s].fd] = Torn
          /\ req[s].fd \in Files
      BY <1>3, <2>2, <2>4, <2>5, <3>1 DEF OnItsOwn, ReqTypes, RequestOK
    <3> QED
      BY <1>6, <2>4, <2>5, <3>2
  <2>6. ASSUME req'[s].step = "written"
        PROVE  names'[TmpOf(other)] # None /\ inode'[names'[TmpOf(other)]] = req'[s].copy
    <3>1. names[TmpOf(other)] # None /\ inode[names[TmpOf(other)]] = req[s].copy
      BY <2>2, <2>4, <2>6 DEF OnItsOwn
    <3>2. names[TmpOf(other)] \in Files
      BY <1>5, <3>1, Pairs
    <3> QED
      BY <1>6, <2>4, <2>6, <3>1, <3>2
  <2> QED
    BY <2>3, <2>5, <2>6 DEF OnItsOwn
<1>13. Undisturbed("state")' /\ Undisturbed("ini")'
  <2>1. ASSUME NEW other \in {"state", "ini"} PROVE Undisturbed(other)'
    <3>1. Undisturbed(other)
      BY <1>3
    <3> QED
      BY <1>12, <3>1 DEF Undisturbed
  <2> QED
    BY <2>1
<1> QED
  BY <1>8, <1>9, <1>11, <1>13 DEF FilesInv

-----------------------------------------------------------------------------
Adds    == {"addGroup", "addChannel", "addRule"}
Updates == {"updateGroup", "updateChannel", "updateRule"}
Deletes == {"deleteGroup", "deleteChannel", "deleteRule"}

(* What the edits make of a State.                                         *)

LEMMA ElementsRetained ==
    ASSUME NEW T, NEW list \in Seq(T), NEW S
    PROVE  Retain(list, S) \in Seq(T) /\ ToSet(Retain(list, S)) = ToSet(list) \cap S
<1> DEFINE r == Retain(list, S)
<1>1. r \in Seq(T) /\ Len(r) \in Nat /\ Len(list) \in Nat
  BY RetainPicks
<1>2. PICK g : Picks(g, r, list, S, Len(list))
  BY RetainPicks, Zenon
<1> HIDE DEF r
<1>3. ASSUME NEW i \in 1 .. Len(r) PROVE r[i] \in ToSet(list) \cap S
  <2>1. g[i] \in 1 .. Len(list) /\ r[i] = list[g[i]] /\ list[g[i]] \in S
    BY <1>2 DEF Picks
  <2> QED
    BY <2>1 DEF ToSet
<1>4. ASSUME NEW k \in 1 .. Len(list), list[k] \in S PROVE list[k] \in ToSet(r)
  <2>1. PICK i \in 1 .. Len(r) : g[i] = k
    BY <1>2, <1>4 DEF Picks
  <2>2. r[i] = list[k]
    BY <1>2, <2>1 DEF Picks
  <2> QED
    BY <1>1, <2>1, <2>2 DEF ToSet
<1>5. DOMAIN r = 1 .. Len(r) /\ DOMAIN list = 1 .. Len(list)
  BY <1>1
<1>6. ToSet(r) = ToSet(list) \cap S
  BY <1>3, <1>4, <1>5 DEF ToSet
<1> QED
  BY <1>1, <1>6 DEF r

LEMMA ElementsAppended ==
    ASSUME NEW T, NEW list \in Seq(T), NEW x \in T
    PROVE  Append(list, x) \in Seq(T) /\ ToSet(Append(list, x)) = ToSet(list) \cup {x}
<1> DEFINE q == Append(list, x)
<1>1. /\ q \in Seq(T) /\ Len(q) = Len(list) + 1 /\ q[Len(list) + 1] = x
      /\ \A i \in 1 .. Len(list) : q[i] = list[i]
      /\ DOMAIN q = 1 .. Len(list) + 1 /\ DOMAIN list = 1 .. Len(list) /\ Len(list) \in Nat
  OBVIOUS
<1> HIDE DEF q
<1>2. \A i \in 1 .. Len(list) + 1 : i \in 1 .. Len(list) \/ i = Len(list) + 1
  BY <1>1
<1>3. ToSet(q) = ToSet(list) \cup {x}
  BY <1>1, <1>2 DEF ToSet
<1> QED
  BY <1>1, <1>3 DEF q

LEMMA ElementsJoined ==
    ASSUME NEW T, NEW a \in Seq(T), NEW b \in Seq(T)
    PROVE  a \o b \in Seq(T) /\ ToSet(a \o b) = ToSet(a) \cup ToSet(b)
<1> DEFINE q == a \o b
<1>1. /\ q \in Seq(T) /\ Len(q) = Len(a) + Len(b)
      /\ \A i \in 1 .. Len(a) : q[i] = a[i]
      /\ \A i \in 1 .. Len(b) : q[Len(a) + i] = b[i]
      /\ DOMAIN q = 1 .. Len(q) /\ DOMAIN a = 1 .. Len(a) /\ DOMAIN b = 1 .. Len(b)
      /\ Len(a) \in Nat /\ Len(b) \in Nat
  OBVIOUS
<1> HIDE DEF q
<1>2. ASSUME NEW i \in 1 .. Len(q) PROVE q[i] \in ToSet(a) \cup ToSet(b)
  <2>1. CASE i <= Len(a)
    <3>1. i \in 1 .. Len(a) /\ q[i] = a[i]
      BY <1>1, <2>1
    <3> QED
      BY <1>1, <3>1 DEF ToSet
  <2>2. CASE i > Len(a)
    <3>1. i - Len(a) \in 1 .. Len(b) /\ Len(a) + (i - Len(a)) = i
      BY <1>1, <2>2
    <3>2. q[i] = b[i - Len(a)]
      BY <1>1, <3>1
    <3> QED
      BY <1>1, <3>1, <3>2 DEF ToSet
  <2> QED
    BY <1>1, <2>1, <2>2
<1>3. ASSUME NEW i \in 1 .. Len(b) PROVE b[i] \in ToSet(q)
  <2>1. Len(a) + i \in 1 .. Len(q) /\ q[Len(a) + i] = b[i]
    BY <1>1
  <2> QED
    BY <1>1, <2>1 DEF ToSet
<1>4. ASSUME NEW i \in 1 .. Len(a) PROVE a[i] \in ToSet(q)
  <2>1. i \in 1 .. Len(q) /\ q[i] = a[i]
    BY <1>1
  <2> QED
    BY <1>1, <2>1 DEF ToSet
<1>5. ToSet(q) = ToSet(a) \cup ToSet(b)
  BY <1>1, <1>2, <1>3, <1>4 DEF ToSet
<1> QED
  BY <1>1, <1>5 DEF q

LEMMA ElementsOf ==
    ASSUME NEW T, NEW list \in Seq(T)
    PROVE  \A x \in ToSet(list) : x \in T
BY DEF ToSet

LEMMA ElementsKept ==
    ASSUME NEW list \in Seq(Items), NEW id
    PROVE  /\ Only(list, id) \in Seq(Items)
           /\ ToSet(Only(list, id)) = {x \in ToSet(list) : x.id = id}
           /\ Without(list, id) \in Seq(Items)
           /\ ToSet(Without(list, id)) = {x \in ToSet(list) : x.id # id}
<1> DEFINE S == {x \in ToSet(list) : x.id = id}
           R == {x \in ToSet(list) : x.id # id}
<1>1. Only(list, id) \in Seq(Items) /\ ToSet(Only(list, id)) = ToSet(list) \cap S
  BY ElementsRetained DEF Only
<1>2. Without(list, id) \in Seq(Items) /\ ToSet(Without(list, id)) = ToSet(list) \cap R
  BY ElementsRetained DEF Without
<1> QED
  BY <1>1, <1>2

(* The same list, with each element replaced by another.                   *)
LEMMA ElementsReplaced ==
    ASSUME NEW T, NEW list \in Seq(T), NEW new, DOMAIN new = DOMAIN list,
           new = [k \in DOMAIN list |-> new[k]], \A k \in DOMAIN list : new[k] \in T
    PROVE  new \in Seq(T)
<1>1. Len(list) \in Nat /\ DOMAIN list = 1 .. Len(list)
  OBVIOUS
<1>2. new \in [1 .. Len(list) -> T]
  BY <1>1
<1> QED
  BY <1>1, <1>2

(* One of the lists is replaced, or what is no list.                       *)
LEMMA ListSet ==
    ASSUME NEW s \in States, NEW list \in ListNames, NEW v \in Seq(Items)
    PROVE  /\ [s EXCEPT ![list] = v] \in States
           /\ \A l \in ListNames : [s EXCEPT ![list] = v][l] = IF l = list THEN v ELSE s[l]
           /\ [s EXCEPT ![list] = v].access = s.access
           /\ [s EXCEPT ![list] = v].nextId = s.nextId
BY DEF States, ListNames

LEMMA NextIdSet ==
    ASSUME NEW s \in States, NEW v \in Nat \ {0}
    PROVE  /\ [s EXCEPT !.nextId = v] \in States
           /\ \A l \in ListNames : [s EXCEPT !.nextId = v][l] = s[l]
           /\ [s EXCEPT !.nextId = v].access = s.access
           /\ [s EXCEPT !.nextId = v].nextId = v
BY DEF States, ListNames

LEMMA AccessSet ==
    ASSUME NEW s \in States, NEW r \in Requests
    PROVE  /\ [s EXCEPT !.access = r] \in States
           /\ \A l \in ListNames : [s EXCEPT !.access = r][l] = s[l]
           /\ [s EXCEPT !.access = r].access = r
           /\ [s EXCEPT !.access = r].nextId = s.nextId
BY DEF States, ListNames

LEMMA ListTypes ==
    ASSUME NEW s \in States, NEW list \in ListNames
    PROVE  /\ s[list] \in Seq(Items) /\ s.nextId \in Nat \ {0}
           /\ \A x \in ToSet(s[list]) : x \in Items
<1>1. s[list] \in Seq(Items) /\ s.nextId \in Nat \ {0}
  BY DEF States, ListNames
<1> QED
  BY <1>1, ElementsOf

LEMMA IdsOf ==
    ASSUME NEW list PROVE Ids(list) = {x.id : x \in ToSet(list)}
BY DEF Ids, ToSet

(* An item that is written anew keeps its id.                              *)
Rewritten(x, s, r, id, uses) == IF x.id = id THEN Item(s, id, r, uses) ELSE x

(* Of what was given out, an item written now names only what is there, or *)
(* its history says that it does not.                                      *)
Alive(x) == x.uses \ x.dead
Named(s, x) == \A u \in Alive(x) : u \in Ids(s.channels) \/ ~ (u < s.nextId)

LEMMA ItemFacts ==
    ASSUME NEW s, NEW id \in Nat \ {0}, NEW r \in Requests, NEW uses \in SUBSET Nat
    PROVE  /\ Item(s, id, r, uses) \in Items
           /\ Item(s, id, r, uses).id = id /\ Item(s, id, r, uses).by = r
           /\ Named(s, Item(s, id, r, uses))
<1>1. Dead(s, uses) \in SUBSET Nat
  BY DEF Dead
<1>2. /\ Item(s, id, r, uses) \in Items
      /\ Item(s, id, r, uses).id = id /\ Item(s, id, r, uses).by = r
      /\ Item(s, id, r, uses).uses = uses /\ Item(s, id, r, uses).dead = Dead(s, uses)
  BY <1>1 DEF Item, Items
<1> QED
  BY <1>2 DEF Named, Alive, Dead

(* A rule that loses a channel.                                            *)
Unused(x, id) == [x EXCEPT !.uses = @ \ {id}]

(* What becomes of the lists.                                              *)
Added(s, t, r, list) ==
    \E x \in Items :
        /\ x.id = s.nextId /\ x.by = r /\ Named(s, x)
        /\ \A l \in ListNames : ToSet(t[l]) = IF l = list THEN ToSet(s[l]) \cup {x} ELSE ToSet(s[l])

Updated(s, t, r, list, id, uses) ==
    \A l \in ListNames : ToSet(t[l]) =
        IF l = list THEN {Rewritten(x, s, r, id, uses) : x \in ToSet(s[l])} ELSE ToSet(s[l])

Deleted(s, t, list, id) ==
    \A l \in ListNames : ToSet(t[l]) =
        IF l = list THEN {x \in ToSet(s[l]) : x.id # id}
        ELSE IF l = "rules" /\ list = "channels" THEN {Unused(x, id) : x \in ToSet(s[l])}
        ELSE ToSet(s[l])

Unchanged(s, t) == \A l \in ListNames : ToSet(t[l]) = ToSet(s[l])

LEMMA AddFacts ==
    ASSUME NEW s, IsState(s), NEW r \in Requests, NEW list \in ListNames,
           NEW uses \in SUBSET Nat
    PROVE  /\ IsState(Add(s, r, list, uses))
           /\ Added(s, Add(s, r, list, uses), r, list)
           /\ Add(s, r, list, uses).nextId = s.nextId + 1
           /\ Add(s, r, list, uses).access = s.access
<1> DEFINE x == Item(s, TakeId(s), r, uses)
           v == Append(s[list], x)
           t == [s EXCEPT ![list] = v]
           u == [t EXCEPT !.nextId = s.nextId + 1]
<1>1. s \in States /\ s[list] \in Seq(Items) /\ s.nextId \in Nat \ {0}
  BY ListTypes DEF IsState
<1>2. TakeId(s) = s.nextId
  BY DEF TakeId
<1>3. x \in Items /\ x.id = s.nextId /\ x.by = r /\ Named(s, x)
  BY <1>1, <1>2, ItemFacts
<1>4. Add(s, r, list, uses) = u
  BY DEF Add, TakeId
<1> HIDE DEF x
<1>5. v \in Seq(Items) /\ ToSet(v) = ToSet(s[list]) \cup {x}
  BY <1>1, <1>3, ElementsAppended
<1> HIDE DEF v
<1>6. /\ t \in States /\ \A l \in ListNames : t[l] = IF l = list THEN v ELSE s[l]
      /\ t.access = s.access
  BY <1>1, <1>5, ListSet
<1> HIDE DEF t
<1>7. /\ u \in States /\ \A l \in ListNames : u[l] = IF l = list THEN v ELSE s[l]
      /\ u.access = s.access /\ u.nextId = s.nextId + 1
  <2>1. s.nextId + 1 \in Nat \ {0}
    BY <1>1
  <2> QED
    BY <1>6, <2>1, NextIdSet
<1> HIDE DEF u
<1>8. ASSUME NEW l \in ListNames, NEW y \in ToSet(u[l]) PROVE y.id < u.nextId
  <2>1. y \in ToSet(s[l]) \/ y = x
    BY <1>5, <1>7, <1>8
  <2>2. CASE y \in ToSet(s[l])
    <3>1. y.id < s.nextId /\ y \in Items
      BY <1>1, <2>2, ListTypes DEF IsState
    <3> QED
      BY <1>1, <1>7, <3>1 DEF Items
  <2>3. CASE y = x
    BY <1>1, <1>3, <1>7, <2>3
  <2> QED
    BY <2>1, <2>2, <2>3
<1>9. IsState(u)
  BY <1>7, <1>8 DEF IsState
<1>10. \A l \in ListNames : ToSet(u[l]) = IF l = list THEN ToSet(s[l]) \cup {x} ELSE ToSet(s[l])
  BY <1>5, <1>7
<1>11. Added(s, u, r, list)
  BY <1>3, <1>10 DEF Added
<1> QED
  BY <1>4, <1>7, <1>9, <1>11

LEMMA UpdateFacts ==
    ASSUME NEW s, IsState(s), NEW r \in Requests, NEW list \in ListNames, NEW id,
           NEW uses \in SUBSET Nat
    PROVE  /\ IsState(Update(s, r, list, id, uses))
           /\ Updated(s, Update(s, r, list, id, uses), r, list, id, uses)
           /\ Update(s, r, list, id, uses).nextId = s.nextId
           /\ Update(s, r, list, id, uses).access = s.access
<1> DEFINE v == [k \in DOMAIN s[list] |-> Rewritten(s[list][k], s, r, id, uses)]
           t == [s EXCEPT ![list] = v]
<1>1. s \in States /\ s[list] \in Seq(Items)
  BY ListTypes DEF IsState
<1>2. ASSUME NEW x \in Items
      PROVE  /\ Rewritten(x, s, r, id, uses) \in Items
             /\ Rewritten(x, s, r, id, uses).id = x.id
  <2>1. x.id \in Nat \ {0}
    BY DEF Items
  <2>2. CASE x.id = id
    BY <2>1, <2>2, ItemFacts DEF Rewritten
  <2>3. CASE x.id # id
    BY <2>3 DEF Rewritten
  <2> QED
    BY <2>2, <2>3
<1>3. Update(s, r, list, id, uses) = t
  BY DEF Update, Rewritten
<1>4. v \in Seq(Items)
  <2>1. \A k \in DOMAIN s[list] : s[list][k] \in Items
    BY <1>1
  <2>2. \A k \in DOMAIN s[list] : v[k] \in Items
    BY <1>2, <2>1
  <2>3. DOMAIN v = DOMAIN s[list] /\ v = [k \in DOMAIN s[list] |-> v[k]]
    OBVIOUS
  <2> HIDE DEF v
  <2> QED
    BY <1>1, <2>2, <2>3, ElementsReplaced
<1>5. ToSet(v) = {Rewritten(x, s, r, id, uses) : x \in ToSet(s[list])}
  BY DEF ToSet
<1> HIDE DEF v
<1>6. /\ t \in States /\ \A l \in ListNames : t[l] = IF l = list THEN v ELSE s[l]
      /\ t.access = s.access /\ t.nextId = s.nextId
  BY <1>1, <1>4, ListSet
<1> HIDE DEF t
<1>7. ASSUME NEW l \in ListNames, NEW y \in ToSet(t[l]) PROVE y.id < t.nextId
  <2>1. PICK x \in ToSet(s[l]) : y = x \/ y = Rewritten(x, s, r, id, uses)
    BY <1>5, <1>6
  <2>2. x \in Items /\ x.id < s.nextId
    BY <1>1, ListTypes DEF IsState
  <2> QED
    BY <1>2, <1>6, <2>1, <2>2
<1>8. IsState(t)
  BY <1>6, <1>7 DEF IsState
<1>9. Updated(s, t, r, list, id, uses)
  BY <1>5, <1>6 DEF Updated
<1> QED
  BY <1>3, <1>6, <1>8, <1>9

LEMMA DeleteFacts ==
    ASSUME NEW s, IsState(s), NEW list \in ListNames, NEW id
    PROVE  /\ IsState(Delete(s, list, id))
           /\ Deleted(s, Delete(s, list, id), list, id)
           /\ Delete(s, list, id).nextId = s.nextId
           /\ Delete(s, list, id).access = s.access
<1> DEFINE v == Without(s[list], id)
           t == [s EXCEPT ![list] = v]
           w == [k \in DOMAIN t.rules |-> Unused(t.rules[k], id)]
           u == [t EXCEPT !.rules = w]
<1>1. s \in States /\ s[list] \in Seq(Items)
  BY ListTypes DEF IsState
<1>2. v \in Seq(Items) /\ ToSet(v) = {x \in ToSet(s[list]) : x.id # id}
  BY <1>1, ElementsKept
<1>3. Delete(s, list, id) = IF list # "channels" THEN t ELSE u
  BY DEF Delete, Unused
<1> HIDE DEF v
<1>4. /\ t \in States /\ \A l \in ListNames : t[l] = IF l = list THEN v ELSE s[l]
      /\ t.access = s.access /\ t.nextId = s.nextId
  BY <1>1, <1>2, ListSet
<1> HIDE DEF t
<1>5. ASSUME NEW l \in ListNames, NEW y \in ToSet(t[l]) PROVE y.id < t.nextId
  <2>1. y \in ToSet(s[l])
    BY <1>2, <1>4
  <2> QED
    BY <1>4, <2>1 DEF IsState
<1>6. IsState(t)
  BY <1>4, <1>5 DEF IsState
<1>7. t.rules \in Seq(Items) /\ "rules" \in ListNames
  BY <1>4, ListTypes DEF ListNames
<1>8. w \in Seq(Items)
  <2>1. \A x \in Items : Unused(x, id) \in Items
    BY DEF Unused, Items
  <2>2. \A k \in DOMAIN t.rules : t.rules[k] \in Items
    BY <1>7
  <2>3. \A k \in DOMAIN t.rules : w[k] \in Items
    BY <2>1, <2>2
  <2>4. DOMAIN w = DOMAIN t.rules /\ w = [k \in DOMAIN t.rules |-> w[k]]
    OBVIOUS
  <2> HIDE DEF w
  <2> QED
    BY <1>7, <2>3, <2>4, ElementsReplaced
<1>9. ToSet(w) = {Unused(x, id) : x \in ToSet(t.rules)}
  BY DEF ToSet
<1> HIDE DEF w
<1>10. /\ u \in States /\ \A l \in ListNames : u[l] = IF l = "rules" THEN w ELSE t[l]
       /\ u.access = t.access /\ u.nextId = t.nextId
  BY <1>4, <1>8 DEF States, ListNames
<1> HIDE DEF u
<1>11. ASSUME NEW l \in ListNames, NEW y \in ToSet(u[l]) PROVE y.id < u.nextId
  <2>1. PICK x \in ToSet(t[l]) : y = x \/ y = Unused(x, id)
    BY <1>9, <1>10
  <2>2. x \in Items /\ x.id < t.nextId
    BY <1>4, <1>5, ListTypes
  <2>3. y.id = x.id
    BY <2>1, <2>2 DEF Unused, Items
  <2> QED
    BY <1>10, <2>2, <2>3
<1>12. IsState(u)
  BY <1>10, <1>11 DEF IsState
<1>13. CASE list # "channels"
  <2>1. Deleted(s, t, list, id)
    BY <1>2, <1>4, <1>13 DEF Deleted
  <2> QED
    BY <1>3, <1>4, <1>6, <1>13, <2>1
<1>14. CASE list = "channels"
  <2>1. t["rules"] = s["rules"]
    BY <1>4, <1>7, <1>14
  <2>2. \A l \in ListNames : l = "channels" \/ l = "rules" \/ l = "groups"
    BY DEF ListNames
  <2>3. Deleted(s, u, list, id)
    BY <1>2, <1>4, <1>9, <1>10, <1>14, <2>1, <2>2 DEF Deleted
  <2> QED
    BY <1>3, <1>4, <1>10, <1>12, <1>14, <2>3
<1> QED
  BY <1>13, <1>14

LEMMA ReorderFacts ==
    ASSUME NEW s, IsState(s), NEW id
    PROVE  /\ IsState(Reorder(s, id))
           /\ Unchanged(s, Reorder(s, id))
           /\ Reorder(s, id).nextId = s.nextId
           /\ Reorder(s, id).access = s.access
<1> DEFINE v == Only(s["groups"], id) \o Without(s["groups"], id)
           t == [s EXCEPT !["groups"] = v]
<1>1. s \in States /\ "groups" \in ListNames /\ s["groups"] \in Seq(Items)
  BY ListTypes DEF IsState, ListNames
<1>2. Reorder(s, id) = t
  BY DEF Reorder
<1>3. v \in Seq(Items) /\ ToSet(v) = ToSet(s["groups"])
  <2> DEFINE a == Only(s["groups"], id)
             b == Without(s["groups"], id)
  <2>1. /\ a \in Seq(Items) /\ ToSet(a) = {x \in ToSet(s["groups"]) : x.id = id}
        /\ b \in Seq(Items) /\ ToSet(b) = {x \in ToSet(s["groups"]) : x.id # id}
    BY <1>1, ElementsKept
  <2> HIDE DEF a, b
  <2>2. a \o b \in Seq(Items) /\ ToSet(a \o b) = ToSet(a) \cup ToSet(b)
    BY <2>1, ElementsJoined
  <2> QED
    BY <2>1, <2>2 DEF a, b
<1> HIDE DEF v
<1>4. /\ t \in States /\ \A l \in ListNames : t[l] = IF l = "groups" THEN v ELSE s[l]
      /\ t.access = s.access /\ t.nextId = s.nextId
  BY <1>1, <1>3, ListSet
<1> HIDE DEF t
<1>5. \A l \in ListNames : ToSet(t[l]) = ToSet(s[l])
  BY <1>3, <1>4
<1>6. IsState(t)
  BY <1>4, <1>5 DEF IsState
<1> QED
  BY <1>2, <1>4, <1>5, <1>6 DEF Unchanged

LEMMA EditKinds ==
    ASSUME NEW s, NEW r, NEW id, NEW kind \in Saves, NEW uses
    PROVE  /\ kind \in Adds \cup Updates \cup Deletes => ListOf(kind) \in ListNames
           /\ kind \in Adds => Edited(s, r, kind, id, uses) = Add(s, r, ListOf(kind), uses)
           /\ kind \in Updates => Edited(s, r, kind, id, uses) = Update(s, r, ListOf(kind), id, uses)
           /\ kind \in Deletes => Edited(s, r, kind, id, uses) = Delete(s, ListOf(kind), id)
           /\ kind = "reorder" => Edited(s, r, kind, id, uses) = Reorder(s, id)
           /\ kind = "putAccess" => Edited(s, r, kind, id, uses) = [s EXCEPT !.access = r]
           /\ kind \in Adds \cup Updates \cup Deletes \cup {"reorder", "putAccess"}
<1>1. kind \in Adds \cup Updates \cup Deletes \cup {"reorder", "putAccess"}
  BY DEF Saves, Adds, Updates, Deletes
<1>2. kind \in Adds \cup Updates \cup Deletes => ListOf(kind) \in ListNames
  BY DEF Adds, Updates, Deletes, ListOf, ListNames
<1>3. CASE kind \in Adds
  BY <1>2, <1>3 DEF Edited, Adds, Updates, Deletes
<1>4. CASE kind \in Updates
  BY <1>2, <1>4 DEF Edited, Adds, Updates, Deletes
<1>5. CASE kind \in Deletes
  BY <1>2, <1>5 DEF Edited, Adds, Updates, Deletes
<1>6. CASE kind = "reorder"
  BY <1>6 DEF Edited, Adds, Updates, Deletes
<1>7. CASE kind = "putAccess"
  BY <1>7 DEF Edited, Adds, Updates, Deletes
<1> QED
  BY <1>1, <1>3, <1>4, <1>5, <1>6, <1>7

LEMMA AccessFacts ==
    ASSUME NEW s, IsState(s), NEW r \in Requests
    PROVE  /\ IsState([s EXCEPT !.access = r])
           /\ Unchanged(s, [s EXCEPT !.access = r])
           /\ [s EXCEPT !.access = r].nextId = s.nextId
           /\ [s EXCEPT !.access = r].access = r
<1> DEFINE t == [s EXCEPT !.access = r]
<1>1. /\ t \in States /\ \A l \in ListNames : t[l] = s[l]
      /\ t.access = r /\ t.nextId = s.nextId
  BY AccessSet DEF IsState
<1> HIDE DEF t
<1>2. IsState(t)
  BY <1>1 DEF IsState
<1>3. Unchanged(s, t)
  BY <1>1 DEF Unchanged
<1> QED
  BY <1>1, <1>2, <1>3 DEF t

(* All this, by the kind of the edit.                                      *)
MadeOf(s, t, r, kind, id, uses) ==
    /\ kind \in Adds \cup Updates \cup Deletes \cup {"reorder", "putAccess"}
    /\ kind \in Adds \cup Updates \cup Deletes => ListOf(kind) \in ListNames
    /\ t.nextId = IF kind \in Adds THEN s.nextId + 1 ELSE s.nextId
    /\ t.access = IF kind = "putAccess" THEN r ELSE s.access
    /\ kind \in Adds => Added(s, t, r, ListOf(kind))
    /\ kind \in Updates => Updated(s, t, r, ListOf(kind), id, uses)
    /\ kind \in Deletes => Deleted(s, t, ListOf(kind), id)
    /\ kind \in {"reorder", "putAccess"} => Unchanged(s, t)

LEMMA EditFacts ==
    ASSUME NEW s, IsState(s), NEW r \in Requests, NEW kind \in Saves, NEW id,
           NEW uses \in SUBSET Nat
    PROVE  /\ IsState(Edited(s, r, kind, id, uses))
           /\ MadeOf(s, Edited(s, r, kind, id, uses), r, kind, id, uses)
<1> DEFINE t == Edited(s, r, kind, id, uses)
<1>1. /\ kind \in Adds \cup Updates \cup Deletes \cup {"reorder", "putAccess"}
      /\ kind \in Adds \cup Updates \cup Deletes => ListOf(kind) \in ListNames
  BY EditKinds
<1>2. CASE kind \in Adds
  <2>1. t = Add(s, r, ListOf(kind), uses) /\ ListOf(kind) \in ListNames
    BY <1>1, <1>2, EditKinds
  <2> HIDE DEF t
  <2>2. IsState(t) /\ Added(s, t, r, ListOf(kind)) /\ t.nextId = s.nextId + 1 /\ t.access = s.access
    BY <2>1, AddFacts
  <2> QED
    BY <1>1, <1>2, <2>2 DEF Adds, Updates, Deletes, MadeOf, t
<1>3. CASE kind \in Updates
  <2>1. t = Update(s, r, ListOf(kind), id, uses) /\ ListOf(kind) \in ListNames
    BY <1>1, <1>3, EditKinds
  <2> HIDE DEF t
  <2>2. IsState(t) /\ Updated(s, t, r, ListOf(kind), id, uses) /\ t.nextId = s.nextId /\ t.access = s.access
    BY <2>1, UpdateFacts
  <2> QED
    BY <1>1, <1>3, <2>2 DEF Adds, Updates, Deletes, MadeOf, t
<1>4. CASE kind \in Deletes
  <2>1. t = Delete(s, ListOf(kind), id) /\ ListOf(kind) \in ListNames
    BY <1>1, <1>4, EditKinds
  <2> HIDE DEF t
  <2>2. IsState(t) /\ Deleted(s, t, ListOf(kind), id) /\ t.nextId = s.nextId /\ t.access = s.access
    BY <2>1, DeleteFacts
  <2> QED
    BY <1>1, <1>4, <2>2 DEF Adds, Updates, Deletes, MadeOf, t
<1>5. CASE kind = "reorder"
  <2>1. t = Reorder(s, id)
    BY <1>5, EditKinds
  <2> HIDE DEF t
  <2>2. IsState(t) /\ Unchanged(s, t) /\ t.nextId = s.nextId /\ t.access = s.access
    BY <2>1, ReorderFacts
  <2> QED
    BY <1>1, <1>5, <2>2 DEF Adds, Updates, Deletes, MadeOf, t
<1>6. CASE kind = "putAccess"
  <2>1. t = [s EXCEPT !.access = r]
    BY <1>6, EditKinds
  <2> HIDE DEF t
  <2>2. IsState(t) /\ Unchanged(s, t) /\ t.nextId = s.nextId /\ t.access = r
    BY <2>1, AccessFacts
  <2> QED
    BY <1>1, <1>6, <2>2 DEF Adds, Updates, Deletes, MadeOf, t
<1> QED
  BY <1>1, <1>2, <1>3, <1>4, <1>5, <1>6

(* No edit takes a group away but the one that deletes it.                 *)
LEMMA EditedGroups ==
    ASSUME NEW s, IsState(s), NEW r \in Requests, NEW kind \in Saves, NEW id, NEW uses,
           NEW t, MadeOf(s, t, r, kind, id, uses)
    PROVE  Ids(s.groups) \subseteq Ids(t.groups) \cup (IF kind = "deleteGroup" THEN {id} ELSE {})
<1> SUFFICES ASSUME NEW x \in ToSet(s["groups"]), kind = "deleteGroup" => x.id # id
             PROVE  \E y \in ToSet(t["groups"]) : y.id = x.id
  BY IdsOf
<1>1. "groups" \in ListNames /\ x \in Items
  BY ListTypes DEF IsState, ListNames
<1>2. CASE kind \in Adds
  BY <1>1, <1>2 DEF MadeOf, Added
<1>3. CASE kind \in Updates
  <2>1. \/ x \in ToSet(t["groups"])
        \/ Rewritten(x, s, r, id, uses) \in ToSet(t["groups"])
    BY <1>1, <1>3 DEF MadeOf, Updated
  <2>2. Rewritten(x, s, r, id, uses).id = x.id
    BY <1>1 DEF Rewritten, Item, Items
  <2> QED
    BY <2>1, <2>2
<1>4. CASE kind \in Deletes
  <2>1. ListOf(kind) = "groups" => kind = "deleteGroup"
    BY <1>4 DEF Deletes, ListOf
  <2>2. x \in ToSet(t["groups"])
    BY <1>1, <1>4, <2>1 DEF MadeOf, Deleted
  <2> QED
    BY <2>2
<1>5. CASE kind \in {"reorder", "putAccess"}
  BY <1>1, <1>5 DEF MadeOf, Unchanged
<1> QED
  BY <1>2, <1>3, <1>4, <1>5 DEF MadeOf

-----------------------------------------------------------------------------
(* What an edit leaves to be seen, and what takes that away.               *)

Shown(s, kind, id, r) ==
    /\ kind \in Adds \cup Updates => \E x \in ToSet(s[ListOf(kind)]) : x.by = r
    /\ kind \in Deletes => id < s.nextId /\ \A x \in ToSet(s[ListOf(kind)]) : x.id # id
    /\ kind = "deleteChannel" => \A x \in ToSet(s["rules"]) : id \notin Alive(x)
    /\ kind = "putAccess" => s.access = r

LEMMA EditShown ==
    ASSUME NEW s, IsState(s), NEW r \in Requests, NEW kind \in Saves, NEW id,
           kind \in OnAnItem => id \in Ids(s[ListOf(kind)]),
           NEW uses, NEW t, MadeOf(s, t, r, kind, id, uses)
    PROVE  Shown(t, kind, id, r)
<1>1. CASE kind \in Adds
  <2>1. \E x \in ToSet(t[ListOf(kind)]) : x.by = r
    BY <1>1 DEF MadeOf, Added
  <2> QED
    BY <1>1, <2>1 DEF Shown, Adds, Deletes
<1>2. CASE kind \in Updates
  <2>1. ListOf(kind) \in ListNames /\ kind \in OnAnItem
    BY <1>2 DEF MadeOf, Updated, Updates, OnAnItem
  <2>2. PICK x \in ToSet(s[ListOf(kind)]) : x.id = id
    BY <2>1, IdsOf
  <2>3. Rewritten(x, s, r, id, uses) \in ToSet(t[ListOf(kind)])
    BY <1>2, <2>1 DEF MadeOf, Updated
  <2>4. Rewritten(x, s, r, id, uses).by = r
    BY <2>2, SMT DEF Rewritten, Item
  <2> QED
    BY <1>2, <2>3, <2>4 DEF Shown, Updates, Deletes
<1>3. CASE kind \in Deletes
  <2>1. ListOf(kind) \in ListNames /\ kind \in OnAnItem
    BY <1>3 DEF MadeOf, Deleted, Deletes, OnAnItem
  <2>2. id < s.nextId
    <3>1. PICK x \in ToSet(s[ListOf(kind)]) : x.id = id
      BY <2>1, IdsOf
    <3> QED
      BY <2>1, <3>1 DEF IsState
  <2>3. t.nextId = s.nextId
    BY <1>3 DEF MadeOf, Deleted, Adds, Deletes
  <2>4. \A x \in ToSet(t[ListOf(kind)]) : x.id # id
    BY <1>3, <2>1 DEF MadeOf, Deleted
  <2>5. ASSUME kind = "deleteChannel", NEW x \in ToSet(t["rules"]) PROVE id \notin Alive(x)
    <3>1. ListOf(kind) = "channels" /\ "rules" \in ListNames
      BY <2>5 DEF ListOf, ListNames
    <3>2. PICK y \in ToSet(s["rules"]) : x = Unused(y, id)
      <4>1. Deleted(s, t, "channels", id)
        BY <1>3, <3>1 DEF MadeOf
      <4>2. ToSet(t["rules"]) = {Unused(y, id) : y \in ToSet(s["rules"])}
        BY <3>1, <4>1 DEF Deleted
      <4> QED
        BY <2>5, <4>2
    <3>3. y \in Items
      BY <3>1, ListTypes DEF IsState
    <3> QED
      BY <3>2, <3>3 DEF Unused, Items, Alive
  <2> QED
    BY <1>3, <2>2, <2>3, <2>4, <2>5 DEF Shown, Adds, Updates, Deletes
<1>4. CASE kind = "reorder"
  BY <1>4 DEF Shown, Adds, Updates, Deletes
<1>5. CASE kind = "putAccess"
  <2>1. t.access = r
    BY <1>5 DEF MadeOf
  <2> QED
    BY <1>5, <2>1 DEF Shown, Adds, Updates, Deletes
<1> QED
  BY <1>1, <1>2, <1>3, <1>4, <1>5 DEF MadeOf

(* What Undoes says, of any State.                                         *)
UndoneIn(s, kind, id) ==
    CASE kind \in OnAnItem -> {x.by : x \in {y \in ToSet(s[ListOf(kind)]) : y.id = id}}
      [] kind = "putAccess" -> {s.access} \ {None}
      [] OTHER -> {}

(* What an item is after an edit that does not undo it.                    *)
LEMMA ItemKept ==
    ASSUME NEW s, IsState(s), NEW r \in Requests, NEW kind \in Saves, NEW id, NEW uses,
           NEW t, MadeOf(s, t, r, kind, id, uses),
           NEW l \in ListNames, NEW x \in ToSet(s[l]), x.by \notin UndoneIn(s, kind, id)
    PROVE  \E y \in ToSet(t[l]) : y.by = x.by
<1>1. x \in Items
  BY ListTypes DEF IsState
<1>2. kind \in Updates \cup Deletes /\ l = ListOf(kind) => x.id # id
  BY DEF UndoneIn, OnAnItem, Updates, Deletes
<1>3. CASE kind \in Adds
  <2>1. x \in ToSet(t[l])
    BY <1>3 DEF MadeOf, Added
  <2> QED
    BY <2>1
<1>4. CASE kind \in Updates
  <2>1. l = ListOf(kind) => Rewritten(x, s, r, id, uses) = x
    BY <1>2, <1>4 DEF Rewritten
  <2>2. x \in ToSet(t[l])
    BY <1>4, <2>1 DEF MadeOf, Updated
  <2> QED
    BY <2>2
<1>5. CASE kind \in Deletes
  <2>1. x \in ToSet(t[l]) \/ Unused(x, id) \in ToSet(t[l])
    BY <1>2, <1>5 DEF MadeOf, Deleted
  <2>2. Unused(x, id).by = x.by
    BY <1>1 DEF Unused, Items
  <2> QED
    BY <2>1, <2>2
<1>6. CASE kind \in {"reorder", "putAccess"}
  <2>1. x \in ToSet(t[l])
    BY <1>6 DEF MadeOf, Unchanged
  <2> QED
    BY <2>1
<1> QED
  BY <1>3, <1>4, <1>5, <1>6 DEF MadeOf

(* What an item was before an edit, or that it is new.                     *)
LEMMA ItemCame ==
    ASSUME NEW s, IsState(s), NEW r \in Requests, NEW kind \in Saves, NEW id,
           NEW uses \in SUBSET Nat,
           NEW t, MadeOf(s, t, r, kind, id, uses), NEW l \in ListNames, NEW y \in ToSet(t[l])
    PROVE  /\ y.id = s.nextId \/ \E x \in ToSet(s[l]) : y.id = x.id
           /\ Named(s, y) \/ \E x \in ToSet(s[l]) : Alive(y) \subseteq Alive(x)
<1>1. \A x \in ToSet(s[l]) : x \in Items
  BY ListTypes DEF IsState
<1>2. CASE kind \in Adds
  BY <1>2 DEF MadeOf, Added
<1>3. CASE kind \in Updates
  <2>1. PICK x \in ToSet(s[l]) : y = x \/ y = Rewritten(x, s, r, id, uses)
    BY <1>3 DEF MadeOf, Updated
  <2>2. CASE y = x
    BY <2>2
  <2>3. CASE y # x
    <3>1. x.id = id /\ y = Item(s, id, r, uses)
      BY <2>1, <2>3 DEF Rewritten
    <3>2. id \in Nat \ {0}
      BY <1>1, <3>1 DEF Items
    <3>3. /\ Item(s, id, r, uses).id = id
          /\ Named(s, Item(s, id, r, uses))
      BY <3>2, ItemFacts
    <3> QED
      BY <3>1, <3>3
  <2> QED
    BY <2>2, <2>3
<1>4. CASE kind \in Deletes
  <2>1. PICK x \in ToSet(s[l]) : y = x \/ y = Unused(x, id)
    BY <1>4 DEF MadeOf, Deleted
  <2>2. y.id = x.id /\ Alive(y) \subseteq Alive(x)
    BY <1>1, <2>1 DEF Unused, Items, Alive
  <2> QED
    BY <2>2
<1>5. CASE kind \in {"reorder", "putAccess"}
  BY <1>5 DEF MadeOf, Unchanged
<1> QED
  BY <1>2, <1>3, <1>4, <1>5 DEF MadeOf

LEMMA EditKeepsShown ==
    ASSUME NEW s, IsState(s), NEW r \in Requests, NEW kind \in Saves, NEW id,
           NEW uses \in SUBSET Nat,
           NEW t, MadeOf(s, t, r, kind, id, uses),
           NEW other \in Saves, NEW of, NEW by \in Requests, Shown(s, other, of, by),
           other \in Deletes => of \in Nat,
           by \notin UndoneIn(s, kind, id)
    PROVE  Shown(t, other, of, by)
<1>1. ASSUME other \in Adds \cup Updates
      PROVE  \E y \in ToSet(t[ListOf(other)]) : y.by = by
  <2>1. ListOf(other) \in ListNames
    BY <1>1, EditKinds
  <2>2. PICK x \in ToSet(s[ListOf(other)]) : x.by = by
    BY <1>1 DEF Shown
  <2> QED
    BY <2>1, <2>2, ItemKept
<1>2. ASSUME other \in Deletes
      PROVE  of < t.nextId /\ \A y \in ToSet(t[ListOf(other)]) : y.id # of
  <2>1. ListOf(other) \in ListNames
    BY <1>2, EditKinds
  <2>2. of < s.nextId /\ \A x \in ToSet(s[ListOf(other)]) : x.id # of
    BY <1>2 DEF Shown
  <2>3. s.nextId \in Nat /\ of \in Nat
    BY <1>2, <2>1, ListTypes DEF IsState
  <2>4. of < t.nextId
    BY <2>2, <2>3 DEF MadeOf
  <2>5. ASSUME NEW y \in ToSet(t[ListOf(other)]) PROVE y.id # of
    <3>1. y.id = s.nextId \/ \E x \in ToSet(s[ListOf(other)]) : y.id = x.id
      BY <2>1, <2>5, ItemCame
    <3> QED
      BY <2>2, <2>3, <3>1
  <2> QED
    BY <2>4, <2>5
<1>3. ASSUME other = "deleteChannel", NEW y \in ToSet(t["rules"]) PROVE of \notin Alive(y)
  <2>1. other \in Deletes /\ ListOf(other) = "channels" /\ "rules" \in ListNames
    BY <1>3 DEF Deletes, ListOf, ListNames
  <2>2. /\ \A x \in ToSet(s["rules"]) : of \notin Alive(x)
        /\ \A x \in ToSet(s["channels"]) : x.id # of
        /\ of < s.nextId
    BY <1>3, <2>1 DEF Shown
  <2>3. of \notin Ids(s.channels)
    BY <2>2, IdsOf
  <2>4. Named(s, y) \/ \E x \in ToSet(s["rules"]) : Alive(y) \subseteq Alive(x)
    BY <1>3, <2>1, ItemCame
  <2> QED
    BY <2>2, <2>3, <2>4 DEF Named
<1>4. ASSUME other = "putAccess" PROVE t.access = by
  <2>1. s.access = by
    BY <1>4 DEF Shown
  <2>2. kind # "putAccess"
    <3>1. by # None
      BY ConfigAssumption
    <3> QED
      BY <2>1, <3>1 DEF UndoneIn, OnAnItem
  <2> QED
    BY <2>1, <2>2 DEF MadeOf
<1> QED
  BY <1>1, <1>2, <1>3, <1>4 DEF Shown

-----------------------------------------------------------------------------
LEMMA PatchedIsSettings ==
    ASSUME NEW s, IsSettings(s), NEW r, NEW kind
    PROVE  IsSettings(Patched(s, r, kind))
BY SMT DEF IsSettings, Patched

LEMMA StartShapes == IsState(Blank) /\ IsSettings(Factory)
<1>1. <<>> \in Seq(Items) /\ ToSet(<<>>) = {}
  BY DEF ToSet
<1>2. Blank \in States /\ \A l \in ListNames : Blank[l] = <<>>
  BY <1>1 DEF States, Blank, ListNames
<1>3. IsState(Blank)
  BY <1>1, <1>2 DEF IsState
<1>4. IsSettings(Factory)
  BY SMT DEF IsSettings, Factory
<1> QED
  BY <1>3, <1>4

-----------------------------------------------------------------------------
(* Every step keeps what is true of the files.                             *)

(* A step that takes no worker.                                            *)
LEMMA StepTypes ==
    ASSUME ReqTypes, NEW r \in Requests, Moves(r), RequestOK(req'[r]), req[r].step \in OnWorker
    PROVE  ReqTypes'
BY MoveTypes, ConfigAssumption

LEMMA SameFiles ==
    ASSUME FilesInv, UNCHANGED <<memory, settings, disk, req, past>>
    PROVE  FilesInv'
<1>1. /\ inode' = inode /\ names' = names /\ memory' = memory /\ settings' = settings
      /\ req' = req /\ past' = past
  BY DEF disk
<1>2. UnderWay' = UnderWay /\ Working' = Working
  BY <1>1 DEF UnderWay, Working
<1>3. ReqTypes' /\ PastTypes' /\ DiskTypes'
  BY <1>1, <1>2 DEF FilesInv, ReqTypes, PastTypes, DiskTypes
<1>4. OpenApart'
  BY <1>1 DEF FilesInv, OpenApart, FileOf
<1>5. Shaped'
  BY <1>1, <1>2 DEF FilesInv, Shaped
<1>6. ASSUME NEW file \in {"state", "ini"}, Undisturbed(file) PROVE Undisturbed(file)'
  BY <1>1, <1>2, <1>6 DEF Undisturbed, OnItsOwn, Met
<1>7. Undisturbed("state")' /\ Undisturbed("ini")'
  BY <1>6 DEF FilesInv
<1> QED
  BY <1>3, <1>4, <1>5, <1>7 DEF FilesInv

(* A request goes on to something that is no file, or ends.                *)
GoesOn(r) ==
    /\ Moves(r) /\ RequestOK(req'[r])
    /\ req'[r].step \in OnWorker => req[r].step \in OnWorker
    /\ req'[r].step \notin AtFile
    /\ \/ req'[r].step \in Ends
       \/ req'[r].kind = req[r].kind /\ req'[r].copy = req[r].copy

LEMMA GoneOn ==
    ASSUME FilesInv, NEW r \in Requests, Moves(r), RequestOK(req'[r]),
           req[r].step \notin Ends \cup {"new"},
           req'[r].step \in OnWorker => req[r].step \in OnWorker,
           req'[r].step \notin AtFile \/ req'[r].step = "renamed",
           \/ req'[r].step \in Ends
           \/ req'[r].kind = req[r].kind /\ req'[r].copy = req[r].copy,
           UNCHANGED disk, past'.met = past.met, PastTypes', IsState(memory'), IsSettings(settings')
    PROVE  FilesInv'
<1>1. ReqTypes'
  BY MoveTypes, ConfigAssumption DEF FilesInv
<1>2. r \in UnderWay
  BY DEF UnderWay
<1>3. ASSUME NEW file \in {"state", "ini"} PROVE Met(file)' = Met(file)
  BY DEF Met
<1>4. Proper(r)
  BY <1>2, <1>3 DEF Proper, FilesInv, Shaped
<1>5. req'[r].step \notin {"opened", "written"}
  BY DEF AtFile
<1> QED
  BY <1>1, <1>4, <1>5, ElsewhereKeeps

(* A page of messages is searched or sorted: no file is touched.           *)
Paged(r, step, page) == req' = [req EXCEPT ![r].step = step, ![r].page = page]
Turned(r, page) == req' = [req EXCEPT ![r].page = page]

LEMMA PageMoves ==
    ASSUME ReqTypes, NEW r \in Requests, NEW step, NEW page, Paged(r, step, page)
    PROVE  /\ Moves(r) /\ IsRequest(req'[r]) /\ req'[r].step = step
           /\ req'[r].kind = req[r].kind /\ req'[r].copy = req[r].copy /\ req'[r].fd = req[r].fd
           /\ req'[r].page = page /\ req'[r].id = req[r].id
<1>1. req = [x \in Requests |-> req[x]] /\ IsRequest(req[r])
  BY DEF ReqTypes, RequestOK
<1> DEFINE p == [req[r] EXCEPT !.step = step]
           q == [p EXCEPT !.page = page]
<1>2. req'[r] = q /\ req' = [req EXCEPT ![r] = q]
  BY <1>1 DEF Paged
<1>3. IsRequest(p) /\ \A g \in Fields : p[g] = IF g = "step" THEN step ELSE req[r][g]
  BY <1>1, FieldSet DEF Fields
<1> HIDE DEF p
<1>4. IsRequest(q) /\ \A g \in Fields : q[g] = IF g = "page" THEN page ELSE p[g]
  BY <1>3, FieldSet DEF Fields
<1> HIDE DEF q
<1>5. IsRequest(req'[r]) /\ \A g \in Fields : req'[r][g] = q[g]
  BY <1>2, <1>4
<1>6. /\ req'[r].step = step /\ req'[r].kind = req[r].kind
      /\ req'[r].copy = req[r].copy /\ req'[r].fd = req[r].fd
      /\ req'[r].page = page /\ req'[r].id = req[r].id
  BY <1>3, <1>4, <1>5, SMT DEF Fields
<1> QED
  BY <1>1, <1>2, <1>5, <1>6 DEF Moves

LEMMA TurnMoves ==
    ASSUME ReqTypes, NEW r \in Requests, NEW page, Turned(r, page)
    PROVE  /\ Moves(r) /\ IsRequest(req'[r]) /\ req'[r].step = req[r].step
           /\ req'[r].kind = req[r].kind /\ req'[r].copy = req[r].copy /\ req'[r].fd = req[r].fd
           /\ req'[r].page = page /\ req'[r].id = req[r].id
<1>1. req = [x \in Requests |-> req[x]] /\ IsRequest(req[r])
  BY DEF ReqTypes, RequestOK
<1> DEFINE q == [req[r] EXCEPT !.page = page]
<1>2. req'[r] = q /\ req' = [req EXCEPT ![r] = q]
  BY <1>1 DEF Turned
<1>3. IsRequest(q) /\ \A g \in Fields : q[g] = IF g = "page" THEN page ELSE req[r][g]
  BY <1>1, FieldSet DEF Fields
<1> HIDE DEF q
<1>4. /\ req'[r].step = req[r].step /\ req'[r].kind = req[r].kind
      /\ req'[r].copy = req[r].copy /\ req'[r].fd = req[r].fd
      /\ req'[r].page = page /\ req'[r].id = req[r].id
  BY <1>2, <1>3, SMT DEF Fields
<1> QED
  BY <1>1, <1>2, <1>3, <1>4 DEF Moves

LEMMA BeginMoves ==
    ASSUME ReqTypes, NEW r \in Requests, req[r].step = "new", NEW q, IsRequest(q),
           req' = [req EXCEPT ![r] = q]
    PROVE  Moves(r) /\ req'[r] = q
BY DEF ReqTypes, Moves

(* What a request has that was idle and begins.                            *)
Begun(step, kind, id, copy, undoes) ==
    [Idle EXCEPT !.step = step, !.kind = kind, !.id = id, !.copy = copy, !.undoes = undoes]

LEMMA BegunRequest ==
    ASSUME NEW step, NEW kind, NEW id, NEW copy, NEW undoes
    PROVE  /\ IsRequest(Begun(step, kind, id, copy, undoes))
           /\ Begun(step, kind, id, copy, undoes).step = step
           /\ Begun(step, kind, id, copy, undoes).kind = kind
           /\ Begun(step, kind, id, copy, undoes).copy = copy
           /\ Begun(step, kind, id, copy, undoes).fd = None
<1> DEFINE a == [Idle EXCEPT !.step = step]
           b == [a EXCEPT !.kind = kind]
           c == [b EXCEPT !.id = id]
           d == [c EXCEPT !.copy = copy]
           e == [d EXCEPT !.undoes = undoes]
<1>1. IsRequest(a) /\ \A g \in Fields : a[g] = IF g = "step" THEN step ELSE Idle[g]
  BY IdleIsRequest, FieldSet DEF Fields
<1> HIDE DEF a
<1>2. IsRequest(b) /\ \A g \in Fields : b[g] = IF g = "kind" THEN kind ELSE a[g]
  BY <1>1, FieldSet DEF Fields
<1> HIDE DEF b
<1>3. IsRequest(c) /\ \A g \in Fields : c[g] = IF g = "id" THEN id ELSE b[g]
  BY <1>2, FieldSet DEF Fields
<1> HIDE DEF c
<1>4. IsRequest(d) /\ \A g \in Fields : d[g] = IF g = "copy" THEN copy ELSE c[g]
  BY <1>3, FieldSet DEF Fields
<1> HIDE DEF d
<1>5. IsRequest(e) /\ \A g \in Fields : e[g] = IF g = "undoes" THEN undoes ELSE d[g]
  BY <1>4, FieldSet DEF Fields
<1> HIDE DEF e
<1>6. IsRequest(e) /\ e.step = step /\ e.kind = kind /\ e.copy = copy /\ e.fd = None
  BY <1>1, <1>2, <1>3, <1>4, <1>5, SMT DEF Fields, Idle
<1> QED
  BY <1>6, Zenon DEF Begun, a, b, c, d, e

BegunPlainly(step, kind, copy) == [Idle EXCEPT !.step = step, !.kind = kind, !.copy = copy]

LEMMA BegunPlain ==
    ASSUME NEW step, NEW kind, NEW copy
    PROVE  /\ IsRequest(BegunPlainly(step, kind, copy))
           /\ BegunPlainly(step, kind, copy).step = step
           /\ BegunPlainly(step, kind, copy).kind = kind
           /\ BegunPlainly(step, kind, copy).copy = copy
           /\ BegunPlainly(step, kind, copy).fd = None
<1> DEFINE a == [Idle EXCEPT !.step = step]
           b == [a EXCEPT !.kind = kind]
           c == [b EXCEPT !.copy = copy]
<1>1. IsRequest(a) /\ \A g \in Fields : a[g] = IF g = "step" THEN step ELSE Idle[g]
  BY IdleIsRequest, FieldSet DEF Fields
<1> HIDE DEF a
<1>2. IsRequest(b) /\ \A g \in Fields : b[g] = IF g = "kind" THEN kind ELSE a[g]
  BY <1>1, FieldSet DEF Fields
<1> HIDE DEF b
<1>3. IsRequest(c) /\ \A g \in Fields : c[g] = IF g = "copy" THEN copy ELSE b[g]
  BY <1>2, FieldSet DEF Fields
<1> HIDE DEF c
<1>4. IsRequest(c) /\ c.step = step /\ c.kind = kind /\ c.copy = copy /\ c.fd = None
  BY <1>1, <1>2, <1>3, SMT DEF Fields, Idle
<1> QED
  BY <1>4, Zenon DEF BegunPlainly, a, b, c

LEMMA PastNotes ==
    ASSUME PastTypes, NEW w,
           past' = [past EXCEPT !.met.saves = w] \/ past' = [past EXCEPT !.met.puts = w]
    PROVE  /\ PastTypes' /\ past'.broken = past.broken
           /\ past' = [past EXCEPT !.met.saves = w] =>
                 past'.met.saves = w /\ past'.met.puts = past.met.puts
           /\ past' = [past EXCEPT !.met.puts = w] =>
                 past'.met.puts = w /\ past'.met.saves = past.met.saves
<1>1. PICK s, p, u, i, l, b :
        past = [met |-> [saves |-> s, puts |-> p], undone |-> u, issued |-> i, left |-> l, broken |-> b]
  BY DEF PastTypes
<1>2. CASE past' = [past EXCEPT !.met.saves = w]
  <2>1. past' = [met |-> [saves |-> w, puts |-> p], undone |-> u, issued |-> i, left |-> l, broken |-> b]
    BY <1>1, <1>2
  <2> QED
    BY <1>1, <2>1 DEF PastTypes
<1>3. CASE past' = [past EXCEPT !.met.puts = w]
  <2>1. past' = [met |-> [saves |-> s, puts |-> w], undone |-> u, issued |-> i, left |-> l, broken |-> b]
    BY <1>1, <1>3
  <2> QED
    BY <1>1, <2>1 DEF PastTypes
<1> QED
  BY <1>2, <1>3

(* A request that starts: rivals of its kind are noted.                    *)
LEMMA Began ==
    ASSUME FilesInv, NEW r \in Requests, CanStart(r), Moves(r), RequestOK(req'[r]),
           req'[r].step \in {"loaded", "page"}, UNCHANGED <<disk, memory, settings>>, PastTypes',
           \A file \in {"state", "ini"} :
              /\ Met(file) \subseteq Met(file)'
              /\ req'[r].kind \in KindsOf(file) =>
                    /\ Fits(file, req'[r].copy)
                    /\ With(r, KindsOf(file)) \subseteq Met(file)'
    PROVE  FilesInv'
<1>1. ReqTypes'
  BY MoveTypes, ConfigAssumption DEF FilesInv
<1>2. ASSUME NEW file \in {"state", "ini"}, req'[r].kind \in KindsOf(file),
             NEW x \in UnderWay, req[x].kind \in KindsOf(file)
      PROVE  {x, r} \subseteq Met(file)'
  <2>1. {x, r} \subseteq With(r, KindsOf(file))
    BY <1>2 DEF With
  <2> QED
    BY <1>2, <2>1
<1>3. Proper(r)
  BY <1>2 DEF Proper
<1>4. IsState(memory') /\ IsSettings(settings')
  BY DEF FilesInv, Shaped
<1> QED
  BY <1>1, <1>3, <1>4, ElsewhereKeeps

LEMMA UsesTyped ==
    ASSUME NEW kind, NEW uses \in UsesOf(kind)
    PROVE  uses \in SUBSET Nat
BY ConfigAssumption DEF UsesOf

LEMMA MutateFiles ==
    ASSUME FilesInv, NEW r \in Requests, Mutate(r)
    PROVE  /\ FilesInv' /\ past'.broken = past.broken
           /\ Met("state") \subseteq Met("state")'
           /\ past'.met.puts = past.met.puts
           /\ Moves(r) /\ req[r].step = "new" /\ req'[r].step \in {"loaded", "notFound"}
<1>1. /\ ReqTypes /\ PastTypes /\ IsState(memory) /\ CanStart(r) /\ req[r].step = "new"
      /\ UNCHANGED <<disk, memory, settings>>
  BY DEF FilesInv, Shaped, Mutate, CanStart
<1>2. PICK kind \in Kinds \cap Saves, uses \in SUBSET Nat, id \in {0} \cup NamedIds :
         IF kind \in OnAnItem /\ id \notin Ids(memory[ListOf(kind)])
         THEN /\ Finish(r, "notFound")
              /\ UNCHANGED past
         ELSE /\ req' = [req EXCEPT ![r] = [Idle EXCEPT
                            !.step = "loaded", !.kind = kind, !.id = id,
                            !.copy = Edited(memory, r, kind, id, uses),
                            !.undoes = Undoes(kind, id)]]
              /\ past' = [past EXCEPT !.met.saves = @ \cup With(r, Saves)]
  BY UsesTyped DEF Mutate
<1>3. CASE Finish(r, "notFound") /\ UNCHANGED past
  <2>1. Moves(r) /\ RequestOK(req'[r]) /\ req'[r].step = "notFound"
    BY <1>1, <1>3, FinishMoves DEF Ends
  <2>2. ReqTypes'
    BY <1>1, <2>1, MoveTypes, ConfigAssumption DEF OnWorker
  <2>3. PastTypes' /\ \A file \in {"state", "ini"} : Met(file)' = Met(file)
    BY <1>1, <1>3 DEF PastTypes, Met
  <2>4. Proper(r)
    BY <2>1, <2>3 DEF Proper, Ends
  <2>5. IsState(memory') /\ IsSettings(settings')
    BY <1>1 DEF FilesInv, Shaped
  <2>6. FilesInv'
    BY <1>1, <2>1, <2>2, <2>3, <2>4, <2>5, ElsewhereKeeps
  <2> QED
    BY <1>1, <1>3, <2>1, <2>3, <2>6
<1>4. CASE /\ req' = [req EXCEPT ![r] = [Idle EXCEPT
                         !.step = "loaded", !.kind = kind, !.id = id,
                         !.copy = Edited(memory, r, kind, id, uses),
                         !.undoes = Undoes(kind, id)]]
           /\ past' = [past EXCEPT !.met.saves = @ \cup With(r, Saves)]
  <2> DEFINE q == Begun("loaded", kind, id, Edited(memory, r, kind, id, uses), Undoes(kind, id))
  <2>1. IsRequest(q) /\ q.step = "loaded" /\ q.kind = kind
        /\ q.copy = Edited(memory, r, kind, id, uses) /\ q.fd = None
    BY BegunRequest
  <2>2. req' = [req EXCEPT ![r] = q]
    BY <1>4 DEF Begun
  <2> HIDE DEF q
  <2>3. Moves(r) /\ req'[r] = q
    BY <1>1, <2>1, <2>2, BeginMoves
  <2>4. RequestOK(req'[r])
    BY <2>1, <2>3 DEF RequestOK, Steps, OnWorker
  <2>5. IsState(Edited(memory, r, kind, id, uses))
    BY <1>1, EditFacts
  <2>6. /\ past'.met.saves = past.met.saves \cup With(r, Saves)
        /\ past'.met.puts = past.met.puts /\ past'.broken = past.broken
        /\ PastTypes'
    BY <1>1, <1>4, PastNotes
  <2>7. kind \in Saves /\ kind \notin Patches
    BY DEF Saves, Patches
  <2>8. ASSUME NEW file \in {"state", "ini"}
        PROVE  /\ Met(file) \subseteq Met(file)'
               /\ req'[r].kind \in KindsOf(file) =>
                     /\ Fits(file, req'[r].copy)
                     /\ With(r, KindsOf(file)) \subseteq Met(file)'
    <3>1. CASE file = "state"
      BY <2>1, <2>3, <2>5, <2>6, <3>1 DEF Met, KindsOf, Fits
    <3>2. CASE file = "ini"
      BY <2>1, <2>3, <2>6, <2>7, <3>2 DEF Met, KindsOf
    <3> QED
      BY <3>1, <3>2
  <2>9. FilesInv'
    BY <1>1, <2>1, <2>3, <2>4, <2>6, <2>8, Began
  <2> QED
    BY <1>1, <2>1, <2>3, <2>6, <2>8, <2>9
<1> QED
  BY <1>2, <1>3, <1>4

LEMMA PutSettingsFiles ==
    ASSUME FilesInv, NEW r \in Requests, PutSettings(r)
    PROVE  /\ FilesInv' /\ past'.broken = past.broken
           /\ past'.met.saves = past.met.saves
           /\ past'.met.puts = past.met.puts \cup With(r, Patches)
           /\ Moves(r) /\ req'[r].step = "loaded" /\ req[r].step = "new"
<1>1. /\ ReqTypes /\ PastTypes /\ IsSettings(settings) /\ CanStart(r) /\ req[r].step = "new"
      /\ UNCHANGED <<disk, memory, settings>>
  BY DEF FilesInv, Shaped, PutSettings, CanStart
<1>2. PICK kind \in Kinds \cap Patches :
        /\ req' = [req EXCEPT ![r] = [Idle EXCEPT !.step = "loaded", !.kind = kind,
                                                  !.copy = Patched(settings, r, kind)]]
        /\ past' = [past EXCEPT !.met.puts = @ \cup With(r, Patches)]
  BY DEF PutSettings
<1> DEFINE q == BegunPlainly("loaded", kind, Patched(settings, r, kind))
<1>3. IsRequest(q) /\ q.step = "loaded" /\ q.kind = kind
      /\ q.copy = Patched(settings, r, kind) /\ q.fd = None
  BY BegunPlain
<1>4. req' = [req EXCEPT ![r] = q]
  BY <1>2 DEF BegunPlainly
<1> HIDE DEF q
<1>5. Moves(r) /\ req'[r] = q
  BY <1>1, <1>3, <1>4, BeginMoves
<1>6. RequestOK(req'[r])
  BY <1>3, <1>5 DEF RequestOK, Steps, OnWorker
<1>7. IsSettings(Patched(settings, r, kind))
  BY <1>1, PatchedIsSettings
<1>8. /\ past'.met.puts = past.met.puts \cup With(r, Patches)
      /\ past'.met.saves = past.met.saves /\ past'.broken = past.broken
      /\ PastTypes'
  BY <1>1, <1>2, PastNotes
<1>9. kind \in Patches /\ kind \notin Saves
  BY DEF Saves, Patches
<1>10. ASSUME NEW file \in {"state", "ini"}
       PROVE  /\ Met(file) \subseteq Met(file)'
              /\ req'[r].kind \in KindsOf(file) =>
                    /\ Fits(file, req'[r].copy)
                    /\ With(r, KindsOf(file)) \subseteq Met(file)'
  <2>1. CASE file = "ini"
    BY <1>3, <1>5, <1>7, <1>8, <2>1 DEF Met, KindsOf, Fits
  <2>2. CASE file = "state"
    BY <1>3, <1>5, <1>8, <1>9, <2>2 DEF Met, KindsOf
  <2> QED
    BY <2>1, <2>2
<1>11. FilesInv'
  BY <1>1, <1>3, <1>5, <1>6, <1>8, <1>10, Began
<1> QED
  BY <1>1, <1>3, <1>5, <1>8, <1>11

LEMMA RegroupFiles ==
    ASSUME FilesInv, NEW r \in Requests, Regroup(r)
    PROVE  FilesInv' /\ Moves(r) /\ req'[r].kind = "regroup" /\ req'[r].step = "page"
<1>1. /\ ReqTypes /\ PastTypes /\ CanStart(r) /\ req[r].step = "new"
      /\ UNCHANGED <<disk, memory, settings>> /\ past' = past
  BY DEF FilesInv, Regroup, CanStart
<1> DEFINE q == BegunPlainly("page", "regroup", memory)
<1>2. IsRequest(q) /\ q.step = "page" /\ q.kind = "regroup" /\ q.copy = memory /\ q.fd = None
  BY BegunPlain
<1>3. req' = [req EXCEPT ![r] = q]
  BY DEF Regroup, BegunPlainly
<1> HIDE DEF q
<1>4. Moves(r) /\ req'[r] = q
  BY <1>1, <1>2, <1>3, BeginMoves
<1>5. RequestOK(req'[r])
  BY <1>2, <1>4 DEF RequestOK, Steps, OnWorker
<1>6. PastTypes'
  BY <1>1 DEF PastTypes
<1>7. \A file \in {"state", "ini"} : Met(file)' = Met(file) /\ req'[r].kind \notin KindsOf(file)
  BY <1>1, <1>2, <1>4 DEF Met, KindsOf, Saves, Patches
<1>8. FilesInv'
  BY <1>1, <1>2, <1>4, <1>5, <1>6, <1>7, Began
<1> QED
  BY <1>2, <1>4, <1>8

(* After a crash no request is under way and every file is closed.         *)
LEMMA RestartFiles ==
    ASSUME FilesInv, Restart
    PROVE  /\ FilesInv' /\ UnderWay' = {}
           /\ past'.broken = (past.broken \/ Content("state") = Torn)
           /\ past'.met.saves = past.met.saves
           /\ inode' = inode /\ \A f \in FileNames : f # "state" => names'[f] = names[f]
           /\ names'["state"] = IF Content("state") = Torn THEN None ELSE names["state"]
<1>1. /\ ReqTypes /\ PastTypes /\ DiskTypes /\ OpenApart /\ Shaped
  BY DEF FilesInv
<1>2. /\ memory' = Loaded /\ settings' = Parsed /\ inode' = inode
      /\ names' = [names EXCEPT !["state"] = IF Content("state") = Torn THEN None ELSE @]
      /\ req' = [r \in Requests |-> IF r \notin UnderWay THEN req[r]
                                    ELSE [Idle EXCEPT !.step = "gone", !.undoes = req[r].undoes]]
      /\ past' = [past EXCEPT
          !.broken = @ \/ Content("state") = Torn,
          !.met.puts = {},
          !.left = @ \cup {req[r].id : r \in {x \in UnderWay : req[x].kind = "deleteGroup"}}]
  BY DEF Restart
<1>3. ASSUME NEW r \in Requests
      PROVE  RequestOK(req'[r]) /\ req'[r].step \in Ends \cup {"new"}
  <2>1. CASE r \notin UnderWay
    BY <1>1, <1>2, <2>1 DEF UnderWay, ReqTypes
  <2>2. CASE r \in UnderWay
    <3> DEFINE p == [Idle EXCEPT !.step = "gone"]
               q == [p EXCEPT !.undoes = req[r].undoes]
    <3>1. req'[r] = q
      BY <1>2, <2>2
    <3>2. IsRequest(p) /\ \A g \in Fields : p[g] = IF g = "step" THEN "gone" ELSE Idle[g]
      BY IdleIsRequest, FieldSet DEF Fields
    <3> HIDE DEF p
    <3>3. IsRequest(q) /\ \A g \in Fields : q[g] = IF g = "undoes" THEN req[r].undoes ELSE p[g]
      BY <3>2, FieldSet DEF Fields
    <3> HIDE DEF q
    <3>4. IsRequest(q) /\ q.step = "gone" /\ q.fd = None
      BY <3>2, <3>3, SMT DEF Fields, Idle
    <3> QED
      BY <3>1, <3>4 DEF RequestOK, Steps, Ends
  <2> QED
    BY <2>1, <2>2
<1>4. UnderWay' = {} /\ Working' = {}
  <2>1. \A r \in Requests : req'[r].step \notin OnWorker /\ req'[r].step \in Ends \cup {"new"}
    BY <1>3 DEF Ends, OnWorker
  <2> QED
    BY <2>1 DEF UnderWay, Working
<1>5. ReqTypes'
  <2>1. req' = [r \in Requests |-> req'[r]]
    BY <1>2
  <2>2. IsFiniteSet({}) /\ Cardinality({}) = 0
    BY FS_EmptySet
  <2>3. IsFiniteSet(Working') /\ Cardinality(Working') <= Workers
    BY <1>4, <2>2, ConfigAssumption
  <2> QED
    BY <1>3, <2>1, <2>3 DEF ReqTypes
<1>6. /\ PastTypes' /\ past'.broken = (past.broken \/ Content("state") = Torn)
      /\ past'.met.saves = past.met.saves
  <2>1. PICK s, p, u, i, l, b :
          past = [met |-> [saves |-> s, puts |-> p], undone |-> u, issued |-> i, left |-> l, broken |-> b]
    BY <1>1 DEF PastTypes
  <2>2. PICK c, m : c = (b \/ Content("state") = Torn)
                 /\ m = l \cup {req[r].id : r \in {x \in UnderWay : req[x].kind = "deleteGroup"}}
    OBVIOUS
  <2>3. past' = [past EXCEPT !.broken = c, !.met.puts = {}, !.left = m]
    BY <1>2, <2>1, <2>2
  <2>4. past' = [met |-> [saves |-> s, puts |-> {}], undone |-> u, issued |-> i, left |-> m, broken |-> c]
    BY <2>1, <2>3
  <2>5. past.broken = b
    BY <2>1
  <2> QED
    BY <2>1, <2>2, <2>4, <2>5 DEF PastTypes
<1>7. /\ names \in [FileNames -> Files \cup {None}]
      /\ names' \in [FileNames -> Files \cup {None}]
      /\ \A f \in FileNames : f # "state" => names'[f] = names[f]
      /\ names'["state"] = IF Content("state") = Torn THEN None ELSE names["state"]
  BY <1>1, <1>2 DEF DiskTypes, FileNames
<1>8. \A f \in FileNames : names'[f] # None => names'[f] = names[f]
  BY <1>7
<1>9. DiskTypes'
  <2>1. ASSUME NEW f \in FileNames, NEW g \in FileNames, f # g, names'[f] # None
        PROVE  names'[f] # names'[g]
    BY <1>1, <1>8, <2>1 DEF DiskTypes
  <2> QED
    BY <1>1, <1>2, <1>7, <2>1 DEF DiskTypes
<1>10. OpenApart'
  <2>1. \A r \in Requests : req'[r].step # "opened"
    BY <1>3 DEF Ends
  <2> QED
    BY <2>1 DEF OpenApart
<1>11. Shaped'
  <2>1. \A file \in {"state", "ini"} : Content(file) \notin {None, Torn} => Fits(file, Content(file))
    <3>1. \A file \in {"state", "ini"} : file \in PairOf(file)
      BY DEF PairOf
    <3> QED
      BY <1>1, <3>1 DEF Shaped, Content
  <2>2. IsState(Loaded) /\ IsSettings(Parsed)
    BY <2>1, StartShapes DEF Loaded, Parsed, Fits
  <2>3. ASSUME NEW file \in {"state", "ini"}, NEW f \in PairOf(file), names'[f] # None
        PROVE  inode'[names'[f]] = Torn \/ Fits(file, inode'[names'[f]])
    BY <1>1, <1>2, <1>8, <2>3, Pairs DEF Shaped
  <2> QED
    BY <1>2, <1>4, <2>2, <2>3 DEF Shaped
<1>12. ASSUME NEW file PROVE Undisturbed(file)'
  <2>1. \A r \in Requests : req'[r].step \notin {"opened", "written"}
    BY <1>3 DEF Ends
  <2> QED
    BY <1>4, <2>1 DEF Undisturbed
<1>13. FilesInv'
  BY <1>5, <1>6, <1>9, <1>10, <1>11, <1>12 DEF FilesInv
<1> QED
  BY <1>2, <1>4, <1>6, <1>7, <1>13

-----------------------------------------------------------------------------
(* The two invariants: what each step does to them.                        *)

Late == {"renamed", "runtime", "retain"}

LEMMA WholeStays ==
    ASSUME StateWhole, past'.broken = past.broken,
           past'.met.saves = {} => past.met.saves = {},
           Content("state")' = Content("state")
    PROVE  StateWhole'
BY DEF StateWhole, SavesAlone

LEMMA SameContent ==
    ASSUME NEW file, names'[file] = names[file],
           names[file] # None => inode'[names[file]] = inode[names[file]]
    PROVE  Content(file)' = Content(file)
BY DEF Content

(* A step that has nothing to do with settings that are in the file.       *)
LEMMA SettingsStay ==
    ASSUME SettingsOnTheirWay, NEW r \in Requests, Moves(r),
           Content("ini")' = Content("ini"), UNCHANGED <<settings, runtime, retention>>,
           past'.met.puts = {} => past.met.puts = {},
           req[r].kind \in Patches => req[r].step \notin Late,
           req'[r].kind \in Patches => req'[r].step \notin Late
    PROVE  SettingsOnTheirWay'
<1>1. Parsed' = Parsed
  BY DEF Parsed
<1>2. \A x \in Requests : x # r => req'[x] = req[x]
  BY DEF Moves
<1>3. \A x \in Requests : req[x].step \in Late /\ req[x].kind \in Patches => x # r
  OBVIOUS
<1>4. \A x \in Requests : req'[x].step \in Late /\ req'[x].kind \in Patches => x # r
  OBVIOUS
<1> SUFFICES ASSUME past'.met.puts = {} PROVE SettingsOnTheirWay'
  BY DEF SettingsOnTheirWay
<1>5. past.met.puts = {}
  OBVIOUS
<1>6. \/ \E x \in Requests : req'[x].step \in Late /\ req'[x].kind \in Patches
      \/ settings' = Parsed' /\ runtime' = settings'.account /\ retention' = settings'.limit
  BY <1>1, <1>2, <1>3, <1>5 DEF SettingsOnTheirWay, Late
<1>7. ASSUME NEW x \in Requests, req'[x].kind \in Patches
      PROVE  /\ req'[x].step \in Late => Parsed' = req'[x].copy
             /\ req'[x].step \in {"runtime", "retain"} => runtime' = req'[x].copy.account
             /\ req'[x].step = "retain" => settings' = req'[x].copy
  <2>1. CASE x = r
    BY <1>4, <1>7, <2>1 DEF Late
  <2>2. CASE x # r
    BY <1>1, <1>2, <1>5, <1>7, <2>2 DEF SettingsOnTheirWay, Late
  <2> QED
    BY <2>1, <2>2
<1> QED
  BY <1>6, <1>7 DEF SettingsOnTheirWay, Late

LEMMA OpenConfig ==
    ASSUME ConfigInv, NEW r \in Requests, Open(r)
    PROVE  ConfigInv'
<1>1. FilesInv /\ ReqTypes /\ PastTypes /\ DiskTypes /\ StateWhole /\ SettingsOnTheirWay
  BY DEF ConfigInv, FilesInv
<1>2. PICK i \in Files :
              /\ req[r].step = "loaded" /\ Moves(r) /\ RequestOK(req'[r])
              /\ req'[r].step = "opened" /\ req'[r].fd = i
              /\ req'[r].kind = req[r].kind /\ req'[r].copy = req[r].copy
              /\ inode' = [inode EXCEPT ![i] = Torn]
              /\ names' = [names EXCEPT ![TmpOf(FileOf(r))] = i]
              /\ i = names[TmpOf(FileOf(r))] \/ i \notin Held
  BY <1>1, OpenFacts
<1>3. ReqTypes'
  BY <1>1, <1>2, StepTypes DEF OnWorker
<1>4. PastTypes' /\ past' = past /\ UNCHANGED <<settings, runtime, retention>>
  BY <1>1 DEF Open, PastTypes
<1>5. FilesInv'
  BY <1>1, <1>3, <1>4, OpenKeeps
<1>6. \A f \in FileNames : f # TmpOf(FileOf(r)) => names[f] # i
  BY <1>1, <1>2, OpenedApart DEF AtFile
<1>7. ASSUME NEW file \in {"state", "ini"} PROVE Content(file)' = Content(file)
  <2>1. file \in FileNames /\ file # TmpOf(FileOf(r))
    BY DEF FileNames, TmpOf
  <2>2. names'[file] = names[file] /\ names[file] # i /\ names[file] \in Files \cup {None}
    BY <1>1, <1>2, <1>6, <2>1 DEF DiskTypes
  <2>3. names[file] # None => inode'[names[file]] = inode[names[file]]
    BY <1>1, <1>2, <2>2 DEF DiskTypes
  <2> QED
    BY <2>2, <2>3, SameContent
<1>8. StateWhole'
  BY <1>1, <1>4, <1>7, WholeStays
<1>9. SettingsOnTheirWay'
  BY <1>1, <1>2, <1>4, <1>7, SettingsStay DEF Late
<1> QED
  BY <1>5, <1>8, <1>9 DEF ConfigInv

LEMMA WriteConfig ==
    ASSUME ConfigInv, NEW r \in Requests, Write(r)
    PROVE  ConfigInv'
<1>1. FilesInv /\ ReqTypes /\ PastTypes /\ DiskTypes /\ OpenApart /\ StateWhole /\ SettingsOnTheirWay
      /\ Undisturbed("state") /\ Undisturbed("ini")
  BY DEF ConfigInv, FilesInv
<1>2. PICK text \in {req[r].copy, Torn} :
              /\ req[r].step = "opened" /\ Moves(r) /\ RequestOK(req'[r])
              /\ inode' = [inode EXCEPT ![req[r].fd] = text]
              /\ names' = names
              /\ \/ /\ req'[r].step = "written"
                    /\ req'[r].kind = req[r].kind /\ req'[r].copy = req[r].copy
                    /\ inode[req[r].fd] = Torn => text = req[r].copy
                 \/ req'[r].step = "error"
  BY <1>1, WriteFacts
<1>3. ReqTypes'
  BY <1>1, <1>2, StepTypes DEF OnWorker
<1>4. PastTypes' /\ past' = past /\ UNCHANGED <<settings, runtime, retention>>
  BY <1>1 DEF Write, PastTypes
<1>5. FilesInv'
  BY <1>1, <1>3, <1>4, WriteKeeps
<1>6. ASSUME NEW file \in {"state", "ini"}, Met(file) = {} PROVE Content(file)' = Content(file)
  <2>1. names[file] # None => names[file] # req[r].fd
    <3>1. CASE FileOf(r) = file
      <4>1. req[r].fd = names[TmpOf(file)] /\ req[r].fd \in Files /\ req[r].fd # None
        BY <1>1, <1>2, <1>6, <3>1, FileFacts, ConfigAssumption
           DEF Undisturbed, OnItsOwn, AtFile, ReqTypes, RequestOK
      <4> QED
        BY <1>1, <4>1, Pairs DEF DiskTypes
    <3>2. CASE FileOf(r) # file
      <4>1. file \in FileNames \ PairOf(FileOf(r))
        BY <3>2 DEF FileNames, PairOf, TmpOf, FileOf
      <4> QED
        BY <1>1, <1>2, <4>1 DEF OpenApart
    <3> QED
      BY <3>1, <3>2
  <2>2. names[file] # None => inode'[names[file]] = inode[names[file]]
    BY <1>1, <1>2, <2>1, Pairs DEF DiskTypes
  <2> QED
    BY <1>2, <2>2, SameContent
<1>7. StateWhole'
  <2> SUFFICES ASSUME past'.met.saves = {} PROVE StateWhole'
    BY DEF StateWhole, SavesAlone
  <2>1. Met("state") = {}
    BY <1>4 DEF Met
  <2> QED
    BY <1>1, <1>4, <1>6, <2>1, WholeStays
<1>8. SettingsOnTheirWay'
  <2> SUFFICES ASSUME past'.met.puts = {} PROVE SettingsOnTheirWay'
    BY DEF SettingsOnTheirWay
  <2>1. Met("ini") = {}
    BY <1>4 DEF Met
  <2> QED
    BY <1>1, <1>2, <1>4, <1>6, <2>1, SettingsStay DEF Late
<1> QED
  BY <1>5, <1>7, <1>8 DEF ConfigInv

LEMMA RenameConfig ==
    ASSUME Marks, ConfigInv, NEW r \in Requests, Rename(r)
    PROVE  ConfigInv'
<1>1. FilesInv /\ ReqTypes /\ PastTypes /\ DiskTypes /\ Shaped /\ StateWhole /\ SettingsOnTheirWay
      /\ Undisturbed("state") /\ Undisturbed("ini")
  BY DEF ConfigInv, FilesInv
<1>2. PICK file \in {"state", "ini"} : file = FileOf(r)
  BY DEF FileOf
<1>3. /\ req[r].step = "written" /\ r \in UnderWay /\ Writes(r) = TmpOf(file)
      /\ \A other \in {"state", "ini"} : req[r].kind \in KindsOf(other) <=> other = file
      /\ UNCHANGED <<memory, settings, runtime, retention>>
  BY <1>1, <1>2, FileFacts DEF AtFile, Rename
<1>4. CASE names[TmpOf(file)] = None
  <2>1. Finish(r, "error") /\ UNCHANGED <<disk, past>>
    BY <1>3, <1>4 DEF Rename
  <2>2. Moves(r) /\ req'[r].step = "error" /\ RequestOK(req'[r])
    BY <1>1, <2>1, FinishMoves DEF Ends
  <2>3. PastTypes' /\ IsState(memory') /\ IsSettings(settings')
    BY <1>1, <1>3, <2>1 DEF PastTypes, Shaped
  <2>4. FilesInv'
    BY <1>1, <1>3, <2>1, <2>2, <2>3, GoneOn DEF Ends, OnWorker, AtFile
  <2>5. Content("state")' = Content("state") /\ Content("ini")' = Content("ini")
    BY <2>1 DEF Content, disk
  <2>6. StateWhole'
    BY <1>1, <2>1, <2>5, WholeStays
  <2>7. SettingsOnTheirWay'
    BY <1>1, <1>3, <2>1, <2>2, <2>5, SettingsStay DEF Late
  <2> QED
    BY <2>4, <2>6, <2>7 DEF ConfigInv
<1>5. CASE names[TmpOf(file)] # None
  <2>1. /\ Moves(r) /\ RequestOK(req'[r]) /\ req'[r].step = "renamed"
        /\ req'[r].kind = req[r].kind /\ req'[r].copy = req[r].copy
        /\ inode' = [i \in Files |-> IF i = names[file] THEN Torn ELSE inode[i]]
        /\ names' = [names EXCEPT ![file] = names[TmpOf(file)], ![TmpOf(file)] = None]
        /\ Met("state")' = Met("state") /\ Met("ini")' = Met("ini")
        /\ past'.broken = past.broken
    BY <1>1, <1>2, <1>5, RenameFacts
  <2>2. PastTypes'
    <3>1. past' = [past EXCEPT !.issued = @ \cup IssuedBy(r), !.undone = @ \cup req[r].undoes]
      BY <1>3, <1>5 DEF Rename
    <3>2. PICK m, u, i, l, b, v, w :
            /\ past = [met |-> m, undone |-> u, issued |-> i, left |-> l, broken |-> b]
            /\ m = [saves |-> m.saves, puts |-> m.puts]
            /\ v = i \cup IssuedBy(r) /\ w = u \cup req[r].undoes
      BY <1>1 DEF PastTypes
    <3>3. past' = [met |-> m, undone |-> w, issued |-> v, left |-> l, broken |-> b]
      BY <3>1, <3>2
    <3> QED
      BY <3>2, <3>3 DEF PastTypes
  <2>3. ReqTypes'
    BY <1>1, <1>3, <2>1, StepTypes DEF OnWorker
  <2>4. FilesInv'
    BY <1>1, <1>2, <1>5, <2>2, <2>3, RenameKeeps
  <2>5. ASSUME NEW other \in {"state", "ini"}, other # file
        PROVE  Content(other)' = Content(other)
    <3>1. /\ other \in FileNames /\ other # TmpOf(file) /\ file \in FileNames
          /\ names[other] # None => names[other] # names[file] /\ names[other] \in Files
      BY <1>1, <2>5 DEF FileNames, TmpOf, DiskTypes
    <3>2. names'[other] = names[other]
      BY <1>1, <2>1, <2>5, <3>1 DEF DiskTypes
    <3>3. names[other] # None => inode'[names[other]] = inode[names[other]]
      BY <2>1, <3>1
    <3> QED
      BY <3>2, <3>3, SameContent
  <2>6. ASSUME Met(file) = {} PROVE Content(file)' = req[r].copy /\ req[r].copy \notin {None, Torn}
    <3>1. inode[names[TmpOf(file)]] = req[r].copy
      BY <1>1, <1>3, <2>6 DEF Undisturbed, OnItsOwn
    <3>2. /\ names[TmpOf(file)] \in Files /\ names[TmpOf(file)] # names[file]
          /\ names'[file] = names[TmpOf(file)]
      BY <1>1, <1>5, <2>1, Pairs DEF DiskTypes
    <3>3. Content(file)' = req[r].copy
      BY <1>5, <2>1, <3>1, <3>2 DEF Content
    <3>4. Fits(file, req[r].copy)
      BY <1>1, <1>3 DEF Shaped
    <3> QED
      BY <3>3, <3>4 DEF Marks, Fits
  <2>7. StateWhole'
    <3>1. CASE file = "state"
      <4> SUFFICES ASSUME past'.met.saves = {} PROVE StateWhole'
        BY DEF StateWhole, SavesAlone
      <4>1. Met("state") = {}
        BY <2>1 DEF Met
      <4> QED
        BY <1>1, <2>1, <2>6, <3>1, <4>1 DEF StateWhole, SavesAlone, Met
    <3>2. CASE file = "ini"
      BY <1>1, <2>1, <2>5, <3>2, WholeStays DEF Met
    <3> QED
      BY <3>1, <3>2
  <2>8. SettingsOnTheirWay'
    <3>1. CASE file = "state"
      BY <1>1, <1>3, <2>1, <2>5, <3>1, SettingsStay DEF Met, KindsOf
    <3>2. CASE file = "ini"
      <4> SUFFICES ASSUME past'.met.puts = {} PROVE SettingsOnTheirWay'
        BY DEF SettingsOnTheirWay
      <4>1. Met("ini") = {}
        BY <2>1 DEF Met
      <4>2. Parsed' = req[r].copy
        <5>1. Content("ini")' = req[r].copy /\ req[r].copy \notin {None, Torn}
          BY <2>6, <3>2, <4>1
        <5> QED
          BY <5>1 DEF Parsed
      <4>3. req'[r].kind \in Patches
        BY <1>3, <2>1, <3>2 DEF KindsOf
      <4>4. ASSUME NEW x \in Requests, req'[x].kind \in Patches, req'[x].step \in Late PROVE x = r
        <5>1. CASE x # r
          <6>1. req'[x] = req[x] /\ x \in UnderWay
            BY <2>1, <4>4, <5>1 DEF Moves, UnderWay, Late, Ends
          <6> QED
            BY <1>1, <1>3, <3>2, <4>1, <4>4, <6>1 DEF Undisturbed, OnItsOwn, Met, KindsOf
        <5> QED
          BY <5>1
      <4> QED
        BY <2>1, <4>2, <4>3, <4>4 DEF SettingsOnTheirWay, Late
    <3> QED
      BY <3>1, <3>2
  <2> QED
    BY <2>4, <2>7, <2>8 DEF ConfigInv
<1> QED
  BY <1>4, <1>5

(* A request that goes on, or ends, with the files as they are.            *)
LEMMA GoneOnConfig ==
    ASSUME ConfigInv, NEW r \in Requests, GoesOn(r), req[r].step \notin Ends \cup {"new"},
           UNCHANGED disk, past'.met = past.met, past'.broken = past.broken,
           PastTypes', IsState(memory'), IsSettings(settings')
    PROVE  /\ FilesInv' /\ StateWhole' /\ Content("ini")' = Content("ini")
           /\ (UNCHANGED <<settings, runtime, retention>> /\ req[r].kind \notin Patches) =>
                 SettingsOnTheirWay'
<1>1. FilesInv'
  BY GoneOn DEF GoesOn, ConfigInv
<1>2. Content("state")' = Content("state") /\ Content("ini")' = Content("ini")
  BY DEF Content, disk
<1>3. StateWhole'
  BY <1>2, WholeStays DEF ConfigInv
<1>4. ASSUME UNCHANGED <<settings, runtime, retention>>, req[r].kind \notin Patches
      PROVE  SettingsOnTheirWay'
  <2>1. req'[r].kind \in Patches => req'[r].step \notin Late
    BY <1>4 DEF GoesOn, Late, Ends, AtFile
  <2> QED
    BY <1>2, <1>4, <2>1, SettingsStay DEF GoesOn, ConfigInv, AtFile, Late
<1> QED
  BY <1>1, <1>2, <1>3, <1>4

LEMMA StoreStateConfig ==
    ASSUME ConfigInv, NEW r \in Requests, StoreState(r)
    PROVE  ConfigInv'
<1>1. FilesInv /\ ReqTypes /\ PastTypes /\ Shaped /\ IsSettings(settings)
  BY DEF ConfigInv, FilesInv, Shaped
<1>2. /\ req[r].step = "renamed" /\ req[r].kind \in Saves /\ memory' = req[r].copy
      /\ UNCHANGED <<settings, runtime, retention, disk>>
      /\ \/ Goto(r, "stored") /\ past' = [past EXCEPT !.left = @ \cup ({req[r].id} \cap SeenElsewhere)]
         \/ Finish(r, "ok") /\ past' = past
  BY DEF StoreState
<1>3. IsState(memory') /\ req[r].kind \notin Patches
  <2>1. r \in UnderWay
    BY <1>2 DEF UnderWay, Ends
  <2>2. Fits("state", req[r].copy)
    BY <1>1, <1>2, <2>1 DEF Shaped, KindsOf
  <2> QED
    BY <1>2, <2>2 DEF Fits, Saves, Patches
<1>4. RequestOK(req[r])
  BY <1>1 DEF ReqTypes
<1>5. CASE Goto(r, "stored") /\ past' = [past EXCEPT !.left = @ \cup ({req[r].id} \cap SeenElsewhere)]
  <2>1. /\ Moves(r) /\ IsRequest(req'[r]) /\ req'[r].step = "stored" /\ req'[r].kind = req[r].kind
        /\ req'[r].copy = req[r].copy /\ req'[r].fd = req[r].fd
    BY <1>1, <1>5, GotoMoves
  <2>2. RequestOK(req'[r])
    BY <1>2, <1>4, <2>1 DEF RequestOK, Steps, OnWorker
  <2>3. PastTypes' /\ past'.met = past.met /\ past'.broken = past.broken
    BY <1>1, <1>5, SMT DEF PastTypes
  <2>4. FilesInv' /\ StateWhole' /\ SettingsOnTheirWay'
    BY <1>1, <1>2, <1>3, <2>1, <2>2, <2>3, GoneOnConfig DEF GoesOn, AtFile, OnWorker, Ends
  <2> QED
    BY <2>4 DEF ConfigInv
<1>6. CASE Finish(r, "ok") /\ past' = past
  <2>1. Moves(r) /\ req'[r].step = "ok" /\ RequestOK(req'[r])
    BY <1>1, <1>6, FinishMoves DEF Ends
  <2>2. PastTypes'
    BY <1>1, <1>6 DEF PastTypes
  <2>3. FilesInv' /\ StateWhole' /\ SettingsOnTheirWay'
    BY <1>1, <1>2, <1>3, <1>6, <2>1, <2>2, GoneOnConfig DEF GoesOn, AtFile, OnWorker, Ends
  <2> QED
    BY <2>3 DEF ConfigInv
<1> QED
  BY <1>2, <1>5, <1>6

(* The steps that deal with messages only.                                 *)
LEMMA MessagesGoOn ==
    ASSUME ReqTypes, NEW r \in Requests, Find(r) \/ Ungroup(r) \/ FindAll(r) \/ Sort(r)
    PROVE  GoesOn(r) /\ req'[r].step # "new" /\ req[r].step \in {"stored", "ungroup", "page", "regroup"}
<1>1. ReqTypes /\ RequestOK(req[r])
  BY DEF ReqTypes
<1>4. GoesOn(r) /\ req'[r].step # "new"
  <2>1. CASE Finish(r, "ok")
    BY <1>1, <2>1, FinishMoves DEF GoesOn, Ends, OnWorker, AtFile
  <2>2. CASE req' = [req EXCEPT ![r].step = "ungroup", ![r].page = Page(InGroup(req[r].id))]
             /\ req[r].step = "stored"
    <3>1. /\ Moves(r) /\ IsRequest(req'[r]) /\ req'[r].step = "ungroup"
          /\ req'[r].kind = req[r].kind /\ req'[r].copy = req[r].copy /\ req'[r].fd = req[r].fd
      BY <1>1, <2>2, PageMoves DEF Paged
    <3> QED
      BY <1>1, <2>2, <3>1 DEF GoesOn, RequestOK, Steps, OnWorker, AtFile
  <2>3. CASE req' = [req EXCEPT ![r].step = "regroup", ![r].page = Page(Stored)]
             /\ req[r].step = "page"
    <3>1. /\ Moves(r) /\ IsRequest(req'[r]) /\ req'[r].step = "regroup"
          /\ req'[r].kind = req[r].kind /\ req'[r].copy = req[r].copy /\ req'[r].fd = req[r].fd
      BY <1>1, <2>3, PageMoves DEF Paged
    <3> QED
      BY <1>1, <2>3, <3>1 DEF GoesOn, RequestOK, Steps, OnWorker, AtFile
  <2>4. ASSUME NEW m, req' = [req EXCEPT ![r].page = @ \ {m}], req[r].step \in {"ungroup", "regroup"}
        PROVE  GoesOn(r) /\ req'[r].step # "new"
    <3>1. req' = [req EXCEPT ![r].page = req[r].page \ {m}]
      BY <1>1, <2>4 DEF ReqTypes
    <3>2. /\ Moves(r) /\ IsRequest(req'[r]) /\ req'[r].step = req[r].step
          /\ req'[r].kind = req[r].kind /\ req'[r].copy = req[r].copy /\ req'[r].fd = req[r].fd
      BY <1>1, <3>1, TurnMoves DEF Turned
    <3> QED
      BY <1>1, <2>4, <3>2 DEF GoesOn, RequestOK, Steps, OnWorker, AtFile
  <2> QED
    BY <2>1, <2>2, <2>3, <2>4 DEF Find, Ungroup, FindAll, Sort
<1> QED
  BY <1>4 DEF Find, Ungroup, FindAll, Sort

LEMMA MessagesConfig ==
    ASSUME ConfigInv, NEW r \in Requests, Find(r) \/ Ungroup(r) \/ FindAll(r) \/ Sort(r)
    PROVE  ConfigInv'
<1>1. /\ FilesInv /\ ReqTypes /\ PastTypes /\ IsSettings(settings) /\ IsState(memory)
      /\ RequestOK(req[r])
  BY DEF ConfigInv, FilesInv, Shaped, ReqTypes
<1>2. /\ req[r].step \in {"stored", "ungroup", "page", "regroup"}
      /\ UNCHANGED <<memory, settings, runtime, retention, disk>>
  BY DEF Find, Ungroup, FindAll, Sort
<1>3. req[r].kind \notin Patches
  BY <1>1, <1>2 DEF RequestOK, Saves, Patches
<1>4. GoesOn(r)
  BY <1>1, MessagesGoOn
<1>5. PastTypes' /\ past'.met = past.met /\ past'.broken = past.broken
  <2>1. CASE past' = past
    BY <1>1, <2>1 DEF PastTypes
  <2>2. CASE Find(r)
    <3>1. PICK w : past' = [past EXCEPT !.left = w]
      BY <2>2 DEF Find
    <3> QED
      BY <1>1, <3>1, SMT DEF PastTypes
  <2> QED
    BY <2>1, <2>2 DEF Find, Ungroup, FindAll, Sort
<1>6. req[r].step \notin Ends \cup {"new"}
  BY <1>2 DEF Ends
<1>7. FilesInv' /\ StateWhole' /\ SettingsOnTheirWay'
  BY <1>1, <1>2, <1>3, <1>4, <1>5, <1>6, GoneOnConfig
<1> QED
  BY <1>7 DEF ConfigInv

(* A request that is answered at once.                                     *)
AtOnce(r) == SetGroup(r) \/ DeleteMessages(r)

LEMMA AtOnceFiles ==
    ASSUME FilesInv, NEW r \in Requests, AtOnce(r)
    PROVE  /\ FilesInv' /\ Moves(r) /\ req[r].step = "new" /\ req[r].kind = None
           /\ req'[r].step \in {"ok", "notFound"} /\ req'[r].kind = None
           /\ \E end \in {"ok", "notFound"} : Finish(r, end)
           /\ UNCHANGED <<memory, settings, runtime, retention, disk, intake>> /\ past' = past
<1>1. /\ CanStart(r) /\ req[r].step = "new"
      /\ UNCHANGED <<memory, settings, runtime, retention, disk, intake>> /\ past' = past
  BY DEF AtOnce, SetGroup, DeleteMessages, CanStart
<1>2. ReqTypes /\ PastTypes /\ IsState(memory) /\ IsSettings(settings)
  BY DEF FilesInv, Shaped
<1>3. PICK end \in {"ok", "notFound"} : Finish(r, end)
  BY DEF AtOnce, SetGroup, DeleteMessages
<1>4. end \in Ends
  BY DEF Ends
<1>5. /\ Moves(r) /\ req'[r].step = end /\ RequestOK(req'[r])
      /\ req'[r].kind \in {req[r].kind, None}
  BY <1>2, <1>3, <1>4, FinishMoves
<1>6. req[r].kind = None
  BY <1>1, <1>2 DEF ReqTypes, RequestOK
<1>7. req'[r].kind = None
  BY <1>5, <1>6
<1>8. ReqTypes' /\ PastTypes'
  BY <1>1, <1>2, <1>4, <1>5, MoveTypes, ConfigAssumption DEF PastTypes, OnWorker, Ends
<1>9. Proper(r)
  BY <1>1, <1>4, <1>5 DEF Proper, Met
<1>10. req'[r].step \notin {"opened", "written"}
  BY <1>5
<1>11. FilesInv'
  BY <1>1, <1>2, <1>5, <1>8, <1>9, <1>10, ElsewhereKeeps
<1> QED
  BY <1>1, <1>3, <1>5, <1>6, <1>7, <1>11

(* The settings on their way: the one request that brings them.            *)
LEMMA OneBrings ==
    ASSUME ConfigInv, NEW r \in Requests, past.met.puts = {},
           req[r].kind \in Patches, req[r].step \in Late, Moves(r)
    PROVE  \A x \in Requests :
              req'[x].kind \in Patches /\ req'[x].step \in Late => x = r
<1>1. Undisturbed("ini") /\ Met("ini") = {} /\ r \in UnderWay
  BY DEF ConfigInv, FilesInv, Met, UnderWay, Late, Ends
<1>2. ASSUME NEW x \in Requests, x # r, req'[x].kind \in Patches, req'[x].step \in Late PROVE FALSE
  <2>1. req'[x] = req[x] /\ x \in UnderWay
    BY <1>2 DEF Moves, UnderWay, Late, Ends
  <2> QED
    BY <1>1, <1>2, <2>1 DEF Undisturbed, OnItsOwn, KindsOf
<1> QED
  BY <1>2

LEMMA SettingsGoOn ==
    ASSUME ReqTypes, NEW r \in Requests, SetRuntime(r) \/ StoreSettings(r) \/ SetRetention(r)
    PROVE  /\ GoesOn(r) /\ req[r].kind \in Patches /\ req[r].step \in Late
           /\ SetRuntime(r) => req'[r].step = "runtime"
           /\ StoreSettings(r) => req'[r].step = "retain"
           /\ SetRetention(r) => req'[r].step = "ok"
           /\ SetRuntime(r) \/ StoreSettings(r) => req'[r].kind = req[r].kind /\ req'[r].copy = req[r].copy
<1>1. ReqTypes /\ RequestOK(req[r])
  BY DEF ReqTypes
<1>2. req[r].step \in Late /\ req[r].kind \in Patches
  BY <1>1 DEF SetRuntime, StoreSettings, SetRetention, Late, RequestOK
<1>3. /\ GoesOn(r)
      /\ SetRuntime(r) => req'[r].step = "runtime"
      /\ StoreSettings(r) => req'[r].step = "retain"
      /\ SetRetention(r) => req'[r].step = "ok"
      /\ SetRuntime(r) \/ StoreSettings(r) => req'[r].kind = req[r].kind /\ req'[r].copy = req[r].copy
  <2>1. CASE SetRuntime(r)
    <3>1. req[r].step = "renamed" /\ Goto(r, "runtime")
      BY <2>1 DEF SetRuntime
    <3>2. /\ Moves(r) /\ IsRequest(req'[r]) /\ req'[r].step = "runtime" /\ req'[r].kind = req[r].kind
          /\ req'[r].copy = req[r].copy /\ req'[r].fd = req[r].fd
      BY <1>1, <3>1, GotoMoves
    <3> QED
      BY <1>1, <1>2, <3>1, <3>2 DEF GoesOn, RequestOK, Steps, OnWorker, AtFile, StoreSettings, SetRetention
  <2>2. CASE StoreSettings(r)
    <3>1. req[r].step = "runtime" /\ Goto(r, "retain")
      BY <2>2 DEF StoreSettings
    <3>2. /\ Moves(r) /\ IsRequest(req'[r]) /\ req'[r].step = "retain" /\ req'[r].kind = req[r].kind
          /\ req'[r].copy = req[r].copy /\ req'[r].fd = req[r].fd
      BY <1>1, <3>1, GotoMoves
    <3> QED
      BY <1>1, <1>2, <3>1, <3>2 DEF GoesOn, RequestOK, Steps, OnWorker, AtFile, SetRuntime, SetRetention
  <2>3. CASE SetRetention(r)
    <3>1. req[r].step = "retain" /\ Finish(r, "ok")
      BY <2>3 DEF SetRetention
    <3>2. Moves(r) /\ req'[r].step = "ok" /\ RequestOK(req'[r])
      BY <1>1, <3>1, FinishMoves DEF Ends
    <3> QED
      BY <3>1, <3>2 DEF GoesOn, Ends, OnWorker, AtFile, SetRuntime, StoreSettings
  <2> QED
    BY <2>1, <2>2, <2>3
<1> QED
  BY <1>2, <1>3

LEMMA PutConfig ==
    ASSUME ConfigInv, NEW r \in Requests, SetRuntime(r) \/ StoreSettings(r) \/ SetRetention(r)
    PROVE  ConfigInv'
<1>1. /\ FilesInv /\ ReqTypes /\ PastTypes /\ IsState(memory) /\ IsSettings(settings)
      /\ RequestOK(req[r]) /\ SettingsOnTheirWay
  BY DEF ConfigInv, FilesInv, Shaped, ReqTypes
<1>2. /\ UNCHANGED <<memory, disk>> /\ past' = past /\ req[r].step \in Late
      /\ req[r].kind \in Patches
  BY <1>1 DEF SetRuntime, StoreSettings, SetRetention, Late, RequestOK
<1>3. /\ GoesOn(r)
      /\ SetRuntime(r) => req'[r].step = "runtime"
      /\ StoreSettings(r) => req'[r].step = "retain"
      /\ SetRetention(r) => req'[r].step = "ok"
      /\ SetRuntime(r) \/ StoreSettings(r) => req'[r].kind = req[r].kind /\ req'[r].copy = req[r].copy
  BY <1>1, SettingsGoOn
<1>4. IsState(memory') /\ IsSettings(settings')
  <2>1. r \in UnderWay
    BY <1>2 DEF UnderWay, Late, Ends
  <2>2. IsSettings(req[r].copy)
    <3>1. Fits("ini", req[r].copy)
      BY <1>1, <1>2, <2>1 DEF FilesInv, Shaped, KindsOf
    <3> QED
      BY <3>1 DEF Fits
  <2> QED
    BY <1>1, <1>2, <2>2 DEF SetRuntime, StoreSettings, SetRetention
<1>5. PastTypes' /\ past'.met = past.met /\ past'.broken = past.broken
  BY <1>1, <1>2 DEF PastTypes
<1>6. FilesInv' /\ StateWhole' /\ Content("ini")' = Content("ini")
  BY <1>2, <1>3, <1>4, <1>5, GoneOnConfig DEF Late, Ends
<1>7. SettingsOnTheirWay'
  <2> SUFFICES ASSUME past'.met.puts = {} PROVE SettingsOnTheirWay'
    BY DEF SettingsOnTheirWay
  <2>1. past.met.puts = {}
    BY <1>2
  <2>2. Parsed' = Parsed
    BY <1>6 DEF Parsed
  <2>3. \A x \in Requests : req'[x].kind \in Patches /\ req'[x].step \in Late => x = r
    BY <1>2, <1>3, <2>1, OneBrings DEF GoesOn
  <2>4. /\ Parsed = req[r].copy
        /\ req[r].step \in {"runtime", "retain"} => runtime = req[r].copy.account
        /\ req[r].step = "retain" => settings = req[r].copy
    BY <1>1, <1>2, <2>1 DEF SettingsOnTheirWay, Late
  <2>5. CASE SetRuntime(r)
    <3>1. runtime' = req[r].copy.account /\ req'[r].step = "runtime"
          /\ req'[r].kind = req[r].kind /\ req'[r].copy = req[r].copy
      BY <1>3, <2>5 DEF SetRuntime
    <3> QED
      BY <1>2, <2>2, <2>3, <2>4, <3>1 DEF SettingsOnTheirWay, Late
  <2>6. CASE StoreSettings(r)
    <3>1. /\ settings' = req[r].copy /\ runtime' = runtime /\ req'[r].step = "retain"
          /\ req'[r].kind = req[r].kind /\ req'[r].copy = req[r].copy /\ req[r].step = "runtime"
      BY <1>3, <2>6 DEF StoreSettings
    <3> QED
      BY <1>2, <2>2, <2>3, <2>4, <3>1 DEF SettingsOnTheirWay, Late
  <2>7. CASE SetRetention(r)
    <3>1. /\ retention' = req[r].copy.limit /\ runtime' = runtime /\ settings' = settings
          /\ req'[r].step = "ok" /\ req[r].step = "retain"
      BY <1>3, <2>7 DEF SetRetention
    <3>2. \A x \in Requests : req'[x].kind \in Patches => req'[x].step \notin Late
      BY <2>3, <3>1 DEF Late
    <3> QED
      BY <2>2, <2>4, <3>1, <3>2 DEF SettingsOnTheirWay, Late
  <2> QED
    BY <2>5, <2>6, <2>7
<1> QED
  BY <1>6, <1>7 DEF ConfigInv

(* A request that begins.                                                  *)
LEMMA BeginConfig ==
    ASSUME ConfigInv, NEW r \in Requests, Mutate(r) \/ PutSettings(r) \/ Regroup(r) \/ AtOnce(r)
    PROVE  ConfigInv'
<1>1. FilesInv /\ ReqTypes /\ PastTypes /\ StateWhole /\ SettingsOnTheirWay
  BY DEF ConfigInv, FilesInv
<1>2. /\ FilesInv' /\ past'.broken = past.broken
      /\ past'.met.saves = {} => past.met.saves = {}
      /\ past'.met.puts = {} => past.met.puts = {}
  <2>1. CASE Mutate(r)
    BY <1>1, <2>1, MutateFiles DEF Met
  <2>2. CASE PutSettings(r)
    BY <1>1, <2>2, PutSettingsFiles
  <2>3. CASE Regroup(r)
    BY <1>1, <2>3, RegroupFiles DEF Regroup
  <2>4. CASE AtOnce(r)
    BY <1>1, <2>4, AtOnceFiles
  <2> QED
    BY <2>1, <2>2, <2>3, <2>4
<1>3. UNCHANGED <<settings, runtime, retention, disk>>
  BY DEF Mutate, PutSettings, Regroup, AtOnce, SetGroup, DeleteMessages
<1>4. Content("state")' = Content("state") /\ Content("ini")' = Content("ini")
  BY <1>3 DEF Content, disk
<1>5. Moves(r) /\ req[r].step = "new" /\ req'[r].step \notin Late
  <2>1. CASE Mutate(r)
    BY <1>1, <2>1, MutateFiles DEF Late
  <2>2. CASE PutSettings(r)
    BY <1>1, <2>2, PutSettingsFiles DEF Late
  <2>3. CASE Regroup(r)
    BY <1>1, <2>3, RegroupFiles DEF Late, Regroup, CanStart
  <2>4. CASE AtOnce(r)
    BY <1>1, <2>4, AtOnceFiles DEF Late
  <2> QED
    BY <2>1, <2>2, <2>3, <2>4
<1>6. StateWhole'
  BY <1>1, <1>2, <1>4, WholeStays
<1>7. SettingsOnTheirWay'
  BY <1>1, <1>2, <1>3, <1>4, <1>5, SettingsStay DEF Late
<1> QED
  BY <1>2, <1>6, <1>7 DEF ConfigInv

LEMMA RestartConfig ==
    ASSUME ConfigInv, Restart
    PROVE  ConfigInv'
<1>1. /\ FilesInv' /\ UnderWay' = {}
      /\ past'.broken = (past.broken \/ Content("state") = Torn)
      /\ past'.met.saves = past.met.saves
      /\ inode' = inode /\ \A f \in FileNames : f # "state" => names'[f] = names[f]
      /\ names'["state"] = IF Content("state") = Torn THEN None ELSE names["state"]
  BY RestartFiles DEF ConfigInv
<1>2. StateWhole'
  <2> SUFFICES ASSUME past'.met.saves = {} PROVE StateWhole'
    BY DEF StateWhole, SavesAlone
  <2>1. ~ past.broken /\ Content("state") # Torn
    BY <1>1 DEF ConfigInv, StateWhole, SavesAlone
  <2>2. Content("state")' = Content("state")
    BY <1>1, <2>1, SameContent
  <2> QED
    BY <1>1, <2>1, <2>2 DEF StateWhole, SavesAlone
<1>3. Parsed' = Parsed
  <2>1. Content("ini")' = Content("ini")
    BY <1>1, SameContent DEF FileNames
  <2> QED
    BY <2>1 DEF Parsed
<1>4. \A r \in Requests : req'[r].step \notin Late
  BY <1>1 DEF UnderWay, Late, Ends
<1>5. settings' = Parsed /\ runtime' = Parsed.account /\ retention' = Parsed.limit
  BY DEF Restart
<1>6. SettingsOnTheirWay'
  BY <1>3, <1>4, <1>5 DEF SettingsOnTheirWay, Late
<1> QED
  BY <1>1, <1>2, <1>6 DEF ConfigInv

LEMMA SameConfig ==
    ASSUME ConfigInv, UNCHANGED <<memory, settings, runtime, retention, disk, req, past>>
    PROVE  ConfigInv'
<1>1. FilesInv'
  BY SameFiles DEF ConfigInv
<1>2. Content("state")' = Content("state") /\ Content("ini")' = Content("ini")
  BY DEF Content, disk
<1>3. StateWhole'
  BY <1>2, WholeStays DEF ConfigInv
<1>4. Parsed' = Parsed
  BY <1>2 DEF Parsed
<1>5. SettingsOnTheirWay'
  BY <1>4 DEF ConfigInv, SettingsOnTheirWay
<1> QED
  BY <1>1, <1>3, <1>5 DEF ConfigInv

LEMMA InitConfig == Init => ConfigInv
<1> SUFFICES ASSUME Init PROVE ConfigInv
  OBVIOUS
<1>1. /\ memory = Blank /\ settings = Factory /\ runtime = None /\ retention = None
      /\ inode = [i \in Files |-> Torn] /\ names = [f \in FileNames |-> None]
      /\ req = [r \in Requests |-> Idle]
  BY DEF Init, FileNames
<1>2. PastTypes /\ past.met.puts = {} /\ past.broken = FALSE
  BY DEF Init, PastTypes
<1>3. \A r \in Requests : req[r].step = "new" /\ RequestOK(req[r])
  <2>1. Idle.step = "new" /\ Idle.kind = None /\ Idle.fd = None
    BY DEF Idle
  <2>2. RequestOK(Idle)
    BY <2>1, IdleIsRequest DEF RequestOK, Steps
  <2> QED
    BY <1>1, <2>1, <2>2
<1>4. UnderWay = {} /\ Working = {}
  BY <1>3 DEF UnderWay, Working, OnWorker
<1>5. ReqTypes
  <2>1. IsFiniteSet({}) /\ Cardinality({}) = 0
    BY FS_EmptySet
  <2>2. IsFiniteSet(Working) /\ Cardinality(Working) <= Workers
    BY <1>4, <2>1, ConfigAssumption
  <2> QED
    BY <1>1, <1>3, <2>2 DEF ReqTypes
<1>6. DiskTypes
  BY <1>1 DEF DiskTypes
<1>7. OpenApart
  BY <1>3 DEF OpenApart
<1>8. Shaped
  <2>1. \A file \in {"state", "ini"} : \A f \in PairOf(file) : names[f] = None
    BY <1>1, Pairs
  <2> QED
    BY <1>1, <1>4, <2>1, StartShapes DEF Shaped
<1>9. \A file : Undisturbed(file)
  BY <1>3, <1>4 DEF Undisturbed
<1>10. Content("state") = None /\ Content("ini") = None
  BY <1>1 DEF Content, FileNames
<1>11. StateWhole
  BY <1>2, <1>10, ConfigAssumption DEF StateWhole
<1>12. SettingsOnTheirWay
  <2>1. Parsed = Factory
    BY <1>10 DEF Parsed
  <2> QED
    BY <1>1, <1>3, <2>1 DEF SettingsOnTheirWay, Factory
<1> QED
  BY <1>2, <1>5, <1>6, <1>7, <1>8, <1>9, <1>11, <1>12 DEF ConfigInv, FilesInv

LEMMA NextConfig ==
    ASSUME Marks, ConfigInv, [Next]_vars
    PROVE  ConfigInv'
<1>1. CASE UNCHANGED vars
  BY <1>1, SameConfig DEF vars
<1>2. CASE TakeMessage \/ StoreMessage
  BY <1>2, SameConfig DEF TakeMessage, StoreMessage
<1>3. CASE Restart
  BY <1>3, RestartConfig
<1>4. ASSUME NEW r \in Requests, Request(r) PROVE ConfigInv'
  <2>1. CASE Mutate(r) \/ PutSettings(r) \/ Regroup(r) \/ AtOnce(r)
    BY <2>1, BeginConfig
  <2>2. CASE Open(r)
    BY <2>2, OpenConfig
  <2>3. CASE Write(r)
    BY <2>3, WriteConfig
  <2>4. CASE Rename(r)
    BY <2>4, RenameConfig
  <2>5. CASE StoreState(r)
    BY <2>5, StoreStateConfig
  <2>6. CASE Find(r) \/ Ungroup(r) \/ FindAll(r) \/ Sort(r)
    BY <2>6, MessagesConfig
  <2>7. CASE SetRuntime(r) \/ StoreSettings(r) \/ SetRetention(r)
    BY <2>7, PutConfig
  <2> QED
    BY <1>4, <2>1, <2>2, <2>3, <2>4, <2>5, <2>6, <2>7 DEF Request, AtOnce
<1> QED
  BY <1>1, <1>2, <1>3, <1>4 DEF Next

-----------------------------------------------------------------------------
(* However many requests there are, and wherever the process ends: while   *)
(* no two saves have overlapped, no torn state file is there and none has  *)
(* been found at a start (State::save, mutate, State::load).               *)
THEOREM TornTheorem ==
    ASSUME Marks
    PROVE  Spec => []TornNeedsOverlap
<1>1. Init => ConfigInv
  BY InitConfig
<1>2. ConfigInv /\ [Next]_vars => ConfigInv'
  BY NextConfig
<1>3. ConfigInv => TornNeedsOverlap
  BY DEF ConfigInv, StateWhole, TornNeedsOverlap
<1> QED
  BY <1>1, <1>2, <1>3, PTL DEF Spec

(* While no settings are being put, the file, the memory, the SMTP server  *)
(* and the store agree on them, unless two requests overlapped since the   *)
(* start (put_settings, config::load).                                     *)
THEOREM SettingsTheorem ==
    ASSUME Marks
    PROVE  Spec => []SettingsAgree
<1>1. Init => ConfigInv
  BY InitConfig
<1>2. ConfigInv /\ [Next]_vars => ConfigInv'
  BY NextConfig
<1>3. ConfigInv => SettingsAgree
  <2> SUFFICES ASSUME ConfigInv, past.met.puts = {}, \A r \in UnderWay : req[r].kind \notin Patches
               PROVE  settings = Parsed /\ runtime = settings.account /\ retention = settings.limit
    BY DEF SettingsAgree
  <2>1. \A r \in Requests : req[r].step \in Late => r \in UnderWay
    BY DEF UnderWay, Late, Ends
  <2> QED
    BY <2>1 DEF ConfigInv, SettingsOnTheirWay, Late
<1> QED
  BY <1>1, <1>2, <1>3, PTL DEF Spec

-----------------------------------------------------------------------------
(* What a save may put in the file: what it is, what is about to become    *)
(* it, and the copies.                                                     *)

Saving  == {x \in Requests : req[x].step \in AtFile /\ req[x].kind \in Saves}
Pending == \E x \in Saving : req[x].step \in {"opened", "written"}
Real(s) == IF s \in {None, Torn} THEN {} ELSE {s}
InFile  == Real(Content("state"))
Sources == InFile \cup {req[x].copy : x \in Saving}
           \cup (IF Pending THEN Real(Content("stateTmp")) ELSE {})

(* A request that is under way and goes on, or ends, is what it was.       *)
Keeps(r) ==
    /\ req'[r].undoes = req[r].undoes
    /\ req'[r].step \in Ends \ {"ok"} \/ (req'[r].kind = req[r].kind /\ req'[r].id = req[r].id)

LEMMA StepOnly ==
    ASSUME ReqTypes, NEW r \in Requests, NEW step, NEW f \in {"fd", "page"}, NEW v,
           \/ req' = [req EXCEPT ![r].step = step]
           \/ req' = [req EXCEPT ![r].step = step, ![r][f] = v]
    PROVE  Keeps(r)
<1>1. req = [x \in Requests |-> req[x]] /\ IsRequest(req[r])
  BY DEF ReqTypes, RequestOK
<1> DEFINE p == [req[r] EXCEPT !.step = step]
           q == [p EXCEPT ![f] = v]
<1>2. req'[r] = p \/ req'[r] = q
  <2>1. CASE req' = [req EXCEPT ![r].step = step]
    BY <1>1, <2>1
  <2>2. CASE req' = [req EXCEPT ![r].step = step, ![r][f] = v]
    BY <1>1, <2>2
  <2> QED
    BY <2>1, <2>2
<1>3. IsRequest(p) /\ \A g \in Fields : p[g] = IF g = "step" THEN step ELSE req[r][g]
  BY <1>1, FieldSet DEF Fields
<1> HIDE DEF p
<1>4. IsRequest(q) /\ \A g \in Fields : q[g] = IF g = f THEN v ELSE p[g]
  BY <1>3, FieldSet DEF Fields
<1> HIDE DEF q
<1>5. \A g \in {"kind", "id", "undoes"} : g \in Fields /\ g # "step" /\ g # f
  BY DEF Fields
<1>6. \A g \in {"kind", "id", "undoes"} : req'[r][g] = req[r][g]
  BY <1>2, <1>3, <1>4, <1>5
<1> QED
  BY <1>6 DEF Keeps

LEMMA PageOnly ==
    ASSUME ReqTypes, NEW r \in Requests, NEW page, req' = [req EXCEPT ![r].page = page]
    PROVE  Keeps(r)
<1>1. req = [x \in Requests |-> req[x]] /\ IsRequest(req[r])
  BY DEF ReqTypes, RequestOK
<1> DEFINE q == [req[r] EXCEPT !.page = page]
<1>2. req'[r] = q
  BY <1>1
<1>3. \A g \in Fields : q[g] = IF g = "page" THEN page ELSE req[r][g]
  BY <1>1, FieldSet DEF Fields
<1> HIDE DEF q
<1> QED
  BY <1>2, <1>3 DEF Keeps, Fields

LEMMA FinishKeeps ==
    ASSUME ReqTypes, NEW r \in Requests, NEW end \in Ends, Finish(r, end)
    PROVE  Keeps(r)
<1>1. req = [x \in Requests |-> req[x]] /\ IsRequest(req[r])
  BY DEF ReqTypes, RequestOK
<1>2. CASE end = "ok"
  <2>1. req' = [req EXCEPT ![r] = [req[r] EXCEPT !.step = end, !.copy = None, !.fd = None]]
    BY <1>1, <1>2 DEF Finish
  <2> DEFINE p == [req[r] EXCEPT !.step = end]
             o == [p EXCEPT !.copy = None]
             q == [o EXCEPT !.fd = None]
  <2>2. req'[r] = q
    BY <1>1, <2>1
  <2>3. IsRequest(p) /\ \A g \in Fields : p[g] = IF g = "step" THEN end ELSE req[r][g]
    BY <1>1, FieldSet DEF Fields
  <2> HIDE DEF p
  <2>4. IsRequest(o) /\ \A g \in Fields : o[g] = IF g = "copy" THEN None ELSE p[g]
    BY <2>3, FieldSet DEF Fields
  <2> HIDE DEF o
  <2>5. IsRequest(q) /\ \A g \in Fields : q[g] = IF g = "fd" THEN None ELSE o[g]
    BY <2>4, FieldSet DEF Fields
  <2> HIDE DEF q
  <2> QED
    BY <2>2, <2>3, <2>4, <2>5 DEF Keeps, Fields
<1>3. CASE end # "ok"
  <2> DEFINE p == [Idle EXCEPT !.step = end]
             q == [p EXCEPT !.undoes = req[r].undoes]
  <2>1. req' = [req EXCEPT ![r] = q]
    BY <1>3 DEF Finish
  <2>2. IsRequest(p) /\ \A g \in Fields : p[g] = IF g = "step" THEN end ELSE Idle[g]
    BY IdleIsRequest, FieldSet DEF Fields
  <2> HIDE DEF p
  <2>3. \A g \in Fields : q[g] = IF g = "undoes" THEN req[r].undoes ELSE p[g]
    BY <2>2, FieldSet DEF Fields
  <2> HIDE DEF q
  <2>4. req'[r] = q
    BY <1>1, <2>1
  <2> QED
    BY <1>3, <2>2, <2>3, <2>4 DEF Keeps, Fields
<1> QED
  BY <1>2, <1>3

LEMMA GoingOn ==
    ASSUME ReqTypes, NEW r \in Requests, Request(r), req[r].step # "new"
    PROVE  Keeps(r)
<1>1. CASE Open(r)
  <2>1. PICK i : req' = [req EXCEPT ![r].step = "opened", ![r].fd = i]
    BY <1>1 DEF Open
  <2>2. req' = [req EXCEPT ![r].step = "opened", ![r]["fd"] = i]
    BY <2>1
  <2> QED
    BY <2>2, StepOnly
<1>2. CASE req' = [req EXCEPT ![r].step = "written", ![r].fd = None]
  <2>1. req' = [req EXCEPT ![r].step = "written", ![r]["fd"] = None]
    BY <1>2
  <2> QED
    BY <2>1, StepOnly
<1>3. CASE \E step : Goto(r, step)
  BY <1>3, StepOnly DEF Goto
<1>4. CASE \E end \in Ends : Finish(r, end)
  BY <1>4, FinishKeeps
<1>5. CASE Find(r)
  <2>1. req' = [req EXCEPT ![r].step = "ungroup", ![r]["page"] = Page(InGroup(req[r].id))]
    BY <1>5 DEF Find
  <2> QED
    BY <2>1, StepOnly
<1>6. CASE FindAll(r)
  <2>1. req' = [req EXCEPT ![r].step = "regroup", ![r]["page"] = Page(Stored)]
    BY <1>6 DEF FindAll
  <2> QED
    BY <2>1, StepOnly
<1>7. CASE \E m : req' = [req EXCEPT ![r].page = @ \ {m}]
  <2>1. PICK m : req' = [req EXCEPT ![r].page = @ \ {m}]
    BY <1>7
  <2>2. req' = [req EXCEPT ![r].page = req[r].page \ {m}]
    BY <2>1 DEF ReqTypes
  <2> QED
    BY <2>2, PageOnly
<1>8. ~ (Mutate(r) \/ Regroup(r) \/ PutSettings(r) \/ AtOnce(r))
  BY DEF Mutate, Regroup, PutSettings, AtOnce, SetGroup, DeleteMessages, CanStart
<1>9. "ok" \in Ends /\ "error" \in Ends
  BY DEF Ends
<1>10. CASE Write(r)
  BY <1>2, <1>4, <1>9, <1>10 DEF Write
<1>11. CASE Rename(r)
  BY <1>3, <1>4, <1>9, <1>11 DEF Rename
<1>12. CASE StoreState(r)
  BY <1>3, <1>4, <1>9, <1>12 DEF StoreState
<1>13. CASE Ungroup(r) \/ Sort(r)
  BY <1>4, <1>7, <1>9, <1>13 DEF Ungroup, Sort
<1>14. CASE SetRuntime(r) \/ StoreSettings(r) \/ SetRetention(r)
  BY <1>3, <1>4, <1>9, <1>14 DEF SetRuntime, StoreSettings, SetRetention
<1> QED
  BY <1>1, <1>5, <1>6, <1>8, <1>10, <1>11, <1>12, <1>13, <1>14 DEF Request, AtOnce

LEMMA Lonely ==
    ASSUME FilesInv, NEW x \in Saving, Alone(x)
    PROVE  Saving = {x} /\ OnItsOwn("state", x)
<1>1. x \in UnderWay /\ \A y \in Saving : y \in UnderWay
  BY DEF Saving, UnderWay, AtFile, Ends
<1>2. OnItsOwn("state", x)
  BY <1>1 DEF FilesInv, Undisturbed, Met, Alone, KindsOf, Saving
<1> QED
  BY <1>1, <1>2 DEF OnItsOwn, KindsOf, Saving

LEMMA SavingFile ==
    ASSUME ReqTypes, NEW r \in Requests, req[r].step \in AtFile
    PROVE  r \in Saving <=> FileOf(r) = "state"
BY DEF ReqTypes, RequestOK, Saving, FileOf, Saves, Patches, AtFile

LEMMA SourcesKept ==
    ASSUME InFile' \subseteq Sources,
           \A x \in Saving' : x \in Saving /\ req'[x].copy = req[x].copy,
           Pending' => Real(Content("stateTmp"))' \subseteq Sources
    PROVE  Sources' \subseteq Sources
BY DEF Sources

LEMMA PendingIn ==
    ASSUME Pending
    PROVE  Real(Content("stateTmp")) \subseteq Sources
BY DEF Sources

LEMMA SameReal ==
    ASSUME NEW file, Content(file)' = Content(file)
    PROVE  Real(Content(file))' = Real(Content(file))
BY DEF Real

LEMMA OpenSources ==
    ASSUME FilesInv, NEW r \in Requests, Open(r)
    PROVE  /\ Content("state")' = Content("state") /\ Saving' = Saving
           /\ Sources' \subseteq Sources /\ Moves(r) /\ req[r].step = "loaded"
           /\ req'[r].step = "opened" /\ req'[r].copy = req[r].copy
<1>1. ReqTypes /\ DiskTypes
  BY DEF FilesInv
<1>2. PICK i \in Files :
              /\ req[r].step = "loaded" /\ Moves(r) /\ RequestOK(req'[r])
              /\ req'[r].step = "opened" /\ req'[r].fd = i
              /\ req'[r].kind = req[r].kind /\ req'[r].copy = req[r].copy
              /\ inode' = [inode EXCEPT ![i] = Torn]
              /\ names' = [names EXCEPT ![TmpOf(FileOf(r))] = i]
              /\ i = names[TmpOf(FileOf(r))] \/ i \notin Held
  BY OpenFacts
<1>3. /\ \A f \in FileNames : f # TmpOf(FileOf(r)) => names[f] # i
      /\ FileOf(r) \in {"state", "ini"}
  BY <1>1, <1>2, OpenedApart, FileFacts DEF AtFile
<1>4. ASSUME NEW f \in FileNames, f # TmpOf(FileOf(r)) PROVE Content(f)' = Content(f)
  <2>1. names'[f] = names[f] /\ names[f] # i /\ names[f] \in Files \cup {None}
    BY <1>1, <1>2, <1>3, <1>4 DEF DiskTypes
  <2>2. names[f] # None => inode'[names[f]] = inode[names[f]]
    BY <1>1, <1>2, <2>1 DEF DiskTypes
  <2> QED
    BY <2>1, <2>2, SameContent
<1>5. Content("state")' = Content("state")
  <2>1. "state" \in FileNames /\ "state" # TmpOf(FileOf(r))
    BY DEF FileNames, TmpOf
  <2> QED
    BY <1>4, <2>1
<1>6. \A x \in Requests : x # r => req'[x] = req[x]
  BY <1>2 DEF Moves
<1>7. Saving' = Saving /\ \A x \in Requests : req'[x].copy = req[x].copy
  BY <1>2, <1>6 DEF Saving, AtFile
<1>8. InFile' \subseteq Sources
  BY <1>5 DEF InFile, Real, Sources
<1>9. Pending' => Real(Content("stateTmp"))' \subseteq Sources
  <2>1. CASE FileOf(r) = "state"
    <3>1. names'["stateTmp"] = i /\ inode'[i] = Torn
      BY <1>1, <1>2, <2>1 DEF DiskTypes, TmpOf, FileNames
    <3>2. Content("stateTmp")' \in {None, Torn}
      BY <3>1 DEF Content
    <3> QED
      BY <3>2 DEF Real
  <2>2. CASE FileOf(r) = "ini"
    <3>1. "stateTmp" \in FileNames /\ "stateTmp" # TmpOf(FileOf(r))
      BY <2>2 DEF FileNames, TmpOf
    <3>2. Content("stateTmp")' = Content("stateTmp")
      BY <1>4, <3>1
    <3>3. r \notin Saving
      BY <1>1, <1>2, <2>2, SavingFile DEF AtFile
    <3>4. Pending' => Pending
      BY <1>6, <1>7, <3>3 DEF Pending, Saving
    <3> QED
      BY <3>2, <3>4, PendingIn, SameReal
  <2> QED
    BY <1>3, <2>1, <2>2
<1>10. Sources' \subseteq Sources
  BY <1>7, <1>8, <1>9, SourcesKept DEF Saving
<1> QED
  BY <1>2, <1>5, <1>7, <1>10

(* What is written is what was copied; alone, a request writes only to the *)
(* temporary file.                                                         *)
LEMMA WriteSources ==
    ASSUME FilesInv, NEW r \in Requests, Write(r)
    PROVE  /\ Saving' \subseteq Saving /\ Sources' \subseteq Sources
           /\ Saving \subseteq Saving' \cup {r}
           /\ Moves(r) /\ req[r].step = "opened"
           /\ \/ req'[r].step = "written" /\ req'[r].copy = req[r].copy
              \/ req'[r].step = "error"
           /\ names["state"] # None => names'["state"] # None
           /\ InFile' \subseteq InFile \/ (r \in Saving /\ ~ Alone(r))
           /\ Alone(r) => Content("state")' = Content("state")
<1>1. ReqTypes /\ DiskTypes /\ OpenApart /\ Shaped
  BY DEF FilesInv
<1>2. PICK text \in {req[r].copy, Torn} :
              /\ req[r].step = "opened" /\ Moves(r) /\ RequestOK(req'[r])
              /\ inode' = [inode EXCEPT ![req[r].fd] = text]
              /\ names' = names
              /\ \/ /\ req'[r].step = "written"
                    /\ req'[r].kind = req[r].kind /\ req'[r].copy = req[r].copy
                    /\ inode[req[r].fd] = Torn => text = req[r].copy
                 \/ req'[r].step = "error"
  BY WriteFacts
<1>3. req[r].fd \in Files /\ FileOf(r) \in {"state", "ini"} /\ (r \in Saving <=> FileOf(r) = "state")
  BY <1>1, <1>2, FileFacts, SavingFile DEF AtFile, RequestOK
<1>4. /\ \A x \in Requests : x # r => req'[x] = req[x]
      /\ req'[r].step \in AtFile => req'[r].copy = req[r].copy /\ req'[r].kind = req[r].kind
  BY <1>2 DEF Moves, AtFile
<1>5. /\ Saving' \subseteq Saving /\ Saving \subseteq Saving' \cup {r}
      /\ \A x \in Saving' : req'[x].copy = req[x].copy
      /\ Pending' => Pending
  <2>1. \A x \in Saving' : x \in Saving /\ req'[x].copy = req[x].copy
    BY <1>2, <1>4 DEF Saving, AtFile
  <2>2. ASSUME NEW x \in Saving', req'[x].step \in {"opened", "written"}
        PROVE  req[x].step \in {"opened", "written"}
    <3>1. CASE x = r
      BY <1>2, <3>1
    <3>2. CASE x # r
      BY <1>4, <2>2, <3>2 DEF Saving
    <3> QED
      BY <3>1, <3>2
  <2>3. Pending' => Pending
    BY <2>1, <2>2 DEF Pending
  <2> QED
    BY <1>4, <2>1, <2>3 DEF Saving
<1>6. ASSUME NEW f \in {"state", "stateTmp"}
      PROVE  /\ Content(f)' \in {Content(f), text}
             /\ r \notin Saving => Content(f)' = Content(f)
             /\ names[f] # req[r].fd => Content(f)' = Content(f)
  <2>1. f \in FileNames /\ names[f] \in Files \cup {None}
    BY <1>1 DEF DiskTypes, FileNames
  <2>2. ASSUME names[f] # req[r].fd PROVE Content(f)' = Content(f)
    <3>1. names[f] # None => inode'[names[f]] = inode[names[f]]
      BY <1>1, <1>2, <2>1, <2>2 DEF DiskTypes
    <3> QED
      BY <1>2, <3>1, SameContent
  <2>3. ASSUME r \notin Saving PROVE names[f] # req[r].fd
    <3>1. f \in FileNames \ PairOf(FileOf(r))
      BY <1>3, <2>1, <2>3 DEF PairOf, TmpOf
    <3> QED
      BY <1>1, <1>2, <3>1 DEF OpenApart
  <2>4. ASSUME names[f] = req[r].fd PROVE Content(f)' = text /\ names[f] # None
    <3>1. names[f] # None /\ inode'[req[r].fd] = text
      BY <1>1, <1>2, <1>3, <2>4, ConfigAssumption DEF DiskTypes
    <3> QED
      BY <1>2, <2>4, <3>1 DEF Content
  <2> QED
    BY <2>2, <2>3, <2>4
<1>7. ASSUME NEW f \in {"state", "stateTmp"}
      PROVE  /\ Real(Content(f))' \subseteq Real(Content(f)) \cup {req[r].copy}
             /\ r \notin Saving => Real(Content(f))' = Real(Content(f))
  BY <1>2, <1>6 DEF Real
<1>8. r \in Saving => req[r].copy \in Sources /\ Pending
  BY <1>2 DEF Sources, Pending
<1>9. InFile' \subseteq Sources
  BY <1>7, <1>8 DEF InFile, Sources
<1>10. Pending' => Real(Content("stateTmp"))' \subseteq Sources
  BY <1>5, <1>7, <1>8, PendingIn
<1>11. Sources' \subseteq Sources
  BY <1>5, <1>9, <1>10, SourcesKept
<1>12. ASSUME Alone(r) PROVE Content("state")' = Content("state")
  <2>1. CASE r \in Saving
    <3>1. req[r].fd = names["stateTmp"]
      BY <1>2, <1>12, <2>1, Lonely DEF OnItsOwn, TmpOf
    <3>2. names["state"] # req[r].fd
      BY <1>1, <1>3, <3>1, ConfigAssumption DEF DiskTypes, FileNames
    <3> QED
      BY <1>6, <3>2
  <2>2. CASE r \notin Saving
    BY <1>6, <2>2
  <2> QED
    BY <2>1, <2>2
<1>13. InFile' \subseteq InFile \/ (r \in Saving /\ ~ Alone(r))
  BY <1>7, <1>12 DEF InFile, Real
<1> QED
  BY <1>2, <1>4, <1>5, <1>11, <1>12, <1>13 DEF AtFile

(* The rename makes the file what the temporary file was; alone, what the  *)
(* request wrote, and that is all there is.                                *)
LEMMA RenameSources ==
    ASSUME Marks, FilesInv, NEW r \in Requests, Rename(r)
    PROVE  /\ Saving' \subseteq Saving /\ Sources' \subseteq Sources
           /\ Saving \subseteq Saving' \cup {r}
           /\ Moves(r) /\ req[r].step = "written"
           /\ \/ req'[r].step = "renamed" /\ req'[r].copy = req[r].copy /\ req'[r].kind = req[r].kind
                 /\ past' = [past EXCEPT !.issued = @ \cup IssuedBy(r),
                                         !.undone = @ \cup req[r].undoes]
              \/ req'[r].step = "error" /\ past' = past /\ UNCHANGED disk
           /\ names["state"] # None => names'["state"] # None
           /\ r \notin Saving \/ req'[r].step = "error" => Content("state")' = Content("state")
           /\ r \in Saving /\ req'[r].step = "renamed" => names'["state"] # None
           /\ r \in Saving /\ req'[r].step = "renamed" /\ Alone(r) =>
                 /\ Content("state")' = req[r].copy
                 /\ InFile' = {req[r].copy} /\ Sources' = {req[r].copy} /\ Saving' = {r}
<1>1. ReqTypes /\ DiskTypes /\ Shaped /\ PastTypes
  BY DEF FilesInv
<1>2. /\ req[r].step = "written" /\ Writes(r) = TmpOf(FileOf(r))
      /\ FileOf(r) \in {"state", "ini"} /\ (r \in Saving <=> FileOf(r) = "state")
  BY <1>1, FileFacts, SavingFile DEF Rename, AtFile
<1>3. CASE names[TmpOf(FileOf(r))] = None
  <2>1. Finish(r, "error") /\ UNCHANGED <<disk, past>>
    BY <1>2, <1>3 DEF Rename
  <2>2. Moves(r) /\ req'[r].step = "error" /\ UNCHANGED <<inode, names>>
    BY <1>1, <2>1, FinishMoves DEF Ends, disk
  <2>3. \A x \in Requests : x # r => req'[x] = req[x]
    BY <2>2 DEF Moves
  <2>4. \A file : Content(file)' = Content(file)
    BY <2>2 DEF Content
  <2>5. /\ Saving' \subseteq Saving /\ Saving \subseteq Saving' \cup {r}
        /\ \A x \in Saving' : req'[x] = req[x]
    BY <2>2, <2>3 DEF Saving, AtFile
  <2>6. Pending' => Pending
    BY <2>5 DEF Pending
  <2>7. InFile' \subseteq Sources
    BY <2>4, SameReal DEF InFile, Sources
  <2>8. Pending' => Real(Content("stateTmp"))' \subseteq Sources
    BY <2>4, <2>6, PendingIn, SameReal
  <2>9. Sources' \subseteq Sources
    BY <2>5, <2>7, <2>8, SourcesKept
  <2> QED
    BY <1>2, <2>1, <2>2, <2>4, <2>5, <2>9
<1>4. CASE names[TmpOf(FileOf(r))] # None
  <2>1. /\ Moves(r) /\ RequestOK(req'[r]) /\ req'[r].step = "renamed"
        /\ req'[r].kind = req[r].kind /\ req'[r].copy = req[r].copy
        /\ inode' = [i \in Files |-> IF i = names[FileOf(r)] THEN Torn ELSE inode[i]]
        /\ names' = [names EXCEPT ![FileOf(r)] = names[TmpOf(FileOf(r))],
                                  ![TmpOf(FileOf(r))] = None]
    BY <1>4, RenameFacts
  <2>2. past' = [past EXCEPT !.issued = @ \cup IssuedBy(r), !.undone = @ \cup req[r].undoes]
    BY <1>2, <1>4 DEF Rename
  <2>3. \A x \in Requests : x # r => req'[x] = req[x]
    BY <2>1 DEF Moves
  <2>4. Saving' = Saving /\ \A x \in Saving : x \in Requests /\ req'[x].copy = req[x].copy
    BY <1>2, <2>1, <2>3 DEF Saving, AtFile
  <2>5. Pending' => Pending
    <3>1. \A x \in Requests : req'[x].step \in {"opened", "written"} => req[x].step \in {"opened", "written"}
      BY <1>2, <2>1, <2>3
    <3> QED
      BY <2>4, <3>1 DEF Pending
  <2>6. CASE FileOf(r) = "ini"
    <3>1. ASSUME NEW f \in {"state", "stateTmp"} PROVE Content(f)' = Content(f)
      <4>1. f \in FileNames /\ f # "ini" /\ f # "iniTmp" /\ "ini" \in FileNames
        BY DEF FileNames
      <4>2. names'[f] = names[f] /\ (names[f] # None => names[f] # names["ini"] /\ names[f] \in Files)
        BY <1>1, <2>1, <2>6, <4>1 DEF DiskTypes, TmpOf
      <4>3. names[f] # None => inode'[names[f]] = inode[names[f]]
        BY <2>1, <2>6, <4>2
      <4> QED
        BY <4>2, <4>3, SameContent
    <3>2. InFile' \subseteq Sources
      BY <3>1, SameReal DEF InFile, Sources
    <3>3. Pending' => Real(Content("stateTmp"))' \subseteq Sources
      BY <2>5, <3>1, PendingIn, SameReal
    <3>4. Sources' \subseteq Sources
      BY <2>4, <3>2, <3>3, SourcesKept
    <3>5. names'["state"] = names["state"]
      BY <1>1, <2>1, <2>6 DEF DiskTypes, TmpOf, FileNames
    <3> QED
      BY <1>2, <2>1, <2>2, <2>4, <2>6, <3>1, <3>4, <3>5
  <2>7. CASE FileOf(r) = "state"
    <3>1. /\ names'["state"] = names["stateTmp"] /\ names'["stateTmp"] = None
          /\ names["stateTmp"] # None /\ names["stateTmp"] \in Files
          /\ names["stateTmp"] # names["state"]
      BY <1>1, <1>4, <2>1, <2>7 DEF DiskTypes, FileNames, TmpOf
    <3>2. inode'[names["stateTmp"]] = inode[names["stateTmp"]]
      BY <2>1, <2>7, <3>1
    <3>3. Content("state")' = Content("stateTmp") /\ Content("stateTmp")' = None
      BY <3>1, <3>2 DEF Content
    <3>4. r \in Saving /\ Pending /\ req[r].copy \in Sources
      BY <1>2, <2>7 DEF Pending, Sources
    <3>5. InFile' = Real(Content("stateTmp")) /\ Real(Content("stateTmp"))' = {}
      BY <3>3 DEF InFile, Real
    <3>6. Sources' \subseteq Sources
      BY <2>4, <3>4, <3>5, PendingIn, SourcesKept
    <3>7. ASSUME Alone(r)
          PROVE  /\ Content("state")' = req[r].copy
                 /\ InFile' = {req[r].copy} /\ Sources' = {req[r].copy} /\ Saving' = {r}
      <4>1. Saving = {r} /\ OnItsOwn("state", r)
        BY <3>4, <3>7, Lonely
      <4>2. Content("stateTmp") = req[r].copy
        BY <1>2, <3>1, <4>1 DEF OnItsOwn, Content, TmpOf
      <4>3. req[r].copy \notin {None, Torn}
        <5>1. IsState(req[r].copy)
          BY <1>1, <3>4 DEF Saving, UnderWay, AtFile, Ends, Shaped, KindsOf, Fits
        <5> QED
          BY <5>1 DEF Marks
      <4>4. InFile' = {req[r].copy}
        BY <3>5, <4>2, <4>3 DEF Real
      <4>5. ~ Pending'
        BY <2>1, <2>4, <4>1 DEF Pending
      <4>6. Sources' = {req[r].copy}
        BY <2>4, <4>1, <4>4, <4>5 DEF Sources
      <4> QED
        BY <2>4, <3>3, <4>1, <4>2, <4>4, <4>6
    <3> QED
      BY <1>2, <2>1, <2>2, <2>4, <3>1, <3>4, <3>6, <3>7
  <2> QED
    BY <1>2, <2>6, <2>7
<1> QED
  BY <1>3, <1>4

(* A step that touches no file, of a request that then saves nothing.      *)
LEMMA LeavesFiles ==
    ASSUME NEW r \in Requests, Moves(r), UNCHANGED disk, r \notin Saving'
    PROVE  /\ Saving' = Saving \ {r} /\ Sources' \subseteq Sources
           /\ \A file : Content(file)' = Content(file)
           /\ names'["state"] = names["state"] /\ InFile' = InFile
<1>1. inode' = inode /\ names' = names /\ \A x \in Requests : x # r => req'[x] = req[x]
  BY DEF Moves, disk
<1>2. \A file : Content(file)' = Content(file)
  BY <1>1 DEF Content
<1>3. Saving' = Saving \ {r} /\ \A x \in Saving' : req'[x] = req[x]
  BY <1>1 DEF Saving
<1>4. Pending' => Pending
  BY <1>3 DEF Pending
<1>5. InFile' = InFile
  BY <1>2, SameReal DEF InFile
<1>6. Pending' => Real(Content("stateTmp"))' \subseteq Sources
  BY <1>2, <1>4, PendingIn, SameReal
<1>7. InFile' \subseteq Sources
  BY <1>5 DEF Sources
<1>8. Sources' \subseteq Sources
  BY <1>3, <1>6, <1>7, SourcesKept
<1> QED
  BY <1>1, <1>2, <1>3, <1>5, <1>8

Elsewhere(r) ==
    \/ Find(r) \/ Ungroup(r) \/ Regroup(r) \/ FindAll(r) \/ Sort(r) \/ AtOnce(r)
    \/ PutSettings(r) \/ SetRuntime(r) \/ StoreSettings(r) \/ SetRetention(r)

(* The edits that are in the file, and those in memory, too.               *)
Landed   == {r \in Requests : /\ req[r].kind \in Saves
                              /\ req[r].step \in {"renamed", "stored", "ungroup", "ok"}}
InMemory == {r \in Landed : req[r].step # "renamed"}

(* Before the rename.                                                      *)
Early == {"new", "loaded", "opened", "written"}

(* A request that does not save anything, or no longer.                    *)
LEMMA ElsewhereSources ==
    ASSUME FilesInv, NEW r \in Requests, Elsewhere(r)
    PROVE  /\ Saving' = Saving /\ r \notin Saving /\ Sources' \subseteq Sources
           /\ \A file : Content(file)' = Content(file)
           /\ names'["state"] = names["state"] /\ InFile' = InFile
           /\ Moves(r) /\ memory' = memory
           /\ past'.met.saves = past.met.saves /\ past'.broken = past.broken
           /\ past'.issued = past.issued /\ past'.undone = past.undone
           /\ Landed' \subseteq Landed /\ InMemory' \subseteq InMemory
           /\ req[r].step \notin {"opened", "written"}
           /\ req[r].step \notin Early => req'[r].step \notin Early
           /\ req'[r].step # "renamed"
<1>1. ReqTypes /\ PastTypes
  BY DEF FilesInv
<1>2. memory' = memory /\ UNCHANGED disk
  BY DEF Elsewhere, Find, Ungroup, Regroup, FindAll, Sort, PutSettings, SetRuntime, StoreSettings,
         SetRetention, AtOnce, SetGroup, DeleteMessages
<1>3. /\ Moves(r) /\ r \notin Saving /\ r \notin Saving'
      /\ r \in Landed' => r \in InMemory /\ req'[r].step # "renamed"
      /\ req[r].step \notin Early => req'[r].step \notin Early
      /\ req'[r].step # "renamed"
  <2>1. CASE Find(r) \/ Ungroup(r) \/ FindAll(r) \/ Sort(r)
    <3>1. GoesOn(r) /\ req'[r].step # "new" /\ req[r].step \in {"stored", "ungroup", "page", "regroup"} /\ RequestOK(req[r])
      BY <1>1, <2>1, MessagesGoOn DEF ReqTypes
    <3>2. Keeps(r)
      BY <1>1, <2>1, <3>1, GoingOn DEF Request
    <3>3. r \in Landed' => r \in InMemory /\ req'[r].step # "renamed"
      BY <3>1, <3>2 DEF Keeps, GoesOn, AtFile, Landed, InMemory, RequestOK, Saves, Ends
    <3> QED
      BY <3>1, <3>3 DEF GoesOn, Saving, AtFile, Early
  <2>2. CASE SetRuntime(r) \/ StoreSettings(r) \/ SetRetention(r)
    <3>1. /\ GoesOn(r) /\ req[r].kind \in Patches /\ req[r].step \in Late
          /\ req'[r].step \in {"runtime", "retain", "ok"}
      BY <1>1, <2>2, SettingsGoOn
    <3>2. Keeps(r)
      BY <1>1, <2>2, <3>1, GoingOn DEF Request, Late
    <3>3. r \notin Landed'
      BY <3>1, <3>2 DEF Keeps, Landed, Saves, Patches, Ends
    <3> QED
      BY <3>1, <3>3 DEF GoesOn, Saving, AtFile, Saves, Patches, Early
  <2>3. CASE PutSettings(r)
    <3>1. Moves(r) /\ req'[r].step = "loaded" /\ req[r].step = "new"
      BY <2>3, PutSettingsFiles
    <3>2. req'[r].kind \in Patches
      <4>1. PICK kind \in Kinds \cap Patches :
               req' = [req EXCEPT ![r] = BegunPlainly("loaded", kind, Patched(settings, r, kind))]
        BY <2>3 DEF PutSettings, BegunPlainly
      <4> QED
        BY <1>1, <4>1, BegunPlain DEF ReqTypes
    <3> QED
      BY <3>1, <3>2 DEF Saving, Landed, Saves, Patches, AtFile, Early
  <2>4. CASE Regroup(r)
    <3>1. Moves(r) /\ req'[r].step = "page" /\ req[r].step = "new"
      BY <2>4, RegroupFiles DEF Regroup, CanStart
    <3> QED
      BY <3>1 DEF Saving, Landed, AtFile, Early
  <2>5. CASE AtOnce(r)
    <3>1. /\ Moves(r) /\ req[r].step = "new" /\ req'[r].step \in {"ok", "notFound"}
          /\ req'[r].kind = None
      BY <2>5, AtOnceFiles
    <3>2. None \notin Saves
      BY ConfigAssumption DEF AllKinds
    <3> QED
      BY <3>1, <3>2 DEF Saving, Landed, AtFile, Early
  <2> QED
    BY <2>1, <2>2, <2>3, <2>4, <2>5 DEF Elsewhere
<1>4. /\ past'.met.saves = past.met.saves /\ past'.broken = past.broken
      /\ past'.issued = past.issued /\ past'.undone = past.undone
  <2>1. PICK s, p, u, i, l, b :
          past = [met |-> [saves |-> s, puts |-> p], undone |-> u, issued |-> i, left |-> l, broken |-> b]
    BY <1>1 DEF PastTypes
  <2>2. CASE past' = past
    BY <2>2
  <2>3. CASE Find(r)
    <3>1. PICK w : past' = [past EXCEPT !.left = w]
      BY <2>3 DEF Find
    <3> QED
      BY <2>1, <3>1
  <2>4. CASE PutSettings(r)
    <3>1. PICK w : past' = [past EXCEPT !.met.puts = w]
      BY <2>4 DEF PutSettings
    <3>2. past' = [met |-> [saves |-> s, puts |-> w], undone |-> u, issued |-> i, left |-> l, broken |-> b]
      BY <2>1, <3>1
    <3> QED
      BY <2>1, <3>2
  <2> QED
    BY <2>2, <2>3, <2>4 DEF Elsewhere, Ungroup, Regroup, FindAll, Sort, SetRuntime, StoreSettings,
                            SetRetention, AtOnce, SetGroup, DeleteMessages
<1>5. \A x \in Requests : x # r => req'[x] = req[x]
  BY <1>3 DEF Moves
<1>6. Landed' \subseteq Landed /\ InMemory' \subseteq InMemory
  BY <1>3, <1>5 DEF Landed, InMemory
<1>7. req[r].step \notin {"opened", "written"}
  BY DEF Elsewhere, Find, Ungroup, Regroup, FindAll, Sort, PutSettings, SetRuntime, StoreSettings,
         SetRetention, CanStart, AtOnce, SetGroup, DeleteMessages
<1> QED
  BY <1>2, <1>3, <1>4, <1>6, <1>7, LeavesFiles

LEMMA StoreSources ==
    ASSUME FilesInv, NEW r \in Requests, StoreState(r)
    PROVE  /\ r \in Saving /\ req[r].step = "renamed" /\ memory' = req[r].copy
           /\ Saving' = Saving \ {r} /\ Sources' \subseteq Sources
           /\ \A file : Content(file)' = Content(file)
           /\ names'["state"] = names["state"] /\ InFile' = InFile
           /\ Moves(r) /\ req'[r].step \in {"stored", "ok"}
           /\ past'.met.saves = past.met.saves /\ past'.broken = past.broken
           /\ past'.issued = past.issued /\ past'.undone = past.undone
           /\ Landed' \subseteq Landed /\ InMemory' \subseteq InMemory \cup {r}
<1>1. ReqTypes /\ PastTypes
  BY DEF FilesInv
<1>2. /\ req[r].step = "renamed" /\ req[r].kind \in Saves /\ memory' = req[r].copy
      /\ UNCHANGED disk
  BY DEF StoreState
<1>3. /\ Moves(r) /\ req'[r].step \in {"stored", "ok"}
      /\ past' = past \/ \E w : past' = [past EXCEPT !.left = w]
  <2>1. CASE Goto(r, "stored") /\ past' = [past EXCEPT !.left = @ \cup ({req[r].id} \cap SeenElsewhere)]
    BY <1>1, <2>1, GotoMoves
  <2>2. CASE Finish(r, "ok") /\ past' = past
    BY <1>1, <2>2, FinishMoves DEF Ends
  <2> QED
    BY <2>1, <2>2 DEF StoreState
<1>4. /\ past'.met.saves = past.met.saves /\ past'.broken = past.broken
      /\ past'.issued = past.issued /\ past'.undone = past.undone
  <2>1. PICK s, p, u, i, l, b :
          past = [met |-> [saves |-> s, puts |-> p], undone |-> u, issued |-> i, left |-> l, broken |-> b]
    BY <1>1 DEF PastTypes
  <2> QED
    BY <1>3, <2>1
<1>5. r \in Saving /\ r \notin Saving' /\ r \in Landed
  BY <1>2, <1>3 DEF Saving, AtFile, Landed
<1>6. \A x \in Requests : x # r => req'[x] = req[x]
  BY <1>3 DEF Moves
<1>7. Landed' \subseteq Landed /\ InMemory' \subseteq InMemory \cup {r}
  BY <1>5, <1>6 DEF Landed, InMemory
<1> QED
  BY <1>2, <1>3, <1>4, <1>5, <1>7, LeavesFiles

(* What a request for an edit holds when it has begun.                     *)
Starts(r, kind, id, uses) ==
    /\ kind \in Saves /\ uses \in SUBSET Nat
    /\ kind \in OnAnItem => id \in Ids(memory[ListOf(kind)])
    /\ req'[r].step = "loaded" /\ req'[r].kind = kind /\ req'[r].id = id
    /\ req'[r].copy = Edited(memory, r, kind, id, uses)
    /\ req'[r].undoes = Undoes(kind, id)
    /\ Saving' = Saving \cup {r}
    /\ Sources' \subseteq Sources \cup {Edited(memory, r, kind, id, uses)}
    /\ past'.met.saves = past.met.saves \cup With(r, Saves)

LEMMA BegunWith ==
    ASSUME NEW step, NEW kind, NEW id, NEW copy, NEW undoes
    PROVE  /\ Begun(step, kind, id, copy, undoes).id = id
           /\ Begun(step, kind, id, copy, undoes).undoes = undoes
<1> DEFINE a == [Idle EXCEPT !.step = step]
           b == [a EXCEPT !.kind = kind]
           c == [b EXCEPT !.id = id]
           d == [c EXCEPT !.copy = copy]
           e == [d EXCEPT !.undoes = undoes]
<1>1. IsRequest(a)
  BY IdleIsRequest, FieldSet DEF Fields
<1> HIDE DEF a
<1>2. IsRequest(b)
  BY <1>1, FieldSet DEF Fields
<1> HIDE DEF b
<1>3. IsRequest(c) /\ \A g \in Fields : c[g] = IF g = "id" THEN id ELSE b[g]
  BY <1>2, FieldSet DEF Fields
<1> HIDE DEF c
<1>4. IsRequest(d) /\ \A g \in Fields : d[g] = IF g = "copy" THEN copy ELSE c[g]
  BY <1>3, FieldSet DEF Fields
<1> HIDE DEF d
<1>5. IsRequest(e) /\ \A g \in Fields : e[g] = IF g = "undoes" THEN undoes ELSE d[g]
  BY <1>4, FieldSet DEF Fields
<1> HIDE DEF e
<1>6. e.id = id /\ e.undoes = undoes
  BY <1>3, <1>4, <1>5, SMT DEF Fields
<1> QED
  BY <1>6, Zenon DEF Begun, a, b, c, d, e

LEMMA MutateSources ==
    ASSUME FilesInv, NEW r \in Requests, Mutate(r)
    PROVE  /\ Moves(r) /\ memory' = memory /\ r \notin Saving
           /\ \A file : Content(file)' = Content(file)
           /\ names'["state"] = names["state"] /\ InFile' = InFile
           /\ past'.broken = past.broken
           /\ past'.issued = past.issued /\ past'.undone = past.undone
           /\ Landed' \subseteq Landed /\ InMemory' \subseteq InMemory
           /\ req[r].step = "new" /\ req'[r].step \in {"loaded", "notFound"}
           /\ \/ /\ Saving' = Saving /\ Sources' \subseteq Sources
                 /\ past'.met.saves = past.met.saves /\ Keeps(r)
              \/ \E kind, id, uses : Starts(r, kind, id, uses)
<1>1. /\ ReqTypes /\ PastTypes /\ memory' = memory /\ req[r].step = "new" /\ UNCHANGED disk
  BY DEF FilesInv, Mutate, CanStart
<1>2. Moves(r) /\ req'[r].step \in {"loaded", "notFound"} /\ past'.broken = past.broken
  BY MutateFiles
<1>3. \A x \in Requests : x # r => req'[x] = req[x]
  BY <1>2 DEF Moves
<1>4. r \notin Saving /\ Landed' \subseteq Landed /\ InMemory' \subseteq InMemory
  BY <1>1, <1>2, <1>3 DEF Saving, Landed, InMemory, AtFile
<1>5. PICK kind \in Kinds \cap Saves, uses \in SUBSET Nat, id \in {0} \cup NamedIds :
         IF kind \in OnAnItem /\ id \notin Ids(memory[ListOf(kind)])
         THEN /\ Finish(r, "notFound")
              /\ UNCHANGED past
         ELSE /\ req' = [req EXCEPT ![r] = [Idle EXCEPT
                            !.step = "loaded", !.kind = kind, !.id = id,
                            !.copy = Edited(memory, r, kind, id, uses),
                            !.undoes = Undoes(kind, id)]]
              /\ past' = [past EXCEPT !.met.saves = @ \cup With(r, Saves)]
  BY UsesTyped DEF Mutate
<1>6. CASE Finish(r, "notFound") /\ UNCHANGED past
  <2>1. Keeps(r) /\ req'[r].step = "notFound"
    BY <1>1, <1>6, FinishKeeps, FinishMoves DEF Ends
  <2>2. r \notin Saving'
    BY <2>1 DEF Saving, AtFile
  <2> QED
    BY <1>1, <1>2, <1>4, <1>6, <2>1, <2>2, LeavesFiles
<1>7. CASE /\ kind \in OnAnItem => id \in Ids(memory[ListOf(kind)])
           /\ req' = [req EXCEPT ![r] = [Idle EXCEPT
                            !.step = "loaded", !.kind = kind, !.id = id,
                            !.copy = Edited(memory, r, kind, id, uses),
                            !.undoes = Undoes(kind, id)]]
           /\ past' = [past EXCEPT !.met.saves = @ \cup With(r, Saves)]
  <2>1. req' = [req EXCEPT ![r] = Begun("loaded", kind, id, Edited(memory, r, kind, id, uses), Undoes(kind, id))]
    BY <1>7 DEF Begun
  <2>2. req'[r] = Begun("loaded", kind, id, Edited(memory, r, kind, id, uses), Undoes(kind, id))
    BY <1>1, <2>1 DEF ReqTypes
  <2>3. /\ req'[r].step = "loaded" /\ req'[r].kind = kind /\ req'[r].id = id
        /\ req'[r].copy = Edited(memory, r, kind, id, uses)
        /\ req'[r].undoes = Undoes(kind, id)
    BY <2>2, BegunRequest, BegunWith
  <2>4. /\ past'.met.saves = past.met.saves \cup With(r, Saves)
        /\ past'.issued = past.issued /\ past'.undone = past.undone
    <3>1. PICK s, p, u, i, l, b, w :
            /\ past = [met |-> [saves |-> s, puts |-> p], undone |-> u, issued |-> i, left |-> l, broken |-> b]
            /\ w = s \cup With(r, Saves)
      BY <1>1 DEF PastTypes
    <3>2. past' = [past EXCEPT !.met.saves = w]
      BY <1>7, <3>1
    <3>3. past' = [met |-> [saves |-> w, puts |-> p], undone |-> u, issued |-> i, left |-> l, broken |-> b]
      BY <3>1, <3>2
    <3> QED
      BY <3>1, <3>3
  <2>5. names' = names /\ \A file : Content(file)' = Content(file)
    BY <1>1 DEF disk, Content
  <2>6. InFile' = InFile /\ Real(Content("stateTmp"))' = Real(Content("stateTmp"))
    BY <2>5, SameReal DEF InFile
  <2>7. Saving' = Saving \cup {r}
    BY <1>3, <1>4, <2>3 DEF Saving, AtFile
  <2>8. Pending' => Pending
    BY <1>3, <2>3, <2>7 DEF Pending, Saving
  <2>9. Sources' \subseteq Sources \cup {Edited(memory, r, kind, id, uses)}
    <3>1. \A x \in Saving' : req'[x].copy \in Sources \cup {Edited(memory, r, kind, id, uses)}
      BY <1>3, <2>3, <2>7 DEF Sources, Saving
    <3>2. InFile' \subseteq Sources /\ (Pending' => Real(Content("stateTmp"))' \subseteq Sources)
      BY <2>6, <2>8, PendingIn DEF Sources
    <3> QED
      BY <3>1, <3>2 DEF Sources
  <2>10. Starts(r, kind, id, uses)
    BY <1>7, <2>3, <2>4, <2>7, <2>9 DEF Starts
  <2> QED
    BY <1>1, <1>2, <1>4, <2>4, <2>5, <2>6, <2>10
<1> QED
  BY <1>5, <1>6, <1>7

LEMMA RestartSources ==
    ASSUME FilesInv, Restart
    PROVE  /\ Saving' = {} /\ Sources' = InFile' /\ memory' = Loaded
           /\ past'.met.saves = past.met.saves
           /\ past'.issued = past.issued /\ past'.undone = past.undone
           /\ Landed' \subseteq InMemory
           /\ ~ past'.broken => /\ ~ past.broken /\ Content("state") # Torn
                                /\ Content("state")' = Content("state")
                                /\ InFile' = InFile /\ names'["state"] = names["state"]
           /\ \A x \in Requests :
                 \/ x \notin UnderWay /\ req'[x] = req[x]
                 \/ /\ x \in UnderWay /\ req'[x].step = "gone" /\ req'[x].kind = None
                    /\ req'[x].undoes = req[x].undoes
<1>1. /\ UnderWay' = {} /\ past'.broken = (past.broken \/ Content("state") = Torn)
      /\ past'.met.saves = past.met.saves /\ inode' = inode
      /\ names'["state"] = IF Content("state") = Torn THEN None ELSE names["state"]
  BY RestartFiles
<1>2. PastTypes /\ ReqTypes
  BY DEF FilesInv
<1>3. past'.issued = past.issued /\ past'.undone = past.undone
  <2>1. PICK s, p, u, i, l, b :
          past = [met |-> [saves |-> s, puts |-> p], undone |-> u, issued |-> i, left |-> l, broken |-> b]
    BY <1>2 DEF PastTypes
  <2>2. PICK c, m : past' = [past EXCEPT !.broken = c, !.met.puts = {}, !.left = m]
    <3>1. PICK c, m : c = (b \/ Content("state") = Torn)
                   /\ m = l \cup {req[r].id : r \in {x \in UnderWay : req[x].kind = "deleteGroup"}}
      OBVIOUS
    <3>2. past' = [past EXCEPT !.broken = c, !.met.puts = {}, !.left = m]
      BY <2>1, <3>1 DEF Restart
    <3> QED
      BY <3>2
  <2>3. past' = [met |-> [saves |-> s, puts |-> {}], undone |-> u, issued |-> i, left |-> m, broken |-> c]
    BY <2>1, <2>2
  <2> QED
    BY <2>1, <2>3
<1>4. ASSUME NEW x \in Requests
      PROVE  \/ x \notin UnderWay /\ req'[x] = req[x]
             \/ /\ x \in UnderWay /\ req'[x].step = "gone" /\ req'[x].kind = None
                /\ req'[x].undoes = req[x].undoes
  <2>1. CASE x \notin UnderWay
    BY <2>1 DEF Restart
  <2>2. CASE x \in UnderWay
    <3> DEFINE p == [Idle EXCEPT !.step = "gone"]
               q == [p EXCEPT !.undoes = req[x].undoes]
    <3>1. req'[x] = q
      BY <2>2 DEF Restart
    <3>2. IsRequest(p) /\ \A g \in Fields : p[g] = IF g = "step" THEN "gone" ELSE Idle[g]
      BY IdleIsRequest, FieldSet DEF Fields
    <3> HIDE DEF p
    <3>3. \A g \in Fields : q[g] = IF g = "undoes" THEN req[x].undoes ELSE p[g]
      BY <3>2, FieldSet DEF Fields
    <3> HIDE DEF q
    <3>4. q.step = "gone" /\ q.kind = None /\ q.undoes = req[x].undoes
      BY <3>2, <3>3, SMT DEF Fields, Idle
    <3> QED
      BY <2>2, <3>1, <3>4
  <2> QED
    BY <2>1, <2>2
<1>5. Saving' = {}
  BY <1>1 DEF Saving, UnderWay, AtFile, Ends
<1>6. Sources' = InFile'
  BY <1>5 DEF Sources, Pending
<1>7. Landed' \subseteq InMemory
  BY <1>4 DEF Landed, InMemory, UnderWay, Ends
<1>8. ASSUME Content("state") # Torn
      PROVE  /\ Content("state")' = Content("state") /\ InFile' = InFile
             /\ names'["state"] = names["state"]
  BY <1>1, <1>8 DEF Content, InFile, Real
<1> QED
  BY <1>1, <1>3, <1>4, <1>5, <1>6, <1>7, <1>8 DEF Restart

-----------------------------------------------------------------------------
(* Ids.                                                                    *)

(* An id that was given out is below the next one, wherever that is: in    *)
(* memory once it got there, in the file, and in all that may get into     *)
(* the file; who is about to give out one will give out a larger one.      *)
IdKept(a) ==
    /\ a.id \in Nat
    /\ names["state"] # None
    /\ \A s \in Sources : a.id < s.nextId
    /\ req[a.by].step # "renamed" => a.id < memory.nextId
    /\ \A x \in Saving : req[x].step # "renamed" /\ req[x].kind \in Adds =>
          a.id + 1 < req[x].copy.nextId

IdsInv ==
    /\ \A a \in past.issued :
          /\ a.by \in Requests /\ req[a.by].step \notin Early
          /\ req[a.by].step = "renamed" => a.by \in Saving
    /\ ~ past.broken => \A a \in past.issued : Alone(a.by) => IdKept(a)
    /\ IdsKeepTheirMeaning

LEMMA SourcesTyped ==
    ASSUME FilesInv
    PROVE  /\ \A s \in Sources : IsState(s)
           /\ IsState(memory)
           /\ \A x \in Saving : IsState(req[x].copy)
<1>1. Shaped
  BY DEF FilesInv
<1>2. \A x \in Saving : IsState(req[x].copy)
  BY <1>1 DEF Saving, UnderWay, AtFile, Ends, Shaped, KindsOf, Fits
<1>3. ASSUME NEW f \in {"state", "stateTmp"}, NEW s \in Real(Content(f)) PROVE IsState(s)
  <2>1. f \in PairOf("state")
    BY DEF PairOf, TmpOf
  <2>2. names[f] # None /\ s = inode[names[f]] /\ s # Torn
    BY <1>3 DEF Real, Content
  <2> QED
    BY <1>1, <2>1, <2>2 DEF Shaped, Fits
<1> QED
  BY <1>1, <1>2, <1>3 DEF Sources, InFile, Shaped

LEMMA EditedNext ==
    ASSUME NEW s, IsState(s), NEW r \in Requests, NEW kind \in Saves, NEW id,
           NEW uses \in SUBSET Nat
    PROVE  /\ s.nextId \in Nat /\ Edited(s, r, kind, id, uses).nextId \in Nat
           /\ s.nextId <= Edited(s, r, kind, id, uses).nextId
           /\ kind \in Adds => Edited(s, r, kind, id, uses).nextId = s.nextId + 1
<1>1. MadeOf(s, Edited(s, r, kind, id, uses), r, kind, id, uses) /\ IsState(Edited(s, r, kind, id, uses))
  BY EditFacts
<1>2. \A t : IsState(t) => t.nextId \in Nat
  BY DEF IsState, States
<1> QED
  BY <1>1, <1>2 DEF MadeOf

(* A step that brings no new copy.                                         *)
LEMMA IdKeptOn ==
    ASSUME NEW a, IdKept(a), a.by \in Requests, NEW r \in Requests, Moves(r),
           Sources' \subseteq Sources, Saving' \subseteq Saving,
           memory' = memory \/ memory' \in Sources,
           r \in Saving' => /\ req'[r].copy = req[r].copy /\ req'[r].kind = req[r].kind
                            /\ req[r].step # "renamed",
           names'["state"] # None,
           req[a.by].step = "renamed" =>
              req'[a.by].step = "renamed" \/ memory' \in Sources
    PROVE  IdKept(a)'
<1>1. \A x \in Requests : x # r => req'[x] = req[x]
  BY DEF Moves
<1>2. \A s \in Sources' : a.id < s.nextId
  BY DEF IdKept
<1>3. ASSUME req'[a.by].step # "renamed" PROVE a.id < memory'.nextId
  <2>1. CASE memory' \in Sources
    BY <2>1 DEF IdKept
  <2>2. CASE memory' \notin Sources
    BY <1>3, <2>2 DEF IdKept
  <2> QED
    BY <2>1, <2>2
<1>4. ASSUME NEW x \in Saving', req'[x].step # "renamed", req'[x].kind \in Adds
      PROVE  a.id + 1 < req'[x].copy.nextId
  <2>1. x \in Saving /\ x \in Requests
    BY DEF Saving
  <2>2. req[x].step # "renamed" /\ req[x].kind \in Adds /\ req'[x].copy = req[x].copy
    BY <1>1, <1>4, <2>1
  <2> QED
    BY <2>1, <2>2 DEF IdKept
<1> QED
  BY <1>2, <1>3, <1>4 DEF IdKept

(* The copy that a request begins with.                                    *)
LEMMA IdKeptBegin ==
    ASSUME FilesInv, NEW a, IdKept(a), a.by \in Requests, a.by \notin Saving,
           NEW r \in Requests, Moves(r), memory' = memory, req[a.by].step # "renamed", req[r].step = "new",
           req[a.by].step # "new",
           NEW kind, NEW id, NEW uses, Starts(r, kind, id, uses), names'["state"] = names["state"]
    PROVE  IdKept(a)'
<1>1. IsState(memory) /\ a.by # r /\ kind \in Saves /\ uses \in SUBSET Nat
  <2>1. a.by # r
    OBVIOUS
  <2>2. kind \in Saves /\ uses \in SUBSET Nat
    BY DEF Starts
  <2> QED
    BY <2>1, <2>2 DEF FilesInv, Shaped
<1>2. /\ memory.nextId \in Nat /\ Edited(memory, r, kind, id, uses).nextId \in Nat
      /\ memory.nextId <= Edited(memory, r, kind, id, uses).nextId
      /\ kind \in Adds => Edited(memory, r, kind, id, uses).nextId = memory.nextId + 1
  BY <1>1, EditedNext
<1>3. \A x \in Requests : x # r => req'[x] = req[x]
  BY DEF Moves
<1>4. a.id \in Nat /\ a.id < memory.nextId
  BY DEF IdKept
<1>5. \A s \in Sources' : a.id < s.nextId
  BY <1>2, <1>4 DEF IdKept, Starts
<1>6. ASSUME NEW x \in Saving', req'[x].step # "renamed", req'[x].kind \in Adds
      PROVE  a.id + 1 < req'[x].copy.nextId
  <2>1. CASE x = r
    BY <1>2, <1>4, <1>6, <2>1 DEF Starts
  <2>2. CASE x # r
    BY <1>3, <1>6, <2>2 DEF IdKept, Starts, Saving
  <2> QED
    BY <2>1, <2>2
<1> QED
  BY <1>1, <1>3, <1>4, <1>5, <1>6 DEF IdKept

(* A step that gives out no id.                                            *)
LEMMA IdsStay ==
    ASSUME IdsInv, past'.issued = past.issued, ~ past'.broken => ~ past.broken,
           past.met.saves \subseteq past'.met.saves,
           \A a \in past.issued :
              /\ req'[a.by].step \notin Early
              /\ req'[a.by].step = "renamed" => a.by \in Saving',
           \A a \in past.issued :
              ~ past'.broken /\ a.by \notin past'.met.saves /\ IdKept(a) => IdKept(a)'
    PROVE  IdsInv'
<1>1. \A x : x \notin past'.met.saves => Alone(x)
  BY DEF Alone
<1>2. ~ past'.broken => \A a \in past'.issued : Alone(a.by)' => IdKept(a)'
  BY <1>1 DEF IdsInv, Alone
<1>3. IdsKeepTheirMeaning'
  BY <1>1 DEF IdsInv, IdsKeepTheirMeaning, Alone
<1> QED
  BY <1>2, <1>3 DEF IdsInv

LEMMA OpenIds ==
    ASSUME FilesInv, IdsInv, NEW r \in Requests, Open(r)
    PROVE  IdsInv'
<1>1. /\ Content("state")' = Content("state") /\ Saving' = Saving
      /\ Sources' \subseteq Sources /\ Moves(r) /\ req[r].step = "loaded"
      /\ req'[r].step = "opened" /\ req'[r].copy = req[r].copy
  BY OpenSources
<1>2. memory' = memory /\ past' = past /\ ReqTypes
  BY DEF Open, FilesInv
<1>3. \A x \in Requests : x # r => req'[x] = req[x]
  BY <1>1 DEF Moves
<1>4. names'["state"] = names["state"]
  <2>1. PICK i : names' = [names EXCEPT ![TmpOf(FileOf(r))] = i]
    BY OpenFacts
  <2> QED
    BY <2>1 DEF FilesInv, DiskTypes, FileNames, TmpOf
<1>5. req'[r].kind = req[r].kind
  <2>1. Keeps(r)
    BY <1>1, <1>2, GoingOn DEF Request
  <2> QED
    BY <1>1, <2>1 DEF Keeps, Ends
<1>6. ASSUME NEW a \in past.issued
      PROVE  /\ req'[a.by] = req[a.by] /\ req[a.by].step \notin Early /\ a.by \in Requests
             /\ req'[a.by].step = "renamed" => a.by \in Saving'
  BY <1>1, <1>3 DEF IdsInv, Early
<1>7. ASSUME NEW a \in past.issued, IdKept(a) PROVE IdKept(a)'
  <2>1. names'["state"] # None
    BY <1>4, <1>7 DEF IdKept
  <2> QED
    BY <1>1, <1>2, <1>5, <1>6, <1>7, <2>1, IdKeptOn
<1> QED
  BY <1>2, <1>6, <1>7, IdsStay

LEMMA WriteIds ==
    ASSUME FilesInv, IdsInv, NEW r \in Requests, Write(r)
    PROVE  IdsInv'
<1>1. /\ Saving' \subseteq Saving /\ Sources' \subseteq Sources
      /\ Saving \subseteq Saving' \cup {r}
      /\ Moves(r) /\ req[r].step = "opened"
      /\ \/ req'[r].step = "written" /\ req'[r].copy = req[r].copy
         \/ req'[r].step = "error"
      /\ names["state"] # None => names'["state"] # None
  BY WriteSources
<1>2. memory' = memory /\ past' = past /\ ReqTypes
  BY DEF Write, FilesInv
<1>3. \A x \in Requests : x # r => req'[x] = req[x]
  BY <1>1 DEF Moves
<1>4. r \in Saving' => req'[r].copy = req[r].copy /\ req'[r].kind = req[r].kind
  <2>1. Keeps(r)
    BY <1>1, <1>2, GoingOn DEF Request
  <2> QED
    BY <1>1, <2>1 DEF Keeps, Ends, Saving, AtFile
<1>5. ASSUME NEW a \in past.issued
      PROVE  /\ req'[a.by] = req[a.by] /\ req[a.by].step \notin Early /\ a.by \in Requests
             /\ req'[a.by].step = "renamed" => a.by \in Saving'
  BY <1>1, <1>3 DEF IdsInv, Early
<1>6. ASSUME NEW a \in past.issued, IdKept(a) PROVE IdKept(a)'
  <2>1. names'["state"] # None
    BY <1>1, <1>6 DEF IdKept
  <2> QED
    BY <1>1, <1>2, <1>4, <1>5, <1>6, <2>1, IdKeptOn
<1> QED
  BY <1>2, <1>5, <1>6, IdsStay

LEMMA StoreIds ==
    ASSUME FilesInv, IdsInv, NEW r \in Requests, StoreState(r)
    PROVE  IdsInv'
<1>1. /\ r \in Saving /\ req[r].step = "renamed" /\ memory' = req[r].copy
      /\ Saving' = Saving \ {r} /\ Sources' \subseteq Sources
      /\ names'["state"] = names["state"]
      /\ Moves(r) /\ req'[r].step \in {"stored", "ok"}
      /\ past'.met.saves = past.met.saves /\ past'.broken = past.broken
      /\ past'.issued = past.issued
  BY StoreSources
<1>2. memory' \in Sources
  BY <1>1 DEF Sources
<1>3. \A x \in Requests : x # r => req'[x] = req[x]
  BY <1>1 DEF Moves
<1>4. ASSUME NEW a \in past.issued
      PROVE  /\ req'[a.by].step \notin Early /\ a.by \in Requests
             /\ req'[a.by].step = "renamed" => a.by \in Saving'
  BY <1>1, <1>3 DEF IdsInv, Early
<1>5. ASSUME NEW a \in past.issued, IdKept(a) PROVE IdKept(a)'
  <2>1. names'["state"] # None
    BY <1>1, <1>5 DEF IdKept
  <2> QED
    BY <1>1, <1>2, <1>4, <1>5, <2>1, IdKeptOn
<1> QED
  BY <1>1, <1>4, <1>5, IdsStay

LEMMA ElsewhereIds ==
    ASSUME FilesInv, IdsInv, NEW r \in Requests, Elsewhere(r)
    PROVE  IdsInv'
<1>1. /\ Saving' = Saving /\ r \notin Saving /\ Sources' \subseteq Sources
      /\ names'["state"] = names["state"]
      /\ Moves(r) /\ memory' = memory
      /\ past'.met.saves = past.met.saves /\ past'.broken = past.broken
      /\ past'.issued = past.issued
      /\ req[r].step \notin Early => req'[r].step \notin Early
      /\ req'[r].step # "renamed"
  BY ElsewhereSources
<1>2. \A x \in Requests : x # r => req'[x] = req[x]
  BY <1>1 DEF Moves
<1>3. ASSUME NEW a \in past.issued
      PROVE  /\ req'[a.by].step \notin Early /\ a.by \in Requests
             /\ req'[a.by].step = "renamed" => a.by \in Saving'
             /\ req[a.by].step = "renamed" => req'[a.by] = req[a.by]
  BY <1>1, <1>2 DEF IdsInv
<1>4. ASSUME NEW a \in past.issued, IdKept(a) PROVE IdKept(a)'
  <2>1. names'["state"] # None
    BY <1>1, <1>4 DEF IdKept
  <2> QED
    BY <1>1, <1>3, <1>4, <2>1, IdKeptOn
<1> QED
  BY <1>1, <1>3, <1>4, IdsStay

(* A request that begins makes those that are under way its rivals.        *)
LEMMA Rivals ==
    ASSUME NEW r \in Requests, NEW kind, NEW id, NEW uses, Starts(r, kind, id, uses), NEW x \in Saving
    PROVE  {x, r} \subseteq past'.met.saves
<1>1. x \in UnderWay /\ req[x].kind \in Saves
  BY DEF Saving, UnderWay, AtFile, Ends
<1>2. {x, r} \subseteq With(r, Saves)
  BY <1>1 DEF With
<1> QED
  BY <1>2 DEF Starts

LEMMA MutateIds ==
    ASSUME FilesInv, IdsInv, NEW r \in Requests, Mutate(r)
    PROVE  IdsInv'
<1>1. /\ Moves(r) /\ memory' = memory /\ r \notin Saving
      /\ names'["state"] = names["state"]
      /\ past'.broken = past.broken /\ past'.issued = past.issued
      /\ req[r].step = "new" /\ req'[r].step \in {"loaded", "notFound"}
      /\ \/ /\ Saving' = Saving /\ Sources' \subseteq Sources
            /\ past'.met.saves = past.met.saves
         \/ \E kind, id, uses : Starts(r, kind, id, uses)
  BY MutateSources
<1>2. \A x \in Requests : x # r => req'[x] = req[x]
  BY <1>1 DEF Moves
<1>3. ASSUME NEW a \in past.issued
      PROVE  /\ a.by \in Requests /\ req[a.by].step \notin Early /\ req'[a.by] = req[a.by]
             /\ req[a.by].step = "renamed" => a.by \in Saving
  BY <1>1, <1>2 DEF IdsInv, Early
<1>4. CASE /\ Saving' = Saving /\ Sources' \subseteq Sources
           /\ past'.met.saves = past.met.saves
  <2>1. ASSUME NEW a \in past.issued, IdKept(a) PROVE IdKept(a)'
    <3>1. names'["state"] # None
      BY <1>1, <2>1 DEF IdKept
    <3> QED
      BY <1>1, <1>3, <1>4, <2>1, <3>1, IdKeptOn
  <2> QED
    BY <1>1, <1>3, <1>4, <2>1, IdsStay
<1>5. ASSUME NEW kind, NEW id, NEW uses, Starts(r, kind, id, uses) PROVE IdsInv'
  <2>1. ASSUME NEW a \in past.issued, IdKept(a), a.by \notin past'.met.saves PROVE IdKept(a)'
    <3>1. a.by \notin Saving
      BY <1>5, <2>1, Rivals
    <3>2. req[a.by].step # "renamed" /\ req[a.by].step # "new" /\ a.by \in Requests
      BY <1>3, <2>1, <3>1 DEF Early
    <3> QED
      BY <1>1, <1>5, <2>1, <3>1, <3>2, IdKeptBegin
  <2>2. past.met.saves \subseteq past'.met.saves /\ Saving' = Saving \cup {r}
    BY <1>5 DEF Starts
  <2> QED
    BY <1>1, <1>3, <2>1, <2>2, IdsStay
<1> QED
  BY <1>1, <1>4, <1>5

(* The rename gives out an id that is larger than all that were given out. *)
LEMMA RenameIds ==
    ASSUME Marks, FilesInv, IdsInv, NEW r \in Requests, Rename(r)
    PROVE  IdsInv'
<1>1. /\ Saving' \subseteq Saving /\ Sources' \subseteq Sources
      /\ Saving \subseteq Saving' \cup {r}
      /\ Moves(r) /\ req[r].step = "written"
      /\ \/ req'[r].step = "renamed" /\ req'[r].copy = req[r].copy /\ req'[r].kind = req[r].kind
            /\ past' = [past EXCEPT !.issued = @ \cup IssuedBy(r),
                                    !.undone = @ \cup req[r].undoes]
         \/ req'[r].step = "error" /\ past' = past
      /\ names["state"] # None => names'["state"] # None
      /\ r \in Saving /\ req'[r].step = "renamed" => names'["state"] # None
      /\ r \in Saving /\ req'[r].step = "renamed" /\ Alone(r) =>
           Sources' = {req[r].copy} /\ Saving' = {r}
  BY RenameSources
<1>2. ReqTypes /\ PastTypes /\ memory' = memory
  BY DEF FilesInv, Rename
<1>3. \A x \in Requests : x # r => req'[x] = req[x]
  BY <1>1 DEF Moves
<1>4. ASSUME NEW a \in past.issued
      PROVE  /\ a.by \in Requests /\ a.by # r /\ req[a.by].step \notin Early
             /\ req'[a.by] = req[a.by]
             /\ req[a.by].step = "renamed" => a.by \in Saving'
  BY <1>1, <1>3 DEF IdsInv, Early
<1>5. ASSUME NEW a \in past.issued, IdKept(a) PROVE IdKept(a)'
  <2>1. names'["state"] # None
    BY <1>1, <1>5 DEF IdKept
  <2>2. r \in Saving' => /\ req'[r].copy = req[r].copy /\ req'[r].kind = req[r].kind
                         /\ req[r].step # "renamed"
    BY <1>1 DEF Saving, AtFile
  <2> QED
    BY <1>1, <1>2, <1>4, <1>5, <2>1, <2>2, IdKeptOn
<1>6. CASE req'[r].step = "error" /\ past' = past
  BY <1>4, <1>5, <1>6, IdsStay
<1>7. CASE req'[r].step = "renamed"
  <2>1. /\ req'[r].copy = req[r].copy /\ req'[r].kind = req[r].kind
        /\ past' = [past EXCEPT !.issued = @ \cup IssuedBy(r), !.undone = @ \cup req[r].undoes]
    BY <1>1, <1>7
  <2>2. /\ past'.issued = past.issued \cup IssuedBy(r)
        /\ past'.met.saves = past.met.saves /\ past'.broken = past.broken
    <3>1. PICK m, u, i, l, b, v, w :
            /\ past = [met |-> m, undone |-> u, issued |-> i, left |-> l, broken |-> b]
            /\ v = i \cup IssuedBy(r) /\ w = u \cup req[r].undoes
      BY <1>2 DEF PastTypes
    <3>2. past' = [met |-> m, undone |-> w, issued |-> v, left |-> l, broken |-> b]
      BY <2>1, <3>1
    <3> QED
      BY <3>1, <3>2
  <2>3. CASE IssuedBy(r) = {}
    BY <1>4, <1>5, <2>2, <2>3, IdsStay
  <2>4. CASE req[r].kind \in Adds
    <3> PICK b : b = [id |-> req[r].copy.nextId - 1, by |-> r]
      OBVIOUS
    <3>1. IssuedBy(r) = {b}
      BY <2>4 DEF IssuedBy, Adds
    <3>2. b.id = req[r].copy.nextId - 1 /\ b.by = r
      OBVIOUS
    <3>3. r \in Saving /\ r \in Saving'
      BY <1>1, <1>7, <2>1, <2>4 DEF Saving, AtFile, Adds, Saves
    <3>4. req[r].copy.nextId \in Nat \ {0}
      BY <3>3, SourcesTyped DEF IsState, States
    <3>5. ASSUME Alone(r) PROVE IdKept(b)'
      <4>1. Sources' = {req[r].copy} /\ Saving' = {r} /\ names'["state"] # None
        BY <1>1, <1>7, <3>3, <3>5
      <4>2. b.id \in Nat /\ b.id < req[r].copy.nextId
        BY <3>2, <3>4
      <4> QED
        BY <1>7, <3>2, <4>1, <4>2 DEF IdKept
    <3>6. ASSUME NEW a \in past.issued, IdKept(a) PROVE a.id # b.id
      <4>1. a.id \in Nat /\ a.id + 1 < req[r].copy.nextId
        BY <1>1, <2>4, <3>3, <3>6 DEF IdKept
      <4> QED
        BY <3>2, <3>4, <4>1
    <3>7. /\ \A a \in past'.issued : a \in past.issued \/ a = b
          /\ \A x : Alone(x)' <=> Alone(x)
          /\ past'.broken = past.broken
      BY <2>2, <3>1 DEF Alone
    <3>8. \A a \in past'.issued :
            /\ a.by \in Requests /\ req'[a.by].step \notin Early
            /\ req'[a.by].step = "renamed" => a.by \in Saving'
      <4>1. /\ b.by \in Requests /\ req'[b.by].step \notin Early
            /\ req'[b.by].step = "renamed" => b.by \in Saving'
        BY <1>7, <3>2, <3>3 DEF Early
      <4> QED
        BY <1>4, <3>7, <4>1
    <3>9. ASSUME ~ past.broken, NEW a \in past'.issued, Alone(a.by) PROVE IdKept(a)'
      <4>1. CASE a \in past.issued
        BY <1>5, <3>9, <4>1 DEF IdsInv
      <4>2. CASE a = b
        BY <3>2, <3>5, <3>9, <4>2
      <4> QED
        BY <3>7, <4>1, <4>2
    <3>10. IdsKeepTheirMeaning'
      <4> SUFFICES ASSUME NEW a \in past'.issued, NEW c \in past'.issued, a.id = c.id, a.by # c.by,
                          Alone(a.by), Alone(c.by), ~ past.broken
                   PROVE  FALSE
        BY <3>7 DEF IdsKeepTheirMeaning
      <4>1. \A o \in past.issued : Alone(o.by) => IdKept(o)
        BY DEF IdsInv
      <4>2. CASE a \in past.issued /\ c \in past.issued
        BY <4>2 DEF IdsInv, IdsKeepTheirMeaning
      <4>3. CASE a \in past.issued /\ c = b
        BY <3>6, <4>1, <4>3
      <4>4. CASE c \in past.issued /\ a = b
        BY <3>6, <4>1, <4>4
      <4> QED
        BY <3>7, <4>2, <4>3, <4>4
    <3> QED
      BY <3>7, <3>8, <3>9, <3>10 DEF IdsInv
  <2> QED
    BY <2>3, <2>4 DEF IssuedBy, Adds
<1> QED
  BY <1>1, <1>6, <1>7

LEMMA RestartIds ==
    ASSUME Marks, FilesInv, IdsInv, Restart
    PROVE  IdsInv'
<1>1. /\ Saving' = {} /\ Sources' = InFile' /\ memory' = Loaded
      /\ past'.met.saves = past.met.saves /\ past'.issued = past.issued
      /\ ~ past'.broken => /\ ~ past.broken /\ Content("state") # Torn
                           /\ InFile' = InFile /\ names'["state"] = names["state"]
      /\ \A x \in Requests : req'[x] = req[x] \/ req'[x].step = "gone"
      /\ \A x \in Requests : req[x].step = "renamed" => req'[x].step = "gone"
  BY RestartSources DEF UnderWay, Ends
<1>2. ASSUME NEW a \in past.issued
      PROVE  req'[a.by].step \notin Early /\ req'[a.by].step # "renamed" /\ a.by \in Requests
  BY <1>1 DEF IdsInv, Early
<1>3. ASSUME NEW a \in past.issued, IdKept(a), ~ past'.broken PROVE IdKept(a)'
  <2>1. names["state"] # None /\ \A s \in Sources : a.id < s.nextId
    BY <1>3 DEF IdKept
  <2>2. Content("state") \notin {None, Torn}
    <3>1. "state" \in PairOf("state")
      BY DEF PairOf
    <3>2. IsState(inode[names["state"]])
      BY <1>1, <1>3, <2>1, <3>1 DEF FilesInv, Shaped, Fits, Content
    <3> QED
      BY <2>1, <3>2 DEF Marks, Content
  <2>3. Loaded \in InFile /\ InFile \subseteq Sources
    BY <2>2 DEF Loaded, InFile, Real, Sources
  <2> QED
    BY <1>1, <1>3, <2>1, <2>3 DEF IdKept
<1> QED
  BY <1>1, <1>2, <1>3, IdsStay

LEMMA NextIds ==
    ASSUME Marks, ConfigInv, IdsInv, [Next]_vars
    PROVE  IdsInv'
<1>1. FilesInv
  BY DEF ConfigInv
<1>2. CASE UNCHANGED vars \/ TakeMessage \/ StoreMessage
  <2>1. UNCHANGED <<memory, disk, req, past>>
    BY <1>2 DEF vars, TakeMessage, StoreMessage
  <2>2. req' = req /\ memory' = memory /\ past' = past /\ names' = names /\ inode' = inode
    BY <2>1 DEF disk
  <2>3. Saving' = Saving /\ \A file : Content(file)' = Content(file)
    BY <2>2 DEF Saving, Content
  <2>4. Pending' = Pending /\ InFile' = InFile /\ Real(Content("stateTmp"))' = Real(Content("stateTmp"))
    BY <2>2, <2>3 DEF Pending, InFile, Real
  <2>5. Sources' = Sources
    BY <2>2, <2>3, <2>4 DEF Sources
  <2>6. \A a : IdKept(a) => IdKept(a)'
    BY <2>2, <2>3, <2>5 DEF IdKept
  <2> QED
    BY <2>2, <2>3, <2>6, IdsStay DEF IdsInv
<1>3. CASE Restart
  BY <1>1, <1>3, RestartIds
<1>4. ASSUME NEW r \in Requests, Request(r) PROVE IdsInv'
  <2>1. Mutate(r) \/ Open(r) \/ Write(r) \/ Rename(r) \/ StoreState(r) \/ Elsewhere(r)
    BY <1>4 DEF Request, Elsewhere, AtOnce
  <2> QED
    BY <1>1, <2>1, OpenIds, WriteIds, RenameIds, StoreIds, MutateIds, ElsewhereIds
<1> QED
  BY <1>2, <1>3, <1>4 DEF Next

LEMMA InitIds == Init => IdsInv
BY SMT DEF Init, IdsInv, IdsKeepTheirMeaning

(* An id never means two things, not after a deletion and not after a      *)
(* restart, unless one of the two requests that got it overlapped with     *)
(* another, or the file was lost (State::take_id, mutate).                 *)
THEOREM IdsTheorem ==
    ASSUME Marks
    PROVE  Spec => []IdsKeepTheirMeaning
<1>1. Init => ConfigInv /\ IdsInv
  BY InitConfig, InitIds
<1>2. (ConfigInv /\ IdsInv) /\ [Next]_vars => (ConfigInv /\ IdsInv)'
  BY NextConfig, NextIds
<1>3. IdsInv => IdsKeepTheirMeaning
  BY DEF IdsInv
<1> QED
  BY <1>1, <1>2, <1>3, PTL DEF Spec

-----------------------------------------------------------------------------
(* Edits.                                                                  *)

Overlapped(r) ==
    \/ r \in past.undone
    \/ \E x \in Requests : r \in req[x].undoes /\ ~ Alone(x)

Bears(s, r) == Shown(s, req[r].kind, req[r].id, r)

(* An edit is in the file and, once it got there, in memory.  It is in all *)
(* that may get into the file, too, or one is under way that undoes it.    *)
EditKept(r) ==
    /\ names["state"] # None
    /\ \A s \in InFile : Bears(s, r)
    /\ r \in InMemory => Bears(memory, r)
    /\ \/ \E x \in Saving : r \in req[x].undoes
       \/ \A s \in Sources : Bears(s, r)

(* A request's own copy bears its edit; with the rename, what it undoes is *)
(* undone.                                                                 *)
CopiesBear ==
    /\ \A x \in Saving : Bears(req[x].copy, x)
    /\ \A x \in Saving : req[x].step = "renamed" => req[x].undoes \subseteq past.undone
    /\ \A x \in Saving \cup Landed : req[x].kind \in Deletes => req[x].id \in Nat
    /\ \A x \in Requests : req[x].step = "new" => req[x].undoes = {}

EditsInv ==
    /\ CopiesBear
    /\ ~ past.broken => \A r \in Landed : Alone(r) => Overlapped(r) \/ EditKept(r)

LEMMA OverlappedStays ==
    ASSUME NEW r, Overlapped(r), past.undone \subseteq past'.undone,
           past.met.saves \subseteq past'.met.saves,
           \A x \in Requests : req[x].undoes \subseteq req'[x].undoes
    PROVE  Overlapped(r)'
BY DEF Overlapped, Alone

(* A step of q that brings no new copy keeps the edit of r.                *)
LEMMA EditKeptOn ==
    ASSUME FilesInv, CopiesBear,
           NEW r \in Landed, EditKept(r), ~ Overlapped(r), ~ Overlapped(r)',
           req'[r].kind = req[r].kind, req'[r].id = req[r].id,
           NEW q \in Requests,
           \A x \in Requests : req'[x].undoes = req[x].undoes,
           Sources' \subseteq Sources, Saving' \subseteq Saving,
           \/ InFile' \subseteq InFile
           \/ q \in Saving /\ ~ Alone(q)
           \/ q \in Saving /\ req[q].undoes \subseteq past'.undone,
           \/ memory' = memory /\ (r \in InMemory' => r \in InMemory)
           \/ q \in Saving /\ memory' = req[q].copy /\ req[q].step = "renamed",
           names'["state"] # None
    PROVE  EditKept(r)'
<1>1. \A s : Bears(s, r)' <=> Bears(s, r)
  <2>1. ASSUME NEW s PROVE Bears(s, r)' <=> Bears(s, r)
    BY Zenon DEF Bears
  <2> QED
    BY <2>1
<1>2. InFile' \subseteq Sources' /\ InFile \subseteq Sources
  BY DEF Sources
<1>3. CASE \A s \in Sources : Bears(s, r)
  <2>1. \A s \in Sources' : Bears(s, r)'
    BY <1>1, <1>3
  <2>2. ASSUME r \in InMemory' PROVE Bears(memory, r)'
    <3>1. CASE memory' \in Sources
      BY <1>3, <3>1 DEF Bears
    <3>2. CASE memory' \notin Sources
      <4>1. memory' = memory /\ r \in InMemory
        BY <2>2, <3>2 DEF Sources
      <4>2. Bears(memory, r)
        BY <4>1 DEF EditKept
      <4> QED
        BY <4>1, <4>2 DEF Bears
    <3> QED
      BY <3>1, <3>2
  <2> QED
    BY <1>2, <2>1, <2>2 DEF EditKept
<1>4. ASSUME NEW x \in Saving, r \in req[x].undoes PROVE EditKept(r)'
  <2>1. x \in Requests /\ Alone(x)
    BY <1>4 DEF Overlapped, Saving
  <2>2. Saving = {x}
    BY <1>4, <2>1, Lonely
  <2>3. req[x].step # "renamed"
    BY <1>4 DEF CopiesBear, Overlapped
  <2>4. ~ (req[x].undoes \subseteq past'.undone)
    BY <1>4 DEF Overlapped
  <2>5. InFile' \subseteq InFile /\ memory' = memory /\ (r \in InMemory' => r \in InMemory)
    BY <2>1, <2>2, <2>3, <2>4
  <2>6. \A s \in InFile' : Bears(s, r)'
    BY <1>1, <2>5 DEF EditKept
  <2>7. ASSUME r \in InMemory' PROVE Bears(memory, r)'
    <3>1. Bears(memory, r)
      BY <2>5, <2>7 DEF EditKept
    <3> QED
      BY <2>5, <3>1 DEF Bears
  <2>8. (\E y \in Saving' : r \in req'[y].undoes) \/ (\A s \in Sources' : Bears(s, r)')
    <3>1. CASE x \in Saving'
      BY <1>4, <2>1, <3>1
    <3>2. CASE x \notin Saving'
      <4>1. Saving' = {}
        BY <2>2, <3>2
      <4>2. Sources' = InFile'
        BY <4>1 DEF Sources, Pending
      <4> QED
        BY <2>6, <4>2
    <3> QED
      BY <3>1, <3>2
  <2> QED
    BY <2>6, <2>7, <2>8 DEF EditKept
<1> QED
  BY <1>3, <1>4 DEF EditKept

LEMMA BegunPlainWith ==
    ASSUME NEW step, NEW kind, NEW copy
    PROVE  BegunPlainly(step, kind, copy).undoes = {}
<1> DEFINE a == [Idle EXCEPT !.step = step]
           b == [a EXCEPT !.kind = kind]
           c == [b EXCEPT !.copy = copy]
<1>1. IsRequest(a) /\ \A g \in Fields : a[g] = IF g = "step" THEN step ELSE Idle[g]
  BY IdleIsRequest, FieldSet DEF Fields
<1> HIDE DEF a
<1>2. IsRequest(b) /\ \A g \in Fields : b[g] = IF g = "kind" THEN kind ELSE a[g]
  BY <1>1, FieldSet DEF Fields
<1> HIDE DEF b
<1>3. IsRequest(c) /\ \A g \in Fields : c[g] = IF g = "copy" THEN copy ELSE b[g]
  BY <1>2, FieldSet DEF Fields
<1> HIDE DEF c
<1>4. c.undoes = {}
  BY <1>1, <1>2, <1>3, SMT DEF Fields, Idle
<1> QED
  BY <1>4, Zenon DEF BegunPlainly, a, b, c

(* What a request undoes does not change once it has begun.                *)
LEMMA ElsewhereUndoes ==
    ASSUME FilesInv, CopiesBear, NEW r \in Requests, Elsewhere(r)
    PROVE  /\ req'[r].undoes = req[r].undoes /\ req'[r].step # "new"
           /\ r \in Landed' => req'[r].kind = req[r].kind /\ req'[r].id = req[r].id
<1>1. ReqTypes /\ Landed' \subseteq Landed
  BY ElsewhereSources DEF FilesInv
<1>2. CASE PutSettings(r) \/ Regroup(r)
  <2>1. req[r].step = "new" /\ req[r].undoes = {}
    BY <1>2 DEF PutSettings, Regroup, CanStart, CopiesBear
  <2>2. PICK step \in {"loaded", "page"} :
           \E kind : \E copy : req' = [req EXCEPT ![r] = BegunPlainly(step, kind, copy)]
    BY <1>2 DEF PutSettings, Regroup, BegunPlainly
  <2>3. req'[r].undoes = {} /\ req'[r].step = step
    BY <1>1, <2>2, BegunPlain, BegunPlainWith DEF ReqTypes
  <2>4. r \notin Landed
    BY <2>1 DEF Landed
  <2> QED
    BY <1>1, <2>1, <2>3, <2>4
<1>3. CASE Find(r) \/ Ungroup(r) \/ FindAll(r) \/ Sort(r) \/ SetRuntime(r) \/ StoreSettings(r)
           \/ SetRetention(r)
  <2>1. req[r].step # "new"
    BY <1>3 DEF Find, Ungroup, FindAll, Sort, SetRuntime, StoreSettings, SetRetention
  <2>2. Keeps(r)
    BY <1>1, <1>3, <2>1, GoingOn DEF Request
  <2>3. req'[r].step # "new"
    <3>1. CASE Find(r) \/ Ungroup(r) \/ FindAll(r) \/ Sort(r)
      BY <1>1, <3>1, MessagesGoOn
    <3>2. CASE SetRuntime(r) \/ StoreSettings(r) \/ SetRetention(r)
      BY <1>1, <3>2, SettingsGoOn
    <3> QED
      BY <1>3, <3>1, <3>2
  <2>4. r \in Landed' => req'[r].step \notin Ends \ {"ok"}
    BY DEF Landed, Ends
  <2> QED
    BY <2>2, <2>3, <2>4 DEF Keeps
<1>4. CASE AtOnce(r)
  <2>1. req[r].step = "new" /\ r \notin Landed /\ req'[r].step \in {"ok", "notFound"}
    BY <1>4, AtOnceFiles DEF Landed
  <2>2. PICK end \in {"ok", "notFound"} : Finish(r, end)
    BY <1>4, AtOnceFiles
  <2>3. Keeps(r)
    BY <1>1, <2>2, FinishKeeps DEF Ends
  <2> QED
    BY <1>1, <2>1, <2>3 DEF Keeps
<1> QED
  BY <1>2, <1>3, <1>4 DEF Elsewhere

(* A step of q that brings no new copy, and no edit to the file.           *)
LEMMA CopiesBearOn ==
    ASSUME CopiesBear, NEW q \in Requests, Moves(q),
           req'[q].undoes = req[q].undoes, req'[q].step # "new",
           q \in Saving' \cup Landed' => req'[q].kind = req[q].kind /\ req'[q].id = req[q].id,
           Saving' \subseteq Saving, Landed' \subseteq Landed \cup Saving,
           q \in Saving' => req'[q].copy = req[q].copy,
           q \in Saving' /\ req'[q].step = "renamed" => req[q].undoes \subseteq past'.undone,
           past.undone \subseteq past'.undone
    PROVE  CopiesBear'
<1>1. \A x \in Requests : x # q => req'[x] = req[x]
  BY DEF Moves
<1>2. \A x \in Saving' \cup Landed' : x \in Requests
  BY DEF Saving, Landed
<1>3. ASSUME NEW x \in Saving' PROVE Bears(req[x].copy, x)'
  <2>1. /\ req'[x].copy = req[x].copy /\ req'[x].kind = req[x].kind /\ req'[x].id = req[x].id
        /\ x \in Saving
    <3>1. CASE x = q
      BY <3>1
    <3>2. CASE x # q
      BY <1>1, <1>2, <3>2
    <3> QED
      BY <3>1, <3>2
  <2>2. Shown(req[x].copy, req[x].kind, req[x].id, x)
    BY <2>1 DEF CopiesBear, Bears
  <2>3. Shown(req'[x].copy, req'[x].kind, req'[x].id, x)
    BY <2>1, <2>2
  <2> QED
    BY <2>3 DEF Bears
<1>4. ASSUME NEW x \in Saving', req'[x].step = "renamed" PROVE req'[x].undoes \subseteq past'.undone
  BY <1>1, <1>2, <1>4 DEF CopiesBear
<1>5. ASSUME NEW x \in Saving' \cup Landed', req'[x].kind \in Deletes PROVE req'[x].id \in Nat
  BY <1>1, <1>2, <1>5 DEF CopiesBear
<1>6. ASSUME NEW x \in Requests, req'[x].step = "new" PROVE req'[x].undoes = {}
  BY <1>1, <1>6 DEF CopiesBear
<1> QED
  BY <1>3, <1>4, <1>5, <1>6 DEF CopiesBear

LEMMA EditsOn ==
    ASSUME FilesInv, EditsInv, NEW q \in Requests, Moves(q),
           req'[q].undoes = req[q].undoes,
           q \in Landed' => req'[q].kind = req[q].kind /\ req'[q].id = req[q].id,
           Sources' \subseteq Sources, Saving' \subseteq Saving,
           \/ InFile' \subseteq InFile
           \/ q \in Saving /\ ~ Alone(q)
           \/ q \in Saving /\ req[q].undoes \subseteq past'.undone,
           \/ memory' = memory /\ InMemory' \subseteq InMemory
           \/ q \in Saving /\ memory' = req[q].copy /\ req[q].step = "renamed",
           names["state"] # None => names'["state"] # None,
           past.undone \subseteq past'.undone, past.met.saves \subseteq past'.met.saves,
           ~ past'.broken => ~ past.broken
    PROVE  ~ past'.broken =>
              \A r \in Landed' \cap Landed : Alone(r)' => Overlapped(r)' \/ EditKept(r)'
<1> SUFFICES ASSUME ~ past'.broken, NEW r \in Landed' \cap Landed, Alone(r)', ~ Overlapped(r)'
             PROVE  EditKept(r)'
  OBVIOUS
<1>1. \A x \in Requests : x # q => req'[x] = req[x]
  BY DEF Moves
<1>2. \A x \in Requests : req'[x].undoes = req[x].undoes
  BY <1>1
<1>3. ~ Overlapped(r)
  BY <1>2, OverlappedStays
<1>4. EditKept(r)
  <2>1. Alone(r)
    BY DEF Alone
  <2> QED
    BY <1>3, <2>1 DEF EditsInv
<1>5. req'[r].kind = req[r].kind /\ req'[r].id = req[r].id
  BY <1>1 DEF Landed
<1>6. names'["state"] # None
  BY <1>4 DEF EditKept
<1>7. CopiesBear
  BY DEF EditsInv
<1> QED
  BY <1>2, <1>3, <1>4, <1>5, <1>6, <1>7, EditKeptOn

LEMMA OpenEdits ==
    ASSUME FilesInv, EditsInv, NEW r \in Requests, Open(r)
    PROVE  EditsInv'
<1>1. /\ Content("state")' = Content("state") /\ Saving' = Saving
      /\ Sources' \subseteq Sources /\ Moves(r) /\ req[r].step = "loaded"
      /\ req'[r].step = "opened" /\ req'[r].copy = req[r].copy
  BY OpenSources
<1>2. memory' = memory /\ past' = past /\ ReqTypes /\ CopiesBear
  BY DEF Open, FilesInv, EditsInv
<1>3. \A x \in Requests : x # r => req'[x] = req[x]
  BY <1>1 DEF Moves
<1>4. names'["state"] = names["state"] /\ InFile' = InFile
  <2>1. PICK i : names' = [names EXCEPT ![TmpOf(FileOf(r))] = i]
    BY OpenFacts
  <2> QED
    BY <1>1, <2>1, SameReal DEF FilesInv, DiskTypes, FileNames, TmpOf, InFile
<1>5. req'[r].undoes = req[r].undoes /\ req'[r].kind = req[r].kind /\ req'[r].id = req[r].id
  <2>1. Keeps(r)
    BY <1>1, <1>2, GoingOn DEF Request
  <2> QED
    BY <1>1, <2>1 DEF Keeps, Ends
<1>6. Landed' \subseteq Landed /\ InMemory' \subseteq InMemory
  BY <1>1, <1>3 DEF Landed, InMemory
<1>7. CopiesBear'
  BY <1>1, <1>2, <1>5, <1>6, CopiesBearOn
<1>8. ~ past'.broken => \A x \in Landed' \cap Landed : Alone(x)' => Overlapped(x)' \/ EditKept(x)'
  BY <1>1, <1>2, <1>4, <1>5, <1>6, EditsOn
<1> QED
  BY <1>6, <1>7, <1>8 DEF EditsInv

LEMMA WriteEdits ==
    ASSUME FilesInv, EditsInv, NEW r \in Requests, Write(r)
    PROVE  EditsInv'
<1>1. /\ Saving' \subseteq Saving /\ Sources' \subseteq Sources
      /\ Moves(r) /\ req[r].step = "opened"
      /\ \/ req'[r].step = "written" /\ req'[r].copy = req[r].copy
         \/ req'[r].step = "error"
      /\ names["state"] # None => names'["state"] # None
      /\ InFile' \subseteq InFile \/ (r \in Saving /\ ~ Alone(r))
  BY WriteSources
<1>2. memory' = memory /\ past' = past /\ ReqTypes /\ CopiesBear
  BY DEF Write, FilesInv, EditsInv
<1>3. \A x \in Requests : x # r => req'[x] = req[x]
  BY <1>1 DEF Moves
<1>4. /\ req'[r].undoes = req[r].undoes
      /\ r \in Saving' => req'[r].copy = req[r].copy /\ req'[r].kind = req[r].kind /\ req'[r].id = req[r].id
  <2>1. Keeps(r)
    BY <1>1, <1>2, GoingOn DEF Request
  <2> QED
    BY <1>1, <2>1 DEF Keeps, Ends, Saving, AtFile
<1>5. Landed' \subseteq Landed /\ InMemory' \subseteq InMemory /\ r \notin Landed'
  BY <1>1, <1>3 DEF Landed, InMemory
<1>6. CopiesBear'
  BY <1>1, <1>2, <1>4, <1>5, CopiesBearOn
<1>7. ~ past'.broken => \A x \in Landed' \cap Landed : Alone(x)' => Overlapped(x)' \/ EditKept(x)'
  BY <1>1, <1>2, <1>4, <1>5, EditsOn
<1> QED
  BY <1>5, <1>6, <1>7 DEF EditsInv

LEMMA StoreEdits ==
    ASSUME FilesInv, EditsInv, NEW r \in Requests, StoreState(r)
    PROVE  EditsInv'
<1>1. /\ r \in Saving /\ req[r].step = "renamed" /\ memory' = req[r].copy
      /\ Saving' = Saving \ {r} /\ Sources' \subseteq Sources /\ InFile' = InFile
      /\ names'["state"] = names["state"]
      /\ Moves(r) /\ req'[r].step \in {"stored", "ok"}
      /\ past'.met.saves = past.met.saves /\ past'.broken = past.broken
      /\ past'.undone = past.undone /\ Landed' \subseteq Landed
  BY StoreSources
<1>2. ReqTypes /\ CopiesBear
  BY DEF FilesInv, EditsInv
<1>3. req'[r].undoes = req[r].undoes /\ req'[r].kind = req[r].kind /\ req'[r].id = req[r].id
  <2>1. Keeps(r)
    BY <1>1, <1>2, GoingOn DEF Request
  <2> QED
    BY <1>1, <2>1 DEF Keeps, Ends
<1>4. CopiesBear'
  BY <1>1, <1>2, <1>3, CopiesBearOn
<1>5. ~ past'.broken => \A x \in Landed' \cap Landed : Alone(x)' => Overlapped(x)' \/ EditKept(x)'
  BY <1>1, <1>3, EditsOn
<1> QED
  BY <1>1, <1>4, <1>5 DEF EditsInv

LEMMA ElsewhereEdits ==
    ASSUME FilesInv, EditsInv, NEW r \in Requests, Elsewhere(r)
    PROVE  EditsInv'
<1>1. /\ Saving' = Saving /\ r \notin Saving /\ Sources' \subseteq Sources
      /\ names'["state"] = names["state"] /\ InFile' = InFile
      /\ Moves(r) /\ memory' = memory
      /\ past'.met.saves = past.met.saves /\ past'.broken = past.broken
      /\ past'.undone = past.undone
      /\ Landed' \subseteq Landed /\ InMemory' \subseteq InMemory
  BY ElsewhereSources
<1>2. CopiesBear
  BY DEF EditsInv
<1>3. /\ req'[r].undoes = req[r].undoes /\ req'[r].step # "new"
      /\ r \in Landed' => req'[r].kind = req[r].kind /\ req'[r].id = req[r].id
  BY <1>2, ElsewhereUndoes
<1>4. CopiesBear'
  BY <1>1, <1>2, <1>3, CopiesBearOn
<1>5. ~ past'.broken => \A x \in Landed' \cap Landed : Alone(x)' => Overlapped(x)' \/ EditKept(x)'
  BY <1>1, <1>3, EditsOn
<1> QED
  BY <1>1, <1>4, <1>5 DEF EditsInv

LEMMA RenameEdits ==
    ASSUME Marks, FilesInv, EditsInv, NEW r \in Requests, Rename(r)
    PROVE  EditsInv'
<1>1. /\ Saving' \subseteq Saving /\ Sources' \subseteq Sources
      /\ Saving \subseteq Saving' \cup {r}
      /\ Moves(r) /\ req[r].step = "written"
      /\ \/ req'[r].step = "renamed" /\ req'[r].copy = req[r].copy /\ req'[r].kind = req[r].kind
            /\ past' = [past EXCEPT !.issued = @ \cup IssuedBy(r),
                                    !.undone = @ \cup req[r].undoes]
         \/ req'[r].step = "error" /\ past' = past /\ UNCHANGED disk
      /\ names["state"] # None => names'["state"] # None
      /\ r \notin Saving \/ req'[r].step = "error" => Content("state")' = Content("state")
      /\ r \in Saving /\ req'[r].step = "renamed" => names'["state"] # None
      /\ r \in Saving /\ req'[r].step = "renamed" /\ Alone(r) =>
            /\ InFile' = {req[r].copy} /\ Sources' = {req[r].copy} /\ Saving' = {r}
  BY RenameSources
<1>2. ReqTypes /\ PastTypes /\ memory' = memory /\ CopiesBear
  BY DEF FilesInv, Rename, EditsInv
<1>3. \A x \in Requests : x # r => req'[x] = req[x]
  BY <1>1 DEF Moves
<1>4. /\ req'[r].undoes = req[r].undoes
      /\ req'[r].step = "renamed" => req'[r].kind = req[r].kind /\ req'[r].id = req[r].id
  <2>1. Keeps(r)
    BY <1>1, <1>2, GoingOn DEF Request
  <2> QED
    BY <1>1, <2>1 DEF Keeps, Ends
<1>5. /\ past'.met.saves = past.met.saves /\ past'.broken = past.broken
      /\ past.undone \subseteq past'.undone
      /\ req'[r].step = "renamed" => req[r].undoes \subseteq past'.undone
  <2>1. PICK m, u, i, l, b, v, w :
          /\ past = [met |-> m, undone |-> u, issued |-> i, left |-> l, broken |-> b]
          /\ v = i \cup IssuedBy(r) /\ w = u \cup req[r].undoes
    BY <1>2 DEF PastTypes
  <2>2. CASE past' = [past EXCEPT !.issued = @ \cup IssuedBy(r), !.undone = @ \cup req[r].undoes]
    <3>1. past' = [met |-> m, undone |-> w, issued |-> v, left |-> l, broken |-> b]
      BY <2>1, <2>2
    <3> QED
      BY <2>1, <3>1
  <2>3. CASE req'[r].step = "error" /\ past' = past
    BY <2>3
  <2> QED
    BY <1>1, <2>2, <2>3
<1>6. /\ InMemory' \subseteq InMemory /\ Landed' \subseteq Landed \cup {r}
      /\ r \in Landed' => req'[r].step = "renamed" /\ r \in Saving
  BY <1>1, <1>3 DEF InMemory, Landed, Saving, AtFile
<1>7. CopiesBear'
  <2>1. r \in Saving' => req'[r].step = "renamed"
    BY <1>1 DEF Saving, AtFile
  <2>2. Landed' \subseteq Landed \cup Saving
    BY <1>6
  <2> QED
    BY <1>1, <1>2, <1>4, <1>5, <1>6, <2>1, <2>2, CopiesBearOn
<1>8. ~ past'.broken => \A x \in Landed' \cap Landed : Alone(x)' => Overlapped(x)' \/ EditKept(x)'
  <2>1. \/ InFile' \subseteq InFile
        \/ r \in Saving /\ req[r].undoes \subseteq past'.undone
    <3>1. CASE r \notin Saving \/ req'[r].step = "error"
      BY <1>1, <3>1, SameReal DEF InFile
    <3>2. CASE r \in Saving /\ req'[r].step = "renamed"
      BY <1>5, <3>2
    <3> QED
      BY <1>1, <3>1, <3>2
  <2> QED
    BY <1>1, <1>2, <1>4, <1>5, <1>6, <2>1, EditsOn
<1>9. ASSUME r \in Landed', Alone(r)' PROVE EditKept(r)'
  <2>1. Alone(r) /\ r \in Saving /\ req'[r].step = "renamed"
    BY <1>5, <1>6, <1>9 DEF Alone
  <2>2. /\ InFile' = {req[r].copy} /\ Sources' = {req[r].copy} /\ names'["state"] # None
    BY <1>1, <2>1
  <2>3. Bears(req[r].copy, r)
    BY <1>2, <2>1 DEF CopiesBear
  <2>4. \A s \in {req[r].copy} : Bears(s, r)'
    <3>1. ASSUME NEW s, s = req[r].copy PROVE Bears(s, r)'
      BY <1>4, <2>1, <2>3, <3>1 DEF Bears
    <3> QED
      BY <3>1
  <2>5. r \notin InMemory'
    BY <2>1 DEF InMemory
  <2> QED
    BY <2>2, <2>4, <2>5 DEF EditKept
<1> QED
  BY <1>6, <1>7, <1>8, <1>9 DEF EditsInv

LEMMA MutateEdits ==
    ASSUME FilesInv, EditsInv, NEW r \in Requests, Mutate(r)
    PROVE  EditsInv'
<1>1. /\ Moves(r) /\ memory' = memory /\ r \notin Saving
      /\ names'["state"] = names["state"] /\ InFile' = InFile
      /\ past'.broken = past.broken /\ past'.undone = past.undone
      /\ Landed' \subseteq Landed /\ InMemory' \subseteq InMemory
      /\ req[r].step = "new" /\ req'[r].step \in {"loaded", "notFound"}
      /\ \/ /\ Saving' = Saving /\ Sources' \subseteq Sources
            /\ past'.met.saves = past.met.saves /\ Keeps(r)
         \/ \E kind, id, uses : Starts(r, kind, id, uses)
  BY MutateSources
<1>2. ReqTypes /\ CopiesBear /\ IsState(memory)
  BY DEF FilesInv, EditsInv, Shaped
<1>3. \A x \in Requests : x # r => req'[x] = req[x]
  BY <1>1 DEF Moves
<1>4. r \notin Landed /\ r \notin Landed'
  BY <1>1 DEF Landed
<1>5. CASE /\ Saving' = Saving /\ Sources' \subseteq Sources
           /\ past'.met.saves = past.met.saves /\ Keeps(r)
  <2>1. req'[r].undoes = req[r].undoes
    BY <1>5 DEF Keeps
  <2>2. CopiesBear'
    BY <1>1, <1>2, <1>4, <1>5, <2>1, CopiesBearOn
  <2>3. ~ past'.broken => \A x \in Landed' \cap Landed : Alone(x)' => Overlapped(x)' \/ EditKept(x)'
    BY <1>1, <1>4, <1>5, <2>1, EditsOn
  <2> QED
    BY <1>1, <2>2, <2>3 DEF EditsInv
<1>6. ASSUME NEW kind, NEW id, NEW uses, Starts(r, kind, id, uses) PROVE EditsInv'
  <2> PICK copy : copy = Edited(memory, r, kind, id, uses)
    OBVIOUS
  <2>1. /\ kind \in Saves /\ uses \in SUBSET Nat
        /\ req'[r].step = "loaded" /\ req'[r].kind = kind /\ req'[r].id = id
        /\ req'[r].copy = copy
        /\ req'[r].undoes = Undoes(kind, id)
        /\ Saving' = Saving \cup {r}
        /\ Sources' \subseteq Sources \cup {copy}
        /\ past.met.saves \subseteq past'.met.saves
    BY <1>6 DEF Starts
  <2>2. kind \in OnAnItem => id \in Ids(memory[ListOf(kind)])
    BY <1>6 DEF Starts
  <2>3. MadeOf(memory, copy, r, kind, id, uses)
    BY <1>2, <2>1, EditFacts
  <2>4. kind \in Deletes => id \in Nat
    <3> SUFFICES ASSUME kind \in Deletes PROVE id \in Nat
      OBVIOUS
    <3>1. kind \in OnAnItem /\ ListOf(kind) \in ListNames
      BY <2>3 DEF Deletes, OnAnItem, MadeOf
    <3>2. PICK y \in ToSet(memory[ListOf(kind)]) : y.id = id
      BY <2>2, <3>1, IdsOf
    <3>3. y \in Items
      BY <1>2, <3>1, <3>2, ListTypes DEF IsState
    <3> QED
      BY <3>2, <3>3 DEF Items
  <2>5. Shown(copy, kind, id, r)
    BY <1>2, <2>1, <2>2, <2>3, EditShown
  <2>6. CopiesBear'
    <3>1. ASSUME NEW x \in Saving' PROVE Bears(req[x].copy, x)'
      <4>1. CASE x = r
        BY <2>1, <2>5, <4>1 DEF Bears
      <4>2. CASE x # r
        <5>1. x \in Saving /\ req'[x] = req[x]
          BY <1>3, <2>1, <4>2 DEF Saving
        <5> QED
          BY <1>2, <5>1 DEF CopiesBear, Bears
      <4> QED
        BY <4>1, <4>2
    <3>2. ASSUME NEW x \in Saving', req'[x].step = "renamed" PROVE req'[x].undoes \subseteq past'.undone
      BY <1>1, <1>2, <1>3, <2>1, <3>2 DEF CopiesBear, Saving
    <3>3. ASSUME NEW x \in Saving' \cup Landed', req'[x].kind \in Deletes PROVE req'[x].id \in Nat
      <4>1. CASE x = r
        BY <2>1, <2>4, <3>3, <4>1
      <4>2. CASE x # r
        <5>1. x \in Saving \cup Landed /\ req'[x] = req[x]
          BY <1>1, <1>3, <2>1, <4>2 DEF Saving, Landed
        <5> QED
          BY <1>2, <3>3, <5>1 DEF CopiesBear
      <4> QED
        BY <4>1, <4>2
    <3>4. ASSUME NEW x \in Requests, req'[x].step = "new" PROVE req'[x].undoes = {}
      BY <1>2, <1>3, <2>1, <3>4 DEF CopiesBear
    <3> QED
      BY <3>1, <3>2, <3>3, <3>4 DEF CopiesBear
  <2>7. ASSUME ~ past'.broken, NEW x \in Landed', Alone(x)', ~ Overlapped(x)'
        PROVE  EditKept(x)'
    <3>1. x \in Landed /\ x \in Requests /\ x # r /\ req'[x] = req[x] /\ Alone(x)
      BY <1>1, <1>3, <1>4, <2>1, <2>7 DEF Landed, Alone
    <3>2. \A y \in Requests : req[y].undoes \subseteq req'[y].undoes
      BY <1>1, <1>2, <1>3 DEF CopiesBear
    <3>3. ~ Overlapped(x)
      BY <1>1, <2>1, <2>7, <3>2, OverlappedStays
    <3>4. EditKept(x)
      BY <1>1, <2>7, <3>1, <3>3 DEF EditsInv
    <3>5. x \notin Saving
      BY <1>6, <2>7, Rivals DEF Alone
    <3>6. x \in InMemory /\ req[x].kind \in Saves
      BY <3>1, <3>5 DEF Landed, InMemory, Saving, AtFile
    <3>7. \A s : Bears(s, x)' <=> Bears(s, x)
      <4>1. ASSUME NEW s PROVE Bears(s, x)' <=> Bears(s, x)
        BY <3>1, Zenon DEF Bears
      <4> QED
        BY <4>1
    <3>8. Bears(memory, x) /\ Bears(memory, x)'
      <4>1. Bears(memory, x)
        BY <3>4, <3>6 DEF EditKept
      <4> QED
        BY <1>1, <3>1, <4>1 DEF Bears
    <3>9. (\E y \in Saving' : x \in req'[y].undoes) \/ \A s \in Sources' : Bears(s, x)
      <4>1. CASE \E y \in Saving : x \in req[y].undoes
        BY <1>1, <1>3, <2>1, <4>1 DEF Saving
      <4>2. CASE x \in Undoes(kind, id)
        BY <2>1, <4>2
      <4>3. CASE x \notin Undoes(kind, id) /\ \A s \in Sources : Bears(s, x)
        <5>1. x \notin UndoneIn(memory, kind, id)
          BY <4>3 DEF UndoneIn, Undoes
        <5>2. req[x].kind \in Deletes => req[x].id \in Nat
          BY <1>2, <3>1 DEF CopiesBear
        <5>3. Shown(memory, req[x].kind, req[x].id, x)
          BY <3>8 DEF Bears
        <5>4. Shown(copy, req[x].kind, req[x].id, x)
          BY <1>2, <2>1, <2>3, <3>1, <3>6, <5>1, <5>2, <5>3, EditKeepsShown
        <5>5. Bears(copy, x)
          BY <5>4 DEF Bears
        <5> QED
          BY <2>1, <4>3, <5>5
      <4> QED
        BY <3>4, <4>1, <4>2, <4>3 DEF EditKept
    <3> QED
      BY <1>1, <3>4, <3>7, <3>8, <3>9 DEF EditKept
  <2> QED
    BY <2>6, <2>7 DEF EditsInv
<1> QED
  BY <1>1, <1>5, <1>6

LEMMA RestartEdits ==
    ASSUME Marks, FilesInv, EditsInv, Restart
    PROVE  EditsInv'
<1>1. /\ Saving' = {} /\ Sources' = InFile' /\ memory' = Loaded
      /\ past'.met.saves = past.met.saves /\ past'.undone = past.undone
      /\ Landed' \subseteq InMemory
      /\ ~ past'.broken => /\ ~ past.broken /\ Content("state") # Torn
                           /\ InFile' = InFile /\ names'["state"] = names["state"]
      /\ \A x \in Requests :
            \/ req'[x] = req[x]
            \/ req'[x].step = "gone" /\ req'[x].undoes = req[x].undoes
  BY RestartSources
<1>2. CopiesBear /\ \A x \in Requests : req'[x].undoes = req[x].undoes
  BY <1>1 DEF EditsInv
<1>3. \A x \in Landed' : x \in Landed /\ x \in Requests /\ req'[x] = req[x]
  BY <1>1 DEF Landed, InMemory
<1>4. CopiesBear'
  <2>1. \A x \in Landed' : req'[x].kind \in Deletes => req'[x].id \in Nat
    BY <1>2, <1>3 DEF CopiesBear
  <2>2. \A x \in Requests : req'[x].step = "new" => req'[x].undoes = {}
    BY <1>1, <1>2 DEF CopiesBear
  <2> QED
    BY <1>1, <2>1, <2>2 DEF CopiesBear
<1>5. ASSUME ~ past'.broken, NEW x \in Landed', Alone(x)', ~ Overlapped(x)'
      PROVE  EditKept(x)'
  <2>1. Alone(x) /\ ~ Overlapped(x)
    BY <1>1, <1>2, <1>5, OverlappedStays DEF Alone
  <2>2. EditKept(x) /\ x \in InMemory
    BY <1>1, <1>3, <1>5, <2>1 DEF EditsInv
  <2>3. \A s : Bears(s, x)' <=> Bears(s, x)
    <3>1. ASSUME NEW s PROVE Bears(s, x)' <=> Bears(s, x)
      BY <1>3, Zenon DEF Bears
    <3> QED
      BY <3>1
  <2>4. Loaded \in InFile
    <3>1. "state" \in PairOf("state")
      BY DEF PairOf
    <3>2. IsState(inode[names["state"]]) /\ Content("state") = inode[names["state"]]
      BY <1>1, <1>5, <2>2, <3>1 DEF FilesInv, Shaped, Fits, Content, EditKept
    <3> QED
      BY <3>2 DEF Marks, Loaded, InFile, Real
  <2>5. \A s \in InFile' : Bears(s, x)'
    BY <1>1, <1>5, <2>2, <2>3 DEF EditKept
  <2>6. Bears(memory, x)'
    <3>1. Bears(Loaded, x)
      BY <2>2, <2>4 DEF EditKept
    <3> QED
      BY <1>1, <1>3, <3>1 DEF Bears
  <2> QED
    BY <1>1, <1>5, <2>2, <2>5, <2>6 DEF EditKept
<1> QED
  BY <1>4, <1>5 DEF EditsInv

LEMMA SameEdits ==
    ASSUME EditsInv, UNCHANGED <<memory, disk, req, past>>
    PROVE  EditsInv'
<1>1. req' = req /\ memory' = memory /\ past' = past /\ names' = names /\ inode' = inode
  BY DEF disk
<1>2. /\ Saving' = Saving /\ Landed' = Landed /\ InMemory' = InMemory
      /\ \A file : Content(file)' = Content(file)
  BY <1>1 DEF Saving, Content, Landed, InMemory
<1>3. Pending' = Pending /\ InFile' = InFile /\ Real(Content("stateTmp"))' = Real(Content("stateTmp"))
  BY <1>1, <1>2 DEF Pending, InFile, Real
<1>4. Sources' = Sources
  BY <1>1, <1>2, <1>3 DEF Sources
<1>5. \A s, r : Bears(s, r)' <=> Bears(s, r)
  <2>1. ASSUME NEW s, NEW r PROVE Bears(s, r)' <=> Bears(s, r)
    BY <1>1, Zenon DEF Bears
  <2> QED
    BY <2>1
<1>6. CopiesBear'
  <2>1. ASSUME NEW x \in Saving' PROVE Bears(req[x].copy, x)'
    BY <1>1, <1>2 DEF EditsInv, CopiesBear, Bears
  <2> QED
    BY <1>1, <1>2, <2>1 DEF EditsInv, CopiesBear
<1>7. \A r : (Alone(r)' <=> Alone(r)) /\ (Overlapped(r)' <=> Overlapped(r))
  BY <1>1 DEF Alone, Overlapped
<1>8. ASSUME NEW r, EditKept(r) PROVE EditKept(r)'
  <2>1. r \in InMemory => Bears(memory, r)'
    BY <1>1, <1>8 DEF EditKept, Bears
  <2> QED
    BY <1>1, <1>2, <1>3, <1>4, <1>5, <1>8, <2>1 DEF EditKept
<1> QED
  BY <1>1, <1>2, <1>6, <1>7, <1>8 DEF EditsInv

LEMMA InitEdits == Init => EditsInv
<1> SUFFICES ASSUME Init PROVE EditsInv
  OBVIOUS
<1>1. \A r \in Requests : req[r].step = "new" /\ req[r].undoes = {}
  BY SMT DEF Init, Idle
<1>2. Saving = {} /\ Landed = {}
  BY <1>1 DEF Saving, Landed, AtFile
<1> QED
  BY <1>1, <1>2 DEF EditsInv, CopiesBear

LEMMA NextEdits ==
    ASSUME Marks, ConfigInv, EditsInv, [Next]_vars
    PROVE  EditsInv'
<1>1. FilesInv
  BY DEF ConfigInv
<1>2. CASE UNCHANGED vars \/ TakeMessage \/ StoreMessage
  BY <1>2, SameEdits DEF vars, TakeMessage, StoreMessage
<1>3. CASE Restart
  BY <1>1, <1>3, RestartEdits
<1>4. ASSUME NEW r \in Requests, Request(r) PROVE EditsInv'
  <2>1. Mutate(r) \/ Open(r) \/ Write(r) \/ Rename(r) \/ StoreState(r) \/ Elsewhere(r)
    BY <1>4 DEF Request, Elsewhere, AtOnce
  <2> QED
    BY <1>1, <2>1, OpenEdits, WriteEdits, RenameEdits, StoreEdits, MutateEdits, ElsewhereEdits
<1> QED
  BY <1>2, <1>3, <1>4 DEF Next

(* What EditsStay says of a State.                                         *)
LEMMA BearsShows ==
    ASSUME NEW s, IsState(s), NEW r \in Requests, req[r].kind \in Saves, Bears(s, r)
    PROVE  Shows(s, r)
<1>1. CASE req[r].kind \in Adds \cup Updates
  BY <1>1 DEF Bears, Shown, Shows, Adds, Updates
<1>2. CASE req[r].kind \in Deletes
  <2>1. req[r].id \notin Ids(s[ListOf(req[r].kind)])
    BY <1>2, IdsOf DEF Bears, Shown
  <2>2. req[r].kind = "deleteChannel" => 
           \A x \in ToSet(s.rules) : req[r].id \notin x.uses \ x.dead
    BY DEF Bears, Shown, Alive
  <2> QED
    BY <1>2, <2>1, <2>2 DEF Shows, Deletes
<1>3. CASE req[r].kind = "putAccess"
  BY <1>3 DEF Bears, Shown, Shows
<1>4. CASE req[r].kind = "reorder"
  BY <1>4 DEF Shows
<1> QED
  BY <1>1, <1>2, <1>3, <1>4 DEF Saves, Adds, Updates, Deletes

(* An edit that was answered 200 is in memory and on disk, through         *)
(* restarts, until a later request replaces or undoes it; it can be lost   *)
(* only to a request it overlapped with, or with a file torn by two that   *)
(* overlapped (mutate, State::save, State::load).                          *)
THEOREM EditsTheorem ==
    ASSUME Marks
    PROVE  Spec => []EditsStay
<1>1. Init => ConfigInv /\ EditsInv
  BY InitConfig, InitEdits
<1>2. (ConfigInv /\ EditsInv) /\ [Next]_vars => (ConfigInv /\ EditsInv)'
  BY NextConfig, NextEdits
<1>3. ConfigInv /\ EditsInv => EditsStay
  <2> SUFFICES ASSUME ConfigInv, EditsInv, NEW r \in Requests, req[r].step = "ok", req[r].kind \in Saves,
                      ~ Overlapped(r), Alone(r), ~ past.broken
               PROVE  Shows(memory, r) /\ (SavesAlone => Shows(Content("state"), r))
    BY DEF EditsStay, Overlapped
  <2>1. r \in Landed /\ r \in InMemory
    BY DEF Landed, InMemory
  <2>2. EditKept(r)
    BY <2>1 DEF EditsInv
  <2>3. Shows(memory, r)
    BY <2>1, <2>2, BearsShows DEF EditKept, ConfigInv, FilesInv, Shaped
  <2>4. ASSUME SavesAlone PROVE Shows(Content("state"), r)
    <3>1. Content("state") # Torn /\ names["state"] # None
      BY <2>2, <2>4 DEF ConfigInv, StateWhole, EditKept
    <3>2. IsState(Content("state"))
      <4>1. "state" \in PairOf("state")
        BY DEF PairOf
      <4> QED
        BY <3>1, <4>1 DEF ConfigInv, FilesInv, Shaped, Fits, Content
    <3>3. Content("state") \in InFile
      BY <3>2 DEF Marks, InFile, Real
    <3> QED
      BY <2>2, <3>2, <3>3, BearsShows DEF EditKept
  <2> QED
    BY <2>3, <2>4
<1> QED
  BY <1>1, <1>2, <1>3, PTL DEF Spec


-----------------------------------------------------------------------------
(* Groups.                                                                 *)

(* As long as saves came one at a time, what a restart would load is what  *)
(* is in memory, or the copy that is about to be; and that copy lacks no   *)
(* group but the one the request deletes.                                  *)
Gone(q) == IF q.kind = "deleteGroup" THEN {q.id} ELSE {}

OneState ==
    /\ \A x \in Saving : req[x].step = "renamed" => Loaded = req[x].copy
    /\ (\A x \in Saving : req[x].step # "renamed") => Loaded = memory
    /\ \A x \in Saving : Ids(memory.groups) \subseteq Ids(req[x].copy.groups) \cup Gone(req[x])

(* The groups that a deletion is about to take a message out of.           *)
Waits(q, m) ==
    \/ q.step = "stored"
    \/ q.step = "ungroup" /\ \E p \in q.page : p[1] = m
Waiting(m) == UNION {Gone(req[x]) : x \in {y \in Requests : Waits(req[y], m)}}

(* Where a message may be.                                                 *)
Places == Ids(memory.groups) \cup past.left

Sorted ==
    /\ SeenElsewhere \subseteq Places
    /\ \A m \in Stored \ astray : group[m] \in Places \cup {NoGroup} \cup Waiting(m)

GroupsInv ==
    /\ group = [m \in Messages |-> group[m]]
    /\ SavesAlone /\ ~ past.broken => OneState /\ Sorted

LEMMA LeftNoted ==
    ASSUME PastTypes, NEW l, past' = [past EXCEPT !.left = l]
    PROVE  past'.left = l /\ past'.met = past.met /\ past'.broken = past.broken
BY DEF PastTypes

LEMMA OthersNoted ==
    ASSUME PastTypes, NEW v, NEW w,
           \/ past' = past
           \/ past' = [past EXCEPT !.issued = v, !.undone = w]
           \/ past' = [past EXCEPT !.met.saves = v]
           \/ past' = [past EXCEPT !.met.puts = v]
    PROVE  past'.left = past.left
<1>1. PICK s, p, u, i, l, b :
         past = [met |-> [saves |-> s, puts |-> p], undone |-> u, issued |-> i, left |-> l, broken |-> b]
  BY DEF PastTypes
<1>2. CASE past' = [past EXCEPT !.issued = v, !.undone = w]
  <2>1. past' = [met |-> [saves |-> s, puts |-> p], undone |-> w, issued |-> v, left |-> l, broken |-> b]
    BY <1>1, <1>2
  <2> QED
    BY <1>1, <2>1
<1>3. CASE past' = [past EXCEPT !.met.saves = v]
  <2>1. past' = [met |-> [saves |-> v, puts |-> p], undone |-> u, issued |-> i, left |-> l, broken |-> b]
    BY <1>1, <1>3
  <2> QED
    BY <1>1, <2>1
<1>4. CASE past' = [past EXCEPT !.met.puts = v]
  <2>1. past' = [met |-> [saves |-> s, puts |-> v], undone |-> u, issued |-> i, left |-> l, broken |-> b]
    BY <1>1, <1>4
  <2> QED
    BY <1>1, <2>1
<1> QED
  BY <1>2, <1>3, <1>4

(* A step of a save that does not change what is in the file or in memory. *)
LEMMA OneStateOn ==
    ASSUME OneState, NEW r \in Requests, Moves(r),
           Content("state")' = Content("state"), memory' = memory,
           Saving' \subseteq Saving, Saving \subseteq Saving' \cup {r},
           r \in Saving => req[r].step # "renamed",
           r \in Saving' => /\ req'[r].copy = req[r].copy /\ req'[r].kind = req[r].kind
                            /\ req'[r].id = req[r].id /\ req'[r].step # "renamed"
    PROVE  OneState'
<1>1. \A x \in Requests : x # r => req'[x] = req[x]
  BY DEF Moves
<1>2. Loaded' = Loaded
  BY DEF Loaded
<1>3. ASSUME NEW x \in Saving'
      PROVE  /\ x \in Saving /\ req'[x].copy = req[x].copy /\ Gone(req'[x]) = Gone(req[x])
             /\ req'[x].step = "renamed" <=> req[x].step = "renamed"
  BY <1>1 DEF Gone, Saving
<1>4. \A x \in Saving' : req'[x].step = "renamed" => Loaded' = req'[x].copy
  BY <1>2, <1>3 DEF OneState
<1>5. (\A x \in Saving' : req'[x].step # "renamed") => Loaded' = memory'
  BY <1>2, <1>3 DEF OneState
<1>6. \A x \in Saving' : Ids(memory'.groups) \subseteq Ids(req'[x].copy.groups) \cup Gone(req'[x])
  BY <1>3 DEF OneState
<1> QED
  BY <1>4, <1>5, <1>6 DEF OneState, Gone, Ids

LEMMA StillWaits ==
    ASSUME NEW r \in Requests, Moves(r), req[r].step \notin {"stored", "ungroup"}
    PROVE  \A m : Waiting(m) \subseteq Waiting(m)'
<1>1. \A x \in Requests : x # r => req'[x] = req[x]
  BY DEF Moves
<1>2. ASSUME NEW m, NEW x \in Requests, Waits(req[x], m)
      PROVE  Waits(req'[x], m) /\ Gone(req'[x]) = Gone(req[x])
  <2>1. x # r
    BY <1>2 DEF Waits
  <2> QED
    BY <1>1, <1>2, <2>1
<1>3. \A m : Waiting(m)' = UNION {Gone(req'[x]) : x \in {y \in Requests : Waits(req'[y], m)}}
  BY DEF Waiting, Gone, Waits
<1>4. ASSUME NEW m, NEW g \in Waiting(m) PROVE g \in Waiting(m)'
  <2>1. PICK x \in Requests : Waits(req[x], m) /\ g \in Gone(req[x])
    BY <1>4 DEF Waiting
  <2> QED
    BY <1>2, <1>3, <2>1
<1> QED
  BY <1>4

LEMMA SeenAsBefore ==
    ASSUME NEW r \in Requests, Moves(r), intake' = intake,
           req'[r].step \in {"page", "regroup"} =>
              req[r].step \in {"page", "regroup"} /\ req'[r].copy = req[r].copy
    PROVE  SeenElsewhere' \subseteq SeenElsewhere
<1>1. \A x \in Requests : x # r => req'[x] = req[x]
  BY DEF Moves
<1>2. \A x \in Requests : req'[x].step \in {"page", "regroup"} =>
         req[x].step \in {"page", "regroup"} /\ req'[x].copy = req[x].copy
  BY <1>1
<1> QED
  BY <1>2 DEF SeenElsewhere, Ids

(* A step that sorts nothing and changes no State.                         *)
LEMMA SortedOn ==
    ASSUME Sorted, group' = group, astray' = astray, memory' = memory, past'.left = past.left,
           SeenElsewhere' \subseteq SeenElsewhere \cup Ids(memory.groups),
           \A m : Waiting(m) \subseteq Waiting(m)'
    PROVE  Sorted'
<1>1. Places' = Places /\ Stored' = Stored
  BY DEF Places, Stored
<1> QED
  BY <1>1 DEF Sorted, Places

LEMMA OpenGroups ==
    ASSUME FilesInv, GroupsInv, NEW r \in Requests, Open(r)
    PROVE  GroupsInv'
<1>1. /\ Content("state")' = Content("state") /\ Saving' = Saving /\ Moves(r)
      /\ req[r].step = "loaded" /\ req'[r].step = "opened" /\ req'[r].copy = req[r].copy
  BY OpenSources
<1>2. memory' = memory /\ past' = past /\ group' = group /\ astray' = astray
      /\ intake' = intake /\ ReqTypes
  BY DEF Open, FilesInv, shelf
<1>3. req'[r].kind = req[r].kind /\ req'[r].id = req[r].id
  <2>1. Keeps(r)
    BY <1>1, <1>2, GoingOn DEF Request
  <2> QED
    BY <1>1, <2>1 DEF Keeps, Ends
<1>4. OneState => OneState'
  BY <1>1, <1>2, <1>3, OneStateOn
<1>5. SeenElsewhere' \subseteq SeenElsewhere /\ \A m : Waiting(m) \subseteq Waiting(m)'
  BY <1>1, <1>2, SeenAsBefore, StillWaits
<1>6. Sorted => Sorted'
  BY <1>2, <1>5, SortedOn
<1> QED
  BY <1>2, <1>4, <1>6 DEF GroupsInv, SavesAlone

LEMMA WriteGroups ==
    ASSUME FilesInv, GroupsInv, NEW r \in Requests, Write(r)
    PROVE  GroupsInv'
<1>1. /\ Saving' \subseteq Saving /\ Saving \subseteq Saving' \cup {r}
      /\ Moves(r) /\ req[r].step = "opened"
      /\ \/ req'[r].step = "written" /\ req'[r].copy = req[r].copy
         \/ req'[r].step = "error"
      /\ Alone(r) => Content("state")' = Content("state")
  BY WriteSources
<1>2. memory' = memory /\ past' = past /\ group' = group /\ astray' = astray
      /\ intake' = intake /\ ReqTypes
  BY DEF Write, FilesInv, shelf
<1>3. r \in Saving' => /\ req'[r].copy = req[r].copy /\ req'[r].kind = req[r].kind
                       /\ req'[r].id = req[r].id /\ req'[r].step # "renamed"
  <2>1. Keeps(r)
    BY <1>1, <1>2, GoingOn DEF Request
  <2> QED
    BY <1>1, <2>1 DEF Keeps, Ends, Saving, AtFile
<1>4. SavesAlone /\ OneState => OneState'
  BY <1>1, <1>2, <1>3, OneStateOn DEF SavesAlone, Alone
<1>5. SeenElsewhere' \subseteq SeenElsewhere /\ \A m : Waiting(m) \subseteq Waiting(m)'
  BY <1>1, <1>2, SeenAsBefore, StillWaits
<1>6. Sorted => Sorted'
  BY <1>2, <1>5, SortedOn
<1> QED
  BY <1>2, <1>4, <1>6 DEF GroupsInv, SavesAlone

(* With the rename the file is what memory is about to be.                 *)
LEMMA RenameGroups ==
    ASSUME Marks, FilesInv, GroupsInv, NEW r \in Requests, Rename(r)
    PROVE  GroupsInv'
<1>1. /\ Saving' \subseteq Saving /\ Saving \subseteq Saving' \cup {r}
      /\ Moves(r) /\ req[r].step = "written"
      /\ \/ req'[r].step = "renamed" /\ req'[r].copy = req[r].copy /\ req'[r].kind = req[r].kind
            /\ past' = [past EXCEPT !.issued = @ \cup IssuedBy(r),
                                    !.undone = @ \cup req[r].undoes]
         \/ req'[r].step = "error" /\ past' = past
      /\ r \notin Saving \/ req'[r].step = "error" => Content("state")' = Content("state")
      /\ r \in Saving /\ req'[r].step = "renamed" /\ Alone(r) =>
            Content("state")' = req[r].copy /\ Saving' = {r}
  BY RenameSources
<1>2. /\ memory' = memory /\ group' = group /\ astray' = astray /\ intake' = intake
      /\ ReqTypes /\ PastTypes
  BY DEF Rename, FilesInv, shelf
<1>3. req'[r].step = "renamed" => req'[r].kind = req[r].kind /\ req'[r].id = req[r].id
  <2>1. Keeps(r)
    BY <1>1, <1>2, GoingOn DEF Request
  <2> QED
    BY <1>1, <2>1 DEF Keeps, Ends
<1>4. past'.left = past.left /\ past'.met.saves = past.met.saves /\ past'.broken = past.broken
  <2>1. PICK s, p, u, i, l, b, v, w :
          /\ past = [met |-> [saves |-> s, puts |-> p], undone |-> u, issued |-> i, left |-> l, broken |-> b]
          /\ v = i \cup IssuedBy(r) /\ w = u \cup req[r].undoes
    BY <1>2 DEF PastTypes
  <2>2. CASE past' = [past EXCEPT !.issued = @ \cup IssuedBy(r), !.undone = @ \cup req[r].undoes]
    <3>1. past' = [met |-> [saves |-> s, puts |-> p], undone |-> w, issued |-> v, left |-> l, broken |-> b]
      BY <2>1, <2>2
    <3> QED
      BY <2>1, <3>1
  <2> QED
    BY <1>1, <2>2
<1>5. ASSUME SavesAlone, OneState PROVE OneState'
  <2>1. CASE r \notin Saving \/ req'[r].step = "error"
    <3>1. r \notin Saving'
      BY <1>1, <2>1 DEF Saving, AtFile
    <3> QED
      BY <1>1, <1>2, <1>5, <2>1, <3>1, OneStateOn
  <2>2. CASE r \in Saving /\ req'[r].step = "renamed"
    <3>1. Content("state")' = req[r].copy /\ Saving' = {r}
      BY <1>1, <1>5, <2>2 DEF SavesAlone, Alone
    <3>2. req[r].copy # None /\ req[r].copy # Torn
      BY <2>2, SourcesTyped DEF Marks
    <3>3. Loaded' = req'[r].copy /\ req'[r].copy = req[r].copy
      BY <1>1, <2>2, <3>1, <3>2 DEF Loaded
    <3>4. Ids(memory.groups) \subseteq Ids(req[r].copy.groups) \cup Gone(req[r])
      BY <1>5, <2>2 DEF OneState
    <3>5. Ids(memory'.groups) \subseteq Ids(req'[r].copy.groups) \cup Gone(req'[r])
      BY <1>2, <1>3, <2>2, <3>3, <3>4 DEF Gone
    <3> QED
      BY <2>2, <3>1, <3>3, <3>5 DEF OneState, Ids, Gone
  <2> QED
    BY <1>1, <2>1, <2>2
<1>6. SeenElsewhere' \subseteq SeenElsewhere /\ \A m : Waiting(m) \subseteq Waiting(m)'
  BY <1>1, <1>2, SeenAsBefore, StillWaits
<1>7. Sorted => Sorted'
  BY <1>2, <1>4, <1>6, SortedOn
<1> QED
  BY <1>2, <1>4, <1>5, <1>7 DEF GroupsInv, SavesAlone

LEMMA MutateGroups ==
    ASSUME FilesInv, GroupsInv, NEW r \in Requests, Mutate(r)
    PROVE  GroupsInv'
<1>1. /\ Moves(r) /\ memory' = memory /\ r \notin Saving
      /\ Content("state")' = Content("state") /\ past'.broken = past.broken
      /\ req[r].step = "new" /\ req'[r].step \in {"loaded", "notFound"}
      /\ \/ Saving' = Saving /\ past'.met.saves = past.met.saves
         \/ \E kind, id, uses : Starts(r, kind, id, uses)
  BY MutateSources
<1>2. /\ group' = group /\ astray' = astray /\ intake' = intake
      /\ PastTypes /\ IsState(memory)
  BY DEF Mutate, FilesInv, Shaped, shelf
<1>3. past'.left = past.left
  <2>1. past' = past \/ \E v : past' = [past EXCEPT !.met.saves = v]
    <3>1. PICK v : v = past.met.saves \cup With(r, Saves)
      OBVIOUS
    <3>2. past' = past \/ past' = [past EXCEPT !.met.saves = @ \cup With(r, Saves)]
      BY DEF Mutate
    <3>3. past' = past \/ past' = [past EXCEPT !.met.saves = v]
      BY <1>2, <3>1, <3>2 DEF PastTypes
    <3> QED
      BY <3>3
  <2> QED
    BY <1>2, <2>1, OthersNoted
<1>4. ASSUME SavesAlone, OneState, past'.met.saves = {} PROVE OneState'
  <2>1. CASE Saving' = Saving
    BY <1>1, <1>4, <2>1, OneStateOn
  <2>2. ASSUME NEW kind, NEW id, NEW uses, Starts(r, kind, id, uses) PROVE OneState'
    <3>1. Saving = {}
      BY <1>4, <2>2, Rivals
    <3> PICK copy : copy = Edited(memory, r, kind, id, uses)
      OBVIOUS
    <3>2. /\ kind \in Saves /\ uses \in SUBSET Nat
          /\ req'[r].step = "loaded" /\ req'[r].kind = kind /\ req'[r].id = id
          /\ req'[r].copy = copy /\ Saving' = {r}
      BY <2>2, <3>1 DEF Starts
    <3>3. Ids(memory.groups) \subseteq Ids(copy.groups) \cup (IF kind = "deleteGroup" THEN {id} ELSE {})
      <4>1. MadeOf(memory, copy, r, kind, id, uses)
        BY <1>2, <3>2, EditFacts
      <4> QED
        BY <1>2, <3>2, <4>1, EditedGroups
    <3>4. Ids(memory'.groups) \subseteq Ids(req'[r].copy.groups) \cup Gone(req'[r])
      BY <1>1, <3>2, <3>3 DEF Gone
    <3>5. Loaded' = memory'
      BY <1>1, <1>4, <3>1 DEF OneState, Loaded
    <3> QED
      BY <3>2, <3>4, <3>5 DEF OneState, Ids, Gone
  <2> QED
    BY <1>1, <2>1, <2>2
<1>5. SeenElsewhere' \subseteq SeenElsewhere /\ \A m : Waiting(m) \subseteq Waiting(m)'
  BY <1>1, <1>2, SeenAsBefore, StillWaits
<1>6. Sorted => Sorted'
  BY <1>1, <1>2, <1>3, <1>5, SortedOn
<1>7. past.met.saves \subseteq past'.met.saves
  BY <1>1 DEF Starts
<1> QED
  BY <1>1, <1>2, <1>4, <1>6, <1>7 DEF GroupsInv, SavesAlone

(* With the copy the group of a deletion leaves memory: it is noted if a   *)
(* sorting has it, and its messages wait.                                  *)
LEMMA StoreGroups ==
    ASSUME Marks, FilesInv, GroupsInv, NEW r \in Requests, StoreState(r)
    PROVE  GroupsInv'
<1>1. /\ r \in Saving /\ req[r].step = "renamed" /\ memory' = req[r].copy
      /\ Saving' = Saving \ {r} /\ Content("state")' = Content("state")
      /\ Moves(r) /\ req'[r].step \in {"stored", "ok"}
      /\ past'.met.saves = past.met.saves /\ past'.broken = past.broken
  BY StoreSources
<1>2. group' = group /\ astray' = astray /\ intake' = intake /\ PastTypes /\ ReqTypes
  BY DEF StoreState, FilesInv, shelf
<1>3. req'[r].kind = req[r].kind /\ req'[r].id = req[r].id
  <2>1. Keeps(r)
    BY <1>1, <1>2, GoingOn DEF Request
  <2> QED
    BY <1>1, <2>1 DEF Keeps, Ends
<1>4. \/ /\ req[r].kind = "deleteGroup" /\ req'[r].step = "stored"
         /\ past'.left = past.left \cup ({req[r].id} \cap SeenElsewhere)
      \/ req[r].kind # "deleteGroup" /\ past'.left = past.left
  <2>1. CASE req[r].kind = "deleteGroup"
    <3>1. PICK l : l = past.left \cup ({req[r].id} \cap SeenElsewhere)
      OBVIOUS
    <3>2. Goto(r, "stored") /\ past' = [past EXCEPT !.left = @ \cup ({req[r].id} \cap SeenElsewhere)]
      BY <2>1 DEF StoreState
    <3>3. past' = [past EXCEPT !.left = l]
      BY <1>2, <3>1, <3>2 DEF PastTypes
    <3>4. past'.left = l
      BY <1>2, <3>3, LeftNoted
    <3>5. req'[r].step = "stored"
      BY <1>2, <3>2, GotoMoves
    <3> QED
      BY <2>1, <3>1, <3>4, <3>5
  <2>2. CASE req[r].kind # "deleteGroup"
    BY <2>2 DEF StoreState
  <2> QED
    BY <2>1, <2>2
<1>5. ASSUME SavesAlone, OneState PROVE OneState'
  <2>1. Saving' = {}
    BY <1>1, <1>5, Lonely DEF SavesAlone, Alone
  <2>2. Loaded' = memory'
    BY <1>1, <1>5 DEF OneState, Loaded
  <2> QED
    BY <2>1, <2>2 DEF OneState
<1>6. ASSUME OneState, Sorted PROVE Sorted'
  <2>1. \A g \in Ids(memory.groups) : g \in Ids(memory'.groups) \/ g \in Gone(req[r])
    BY <1>1, <1>6 DEF OneState
  <2>2. SeenElsewhere' \subseteq SeenElsewhere /\ \A m : Waiting(m) \subseteq Waiting(m)'
    BY <1>1, <1>2, SeenAsBefore, StillWaits
  <2>3. Places' = Ids(memory'.groups) \cup past'.left /\ Stored' = Stored /\ past.left \subseteq past'.left
    BY <1>2, <1>4 DEF Places, Ids, Stored
  <2>4. SeenElsewhere' \subseteq Places'
    <3> SUFFICES ASSUME NEW g \in SeenElsewhere, g \notin past.left PROVE g \in Places'
      BY <2>2, <2>3
    <3>1. g \in Ids(memory.groups)
      BY <1>6 DEF Sorted, Places
    <3>2. CASE g \in Gone(req[r])
      BY <1>4, <2>3, <3>2 DEF Gone
    <3> QED
      BY <2>1, <2>3, <3>1, <3>2
  <2>5. ASSUME NEW m, NEW g \in Gone(req[r]) PROVE g \in Waiting(m)'
    <3>1. req'[r].step = "stored" /\ req'[r].kind = "deleteGroup" /\ g = req'[r].id
      BY <1>3, <1>4, <2>5 DEF Gone
    <3>2. Waits(req'[r], m) /\ g \in Gone(req'[r])
      BY <3>1 DEF Waits, Gone
    <3>3. Waiting(m)' = UNION {Gone(req'[x]) : x \in {y \in Requests : Waits(req'[y], m)}}
      BY DEF Waiting, Gone, Waits
    <3> QED
      BY <3>2, <3>3
  <2>6. ASSUME NEW m \in Stored' \ astray' PROVE (group[m] \in Places \cup {NoGroup} \cup Waiting(m))'
    <3>1. group[m] \in Places \cup {NoGroup} \cup Waiting(m)
      BY <1>2, <1>6, <2>3, <2>6 DEF Sorted
    <3>2. CASE group[m] \in Ids(memory.groups)
      BY <1>2, <2>1, <2>3, <2>5, <3>2
    <3> QED
      BY <1>2, <2>2, <2>3, <3>1, <3>2 DEF Places
  <2> QED
    BY <2>4, <2>6 DEF Sorted
<1> QED
  BY <1>1, <1>2, <1>5, <1>6 DEF GroupsInv, SavesAlone

(* A request that changes nothing but where it stands.                     *)
LEMMA QuietGroups ==
    ASSUME FilesInv, GroupsInv, NEW r \in Requests, Elsewhere(r),
           group' = group, astray' = astray, intake' = intake, past'.left = past.left,
           SeenElsewhere' \subseteq SeenElsewhere \cup Ids(memory.groups),
           \A m : Waiting(m) \subseteq Waiting(m)'
    PROVE  GroupsInv'
<1>1. /\ Saving' = Saving /\ r \notin Saving /\ Content("state")' = Content("state")
      /\ Moves(r) /\ memory' = memory
      /\ past'.met.saves = past.met.saves /\ past'.broken = past.broken
  BY ElsewhereSources
<1>2. OneState => OneState'
  BY <1>1, OneStateOn
<1>3. Sorted => Sorted'
  BY <1>1, SortedOn
<1> QED
  BY <1>1, <1>2, <1>3 DEF GroupsInv, SavesAlone

LEMMA FindGroups ==
    ASSUME FilesInv, GroupsInv, NEW r \in Requests, Find(r)
    PROVE  GroupsInv'
<1>1. /\ req[r].step = "stored" /\ group' = group /\ astray' = astray
      /\ intake' = intake /\ memory' = memory /\ ReqTypes /\ PastTypes
  BY DEF Find, FilesInv, shelf
<1>2. Paged(r, "ungroup", Page(InGroup(req[r].id)))
  BY DEF Find, Paged
<1>3. /\ Moves(r) /\ req'[r].step = "ungroup" /\ req'[r].page = Page(InGroup(req[r].id))
      /\ req'[r].kind = req[r].kind /\ req'[r].id = req[r].id
  BY <1>1, <1>2, PageMoves
<1> PICK id : id = req[r].id
  OBVIOUS
<1> PICK newest : newest = Newest(InGroup(id))
  OBVIOUS
<1>4. past'.left = past.left \cup (IF newest = InGroup(id) THEN {} ELSE {id})
  <2>1. PICK l : l = past.left \cup (IF newest = InGroup(id) THEN {} ELSE {id})
    OBVIOUS
  <2>2. past' = [past EXCEPT !.left = @ \cup IF newest = InGroup(id) THEN {} ELSE {id}]
    BY DEF Find
  <2>3. past' = [past EXCEPT !.left = l]
    BY <1>1, <2>1, <2>2 DEF PastTypes
  <2> QED
    BY <1>1, <2>1, <2>3, LeftNoted
<1>5. /\ Saving' = Saving /\ r \notin Saving /\ Content("state")' = Content("state")
      /\ past'.met.saves = past.met.saves /\ past'.broken = past.broken
  BY ElsewhereSources DEF Elsewhere
<1>6. OneState => OneState'
  BY <1>1, <1>3, <1>5, OneStateOn
<1>7. ASSUME Sorted PROVE Sorted'
  <2>1. SeenElsewhere' \subseteq SeenElsewhere
    BY <1>1, <1>3, SeenAsBefore
  <2>2. Places' = Ids(memory.groups) \cup past'.left /\ Places \subseteq Places' /\ Stored' = Stored
    BY <1>1, <1>4 DEF Places, Stored
  <2>3. \A x \in Requests : x # r => req'[x] = req[x]
    BY <1>3 DEF Moves
  <2>4. ASSUME NEW m \in Stored, group[m] \in Waiting(m) PROVE group[m] \in Places' \cup Waiting(m)'
    <3>1. PICK x \in Requests : Waits(req[x], m) /\ group[m] \in Gone(req[x])
      BY <2>4 DEF Waiting
    <3>2. ASSUME x # r PROVE group[m] \in Waiting(m)'
      <4>1. Waits(req'[x], m) /\ group[m] \in Gone(req'[x])
        BY <2>3, <3>1, <3>2
      <4> QED
        BY <4>1 DEF Waiting, Waits, Gone
    <3>3. CASE x = r
      <4>1. group[m] = id /\ req'[r].kind = "deleteGroup" /\ req'[r].id = id
        BY <1>3, <3>1, <3>3 DEF Gone
      <4>2. CASE newest = InGroup(id)
        <5>1. m \in newest
          BY <4>1, <4>2 DEF InGroup, Stored
        <5>2. <<m, group[m]>> \in req'[r].page
          BY <1>3, <5>1 DEF Page
        <5>3. Waits(req'[r], m)
          BY <1>3, <5>2 DEF Waits
        <5> QED
          BY <4>1, <5>3 DEF Waiting, Waits, Gone
      <4>3. CASE newest # InGroup(id)
        BY <1>4, <2>2, <4>1, <4>3
      <4> QED
        BY <4>2, <4>3
    <3> QED
      BY <3>2, <3>3
  <2>5. \A m \in Stored \ astray : group[m] \in Places' \cup {NoGroup} \cup Waiting(m)'
    BY <1>7, <2>2, <2>4 DEF Sorted
  <2> QED
    BY <1>1, <1>7, <2>1, <2>2, <2>5 DEF Sorted
<1> QED
  BY <1>1, <1>5, <1>6, <1>7 DEF GroupsInv, SavesAlone

(* A message is put where it may be, or where nobody looked, or is gone.   *)
LEMMA PutGroups ==
    ASSUME GroupsInv, NEW M, NEW g,
           \A x \in Messages : group'[x] \in {group[x], None} \/ (x \in M /\ group'[x] = g),
           group' = [x \in Messages |-> group'[x]],
           astray \subseteq astray' \cup M,
           SavesAlone /\ ~ past.broken => g \in Places \cup {NoGroup} \/ M \subseteq astray',
           \A x \in Messages : x \in M /\ x \notin astray' => group'[x] \in {g, None},
           memory' = memory, past' = past, SavesAlone /\ OneState => OneState',
           SeenElsewhere' \subseteq SeenElsewhere,
           \A x : x \notin M => Waiting(x) \subseteq Waiting(x)'
    PROVE  GroupsInv'
<1>1. Places' = Places
  BY DEF Places
<1>2. ASSUME SavesAlone, ~ past.broken, Sorted PROVE Sorted'
  <2>1. ASSUME NEW x \in Stored', x \notin astray'
        PROVE  group'[x] \in Places \cup {NoGroup} \cup Waiting(x)'
    <3>1. CASE x \in M
      BY <1>2, <2>1, <3>1 DEF Stored
    <3>2. CASE x \notin M
      <4>1. x \in Stored \ astray /\ group'[x] = group[x]
        BY <2>1, <3>2 DEF Stored
      <4> QED
        BY <1>2, <3>2, <4>1 DEF Sorted
    <3> QED
      BY <3>1, <3>2
  <2> QED
    BY <1>1, <1>2, <2>1 DEF Sorted
<1> QED
  BY <1>2 DEF GroupsInv, SavesAlone

(* What Put does.                                                          *)
LEMMA PutFacts ==
    ASSUME GroupsInv, NEW m, NEW g, NEW lookedUp \in BOOLEAN, Put(m, g, lookedUp)
    PROVE  /\ \A x \in Messages : group'[x] = group[x] \/ (x \in {m} /\ group'[x] = g)
           /\ group' = [x \in Messages |-> group'[x]]
           /\ astray \subseteq astray' \cup {m}
           /\ \A x \in Messages : x \in {m} => group'[x] \in {g, None}
           /\ ~ lookedUp => m \in astray'
<1>1. CASE group[m] = None
  BY <1>1 DEF Put, GroupsInv
<1>2. CASE group[m] # None
  BY <1>2 DEF Put, GroupsInv
<1> QED
  BY <1>1, <1>2

LEMMA StillWaiting ==
    ASSUME NEW m, \A x \in Requests : Waits(req[x], m) =>
                     Waits(req'[x], m) /\ Gone(req'[x]) = Gone(req[x])
    PROVE  Waiting(m) \subseteq Waiting(m)'
<1>1. Waiting(m)' = UNION {Gone(req'[x]) : x \in {y \in Requests : Waits(req'[y], m)}}
  BY DEF Waiting, Gone, Waits
<1> SUFFICES ASSUME NEW g \in Waiting(m) PROVE g \in Waiting(m)'
  OBVIOUS
<1>2. PICK x \in Requests : Waits(req[x], m) /\ g \in Gone(req[x])
  BY DEF Waiting
<1> QED
  BY <1>1, <1>2

LEMMA UngroupGroups ==
    ASSUME FilesInv, GroupsInv, NEW r \in Requests, Ungroup(r)
    PROVE  GroupsInv'
<1>1. /\ req[r].step = "ungroup" /\ intake' = intake /\ memory' = memory /\ past' = past
      /\ ReqTypes
  BY DEF Ungroup, FilesInv
<1>2. /\ Saving' = Saving /\ r \notin Saving /\ Content("state")' = Content("state") /\ Moves(r)
  BY ElsewhereSources DEF Elsewhere
<1>3. \A x \in Requests : x # r => req'[x] = req[x]
  BY <1>2 DEF Moves
<1>4. CASE req[r].page = {}
  <2>1. Finish(r, "ok") /\ group' = group /\ astray' = astray /\ "ok" \in Ends
    BY <1>4 DEF Ungroup, Ends, shelf
  <2>2. req'[r].step = "ok"
    BY <1>1, <2>1, FinishMoves
  <2>3. SeenElsewhere' \subseteq SeenElsewhere
    BY <1>1, <1>2, <2>2, SeenAsBefore
  <2>4. \A m : ~ Waits(req[r], m)
    BY <1>1, <1>4 DEF Waits
  <2>5. \A m : Waiting(m) \subseteq Waiting(m)'
    <3>1. ASSUME NEW m, NEW x \in Requests, Waits(req[x], m)
          PROVE  Waits(req'[x], m) /\ Gone(req'[x]) = Gone(req[x])
      BY <1>3, <2>4, <3>1
    <3> QED
      BY <3>1, StillWaiting
  <2> QED
    BY <1>1, <2>1, <2>3, <2>5, QuietGroups DEF Elsewhere
<1>5. CASE req[r].page # {}
  <2>1. PICK p \in req[r].page : /\ Put(p[1], NoGroup, TRUE)
                                 /\ req' = [req EXCEPT ![r].page = @ \ {p}]
    BY <1>5 DEF Ungroup
  <2>2. Turned(r, req[r].page \ {p})
    BY <1>1, <2>1 DEF Turned, ReqTypes
  <2>3. /\ req'[r].step = req[r].step /\ req'[r].kind = req[r].kind
        /\ req'[r].page = req[r].page \ {p} /\ req'[r].id = req[r].id
    BY <1>1, <2>2, TurnMoves
  <2>4. SeenElsewhere' \subseteq SeenElsewhere
    BY <1>1, <1>2, <2>3, SeenAsBefore
  <2>5. ASSUME NEW y, y \notin {p[1]} PROVE Waiting(y) \subseteq Waiting(y)'
    <3>1. ASSUME NEW x \in Requests, Waits(req[x], y)
          PROVE  Waits(req'[x], y) /\ Gone(req'[x]) = Gone(req[x])
      BY <1>3, <2>3, <2>5, <3>1 DEF Waits, Gone
    <3> QED
      BY <3>1, StillWaiting
  <2>6. OneState => OneState'
    BY <1>1, <1>2, OneStateOn
  <2>7. /\ \A x \in Messages : group'[x] = group[x] \/ (x \in {p[1]} /\ group'[x] = NoGroup)
        /\ group' = [x \in Messages |-> group'[x]]
        /\ astray \subseteq astray' \cup {p[1]}
        /\ \A x \in Messages : x \in {p[1]} => group'[x] \in {NoGroup, None}
    BY <2>1, PutFacts
  <2> QED
    BY <1>1, <2>4, <2>5, <2>6, <2>7, PutGroups
<1> QED
  BY <1>4, <1>5

LEMMA SortGroups ==
    ASSUME FilesInv, GroupsInv, NEW r \in Requests, Sort(r)
    PROVE  GroupsInv'
<1>1. /\ req[r].step = "regroup" /\ intake' = intake /\ memory' = memory /\ past' = past
      /\ ReqTypes
  BY DEF Sort, FilesInv
<1>2. /\ Saving' = Saving /\ r \notin Saving /\ Content("state")' = Content("state") /\ Moves(r)
  BY ElsewhereSources DEF Elsewhere
<1>3. \A m : Waiting(m) \subseteq Waiting(m)'
  BY <1>1, <1>2, StillWaits
<1>4. CASE req[r].page = {}
  <2>1. Finish(r, "ok") /\ group' = group /\ astray' = astray /\ "ok" \in Ends
    BY <1>4 DEF Sort, Ends, shelf
  <2>2. req'[r].step = "ok"
    BY <1>1, <2>1, FinishMoves
  <2>3. SeenElsewhere' \subseteq SeenElsewhere
    BY <1>1, <1>2, <2>2, SeenAsBefore
  <2> QED
    BY <1>1, <1>3, <2>1, <2>3, QuietGroups DEF Elsewhere
<1>5. CASE req[r].page # {}
  <2>1. PICK p \in req[r].page, g \in Classes(req[r].copy) :
           /\ IF g = p[2] THEN UNCHANGED shelf ELSE Put(p[1], g, TRUE)
           /\ req' = [req EXCEPT ![r].page = @ \ {p}]
    BY <1>5 DEF Sort
  <2>2. Turned(r, req[r].page \ {p})
    BY <1>1, <2>1 DEF Turned, ReqTypes
  <2>3. req'[r].step = req[r].step /\ req'[r].copy = req[r].copy
    BY <1>1, <2>2, TurnMoves
  <2>4. SeenElsewhere' \subseteq SeenElsewhere
    BY <1>1, <1>2, <2>3, SeenAsBefore
  <2>5. g \in SeenElsewhere \cup {NoGroup}
    BY <1>1, <2>1 DEF Classes, SeenElsewhere
  <2>6. SavesAlone /\ ~ past.broken => g \in Places \cup {NoGroup}
    BY <2>5 DEF GroupsInv, Sorted
  <2>7. OneState => OneState'
    BY <1>1, <1>2, OneStateOn
  <2>8. CASE UNCHANGED shelf
    BY <1>1, <1>3, <2>4, <2>8, QuietGroups DEF Elsewhere, shelf
  <2>9. CASE Put(p[1], g, TRUE)
    <3>1. /\ \A x \in Messages : group'[x] = group[x] \/ (x \in {p[1]} /\ group'[x] = g)
          /\ group' = [x \in Messages |-> group'[x]]
          /\ astray \subseteq astray' \cup {p[1]}
          /\ \A x \in Messages : x \in {p[1]} => group'[x] \in {g, None}
      BY <2>9, PutFacts
    <3> QED
      BY <1>1, <1>3, <2>4, <2>6, <2>7, <3>1, PutGroups
  <2> QED
    BY <2>1, <2>8, <2>9
<1> QED
  BY <1>4, <1>5

LEMMA FindAllGroups ==
    ASSUME FilesInv, GroupsInv, NEW r \in Requests, FindAll(r)
    PROVE  GroupsInv'
<1>1. /\ req[r].step = "page" /\ group' = group /\ astray' = astray
      /\ intake' = intake /\ past' = past /\ ReqTypes
  BY DEF FindAll, FilesInv, shelf
<1>2. Paged(r, "regroup", Page(Stored))
  BY DEF FindAll, Paged
<1>3. Moves(r) /\ req'[r].copy = req[r].copy
  BY <1>1, <1>2, PageMoves
<1>4. SeenElsewhere' \subseteq SeenElsewhere
  BY <1>1, <1>3, SeenAsBefore
<1>5. \A m : Waiting(m) \subseteq Waiting(m)'
  BY <1>1, <1>3, StillWaits
<1> QED
  BY <1>1, <1>4, <1>5, QuietGroups DEF Elsewhere

LEMMA RegroupGroups ==
    ASSUME FilesInv, GroupsInv, NEW r \in Requests, Regroup(r)
    PROVE  GroupsInv'
<1>1. /\ req[r].step = "new" /\ group' = group /\ astray' = astray
      /\ intake' = intake /\ past' = past /\ memory' = memory /\ ReqTypes
  BY DEF Regroup, FilesInv, CanStart, shelf
<1> DEFINE q == BegunPlainly("page", "regroup", memory)
<1>2. IsRequest(q) /\ q.step = "page" /\ q.copy = memory
  BY BegunPlain
<1>3. req' = [req EXCEPT ![r] = q]
  BY DEF Regroup, BegunPlainly
<1> HIDE DEF q
<1>4. Moves(r) /\ req'[r] = q
  BY <1>1, <1>2, <1>3, BeginMoves
<1>5. SeenElsewhere' \subseteq SeenElsewhere \cup Ids(memory.groups)
  <2>1. \A x \in Requests : req'[x].step \in {"page", "regroup"} =>
          \/ req[x].step \in {"page", "regroup"} /\ req'[x].copy = req[x].copy
          \/ req'[x].copy = memory
    BY <1>2, <1>4 DEF Moves
  <2> QED
    BY <1>1, <2>1 DEF SeenElsewhere, Ids
<1>6. \A m : Waiting(m) \subseteq Waiting(m)'
  BY <1>1, <1>4, StillWaits
<1> QED
  BY <1>1, <1>5, <1>6, QuietGroups DEF Elsewhere

LEMMA SettingsGroups ==
    ASSUME FilesInv, GroupsInv, NEW r \in Requests,
           PutSettings(r) \/ SetRuntime(r) \/ StoreSettings(r) \/ SetRetention(r)
    PROVE  GroupsInv'
<1>1. group' = group /\ astray' = astray /\ intake' = intake /\ ReqTypes /\ PastTypes
  BY DEF FilesInv, PutSettings, SetRuntime, StoreSettings, SetRetention, shelf
<1>2. Moves(r) /\ req[r].step \notin {"stored", "ungroup"} /\ req'[r].step \notin {"page", "regroup"}
  <2>1. CASE PutSettings(r)
    BY <2>1, PutSettingsFiles
  <2>2. CASE SetRuntime(r) \/ StoreSettings(r) \/ SetRetention(r)
    BY <1>1, <2>2, SettingsGoOn DEF GoesOn, Late
  <2> QED
    BY <2>1, <2>2
<1>3. past'.left = past.left
  <2>1. CASE PutSettings(r)
    <3>1. PICK v : v = past.met.puts \cup With(r, Patches)
      OBVIOUS
    <3>2. past' = [past EXCEPT !.met.puts = @ \cup With(r, Patches)]
      BY <2>1 DEF PutSettings
    <3>3. past' = [past EXCEPT !.met.puts = v]
      BY <1>1, <3>1, <3>2 DEF PastTypes
    <3> QED
      BY <1>1, <3>3, OthersNoted
  <2>2. CASE past' = past
    BY <2>2
  <2> QED
    BY <2>1, <2>2 DEF SetRuntime, StoreSettings, SetRetention
<1>4. SeenElsewhere' \subseteq SeenElsewhere /\ \A m : Waiting(m) \subseteq Waiting(m)'
  BY <1>1, <1>2, SeenAsBefore, StillWaits
<1> QED
  BY <1>1, <1>3, <1>4, QuietGroups DEF Elsewhere

(* A message is put into the group that a request names, or deleted.       *)
LEMMA AtOnceGroups ==
    ASSUME FilesInv, GroupsInv, NEW r \in Requests, AtOnce(r)
    PROVE  GroupsInv'
<1>1. /\ Moves(r) /\ req[r].step = "new" /\ req'[r].step \in {"ok", "notFound"}
      /\ memory' = memory /\ past' = past /\ intake' = intake
  BY AtOnceFiles
<1>2. /\ SeenElsewhere' \subseteq SeenElsewhere
      /\ \A x : Waiting(x) \subseteq Waiting(x)'
  BY <1>1, SeenAsBefore, StillWaits
<1>3. Saving' = Saving /\ r \notin Saving /\ Content("state")' = Content("state")
  BY ElsewhereSources DEF Elsewhere
<1>4. OneState => OneState'
  BY <1>1, <1>3, OneStateOn
<1>5. CASE UNCHANGED shelf
  BY <1>1, <1>2, <1>5, QuietGroups DEF Elsewhere, shelf
<1>6. ASSUME NEW m, NEW g, Put(m, g, g \in Ids(memory.groups) \cup {NoGroup}) PROVE GroupsInv'
  <2>1. /\ \A x \in Messages : group'[x] = group[x] \/ (x \in {m} /\ group'[x] = g)
        /\ group' = [x \in Messages |-> group'[x]]
        /\ \A x \in Messages : x \in {m} => group'[x] \in {g, None}
    BY <1>6 DEF Put, GroupsInv
  <2>2. /\ astray \subseteq astray' \cup {m}
        /\ g \in Ids(memory.groups) \cup {NoGroup} \/ m \in astray'
    BY <1>6 DEF Put
  <2>3. g \in Places \cup {NoGroup} \/ {m} \subseteq astray'
    BY <2>2 DEF Places
  <2> QED
    BY <1>1, <1>2, <1>4, <2>1, <2>2, <2>3, PutGroups
<1>7. ASSUME DeleteMessages(r) PROVE GroupsInv'
  <2>1. PICK msgs : group' = [m \in Messages |-> IF m \in msgs THEN None ELSE group[m]]
    BY <1>7 DEF DeleteMessages
  <2>2. /\ \A x \in Messages : group'[x] \in {group[x], None}
        /\ group' = [x \in Messages |-> group'[x]]
    BY <2>1
  <2>3. astray \subseteq astray' \cup {}
    BY <1>7 DEF DeleteMessages
  <2> QED
    BY <1>1, <1>2, <1>4, <2>2, <2>3, PutGroups
<1> QED
  BY <1>5, <1>6, <1>7 DEF AtOnce, SetGroup

LEMMA SameStates ==
    ASSUME UNCHANGED <<memory, disk, req, past>>
    PROVE  /\ OneState' = OneState /\ Places' = Places
           /\ \A m : Waiting(m)' = Waiting(m)
           /\ SavesAlone' = SavesAlone
<1>1. req' = req /\ memory' = memory /\ past' = past /\ names' = names /\ inode' = inode
  BY DEF disk
<1>2. Saving' = Saving /\ Loaded' = Loaded
  BY <1>1 DEF Saving, Loaded, Content
<1>3. OneState' = OneState
  BY <1>1, <1>2 DEF OneState
<1>4. Places' = Places /\ SavesAlone' = SavesAlone
  BY <1>1 DEF Places, SavesAlone
<1>5. ASSUME NEW m PROVE Waiting(m)' = Waiting(m)
  BY <1>1 DEF Waiting
<1> QED
  BY <1>3, <1>4, <1>5

LEMMA IntakeGroups ==
    ASSUME GroupsInv, TakeMessage \/ StoreMessage
    PROVE  GroupsInv'
<1>1. /\ OneState' = OneState /\ Places' = Places /\ SavesAlone' = SavesAlone
      /\ \A m : Waiting(m)' = Waiting(m)
      /\ memory' = memory /\ past' = past /\ req' = req
  <2>1. UNCHANGED <<memory, disk, req, past>>
    BY DEF TakeMessage, StoreMessage
  <2> QED
    BY <2>1, SameStates
<1>2. CASE TakeMessage
  <2>1. group' = group /\ astray' = astray /\ intake'.state = memory
    BY <1>2 DEF TakeMessage, shelf
  <2>2. SeenElsewhere' \subseteq SeenElsewhere \cup Ids(memory.groups)
    BY <1>1, <2>1 DEF SeenElsewhere, Ids
  <2>3. Sorted => Sorted'
    BY <1>1, <2>1, <2>2, SortedOn
  <2> QED
    BY <1>1, <2>1, <2>3 DEF GroupsInv
<1>3. CASE StoreMessage
  <2>1. PICK g \in Classes(intake.state) : group' = [group EXCEPT ![intake.msg] = g]
    BY <1>3 DEF StoreMessage
  <2>2. intake.msg # None /\ intake'.msg = None /\ astray' = astray
    BY <1>3 DEF StoreMessage
  <2>3. g \in SeenElsewhere \cup {NoGroup}
    BY <2>1, <2>2 DEF Classes, SeenElsewhere
  <2>4. SavesAlone /\ ~ past.broken => g \in Places \cup {NoGroup}
    BY <2>3 DEF GroupsInv, Sorted
  <2>5. SeenElsewhere' \subseteq SeenElsewhere
    BY <1>1, <2>2 DEF SeenElsewhere, Ids
  <2>6. /\ \A x \in Messages : group'[x] = group[x] \/ (x \in {intake.msg} /\ group'[x] = g)
        /\ group' = [x \in Messages |-> group'[x]]
        /\ \A x \in Messages : x \in {intake.msg} => group'[x] \in {g, None}
    BY <2>1 DEF GroupsInv
  <2> QED
    BY <1>1, <2>2, <2>4, <2>5, <2>6, PutGroups
<1> QED
  BY <1>2, <1>3

LEMMA SameGroups ==
    ASSUME GroupsInv, UNCHANGED vars
    PROVE  GroupsInv'
<1>1. /\ UNCHANGED <<memory, disk, req, past>> /\ group' = group /\ astray' = astray
      /\ intake' = intake /\ req' = req /\ memory' = memory /\ past' = past
  BY DEF vars, shelf
<1>2. /\ OneState' = OneState /\ SavesAlone' = SavesAlone
      /\ \A m : Waiting(m)' = Waiting(m)
  BY <1>1, SameStates
<1>3. SeenElsewhere' = SeenElsewhere
  BY <1>1 DEF SeenElsewhere, Ids
<1>4. Sorted => Sorted'
  BY <1>1, <1>2, <1>3, SortedOn
<1> QED
  BY <1>1, <1>2, <1>4 DEF GroupsInv

(* The process ends: what was sorting is gone, and the groups that were    *)
(* being deleted are noted.                                                *)
LEMMA RestartGroups ==
    ASSUME FilesInv, GroupsInv, Restart
    PROVE  GroupsInv'
<1>1. /\ Saving' = {} /\ memory' = Loaded
      /\ past'.met.saves = past.met.saves
      /\ ~ past'.broken => ~ past.broken /\ Content("state")' = Content("state")
      /\ \A x \in Requests : \/ x \notin UnderWay /\ req'[x] = req[x]
                             \/ x \in UnderWay /\ req'[x].step = "gone"
  BY RestartSources
<1>2. /\ intake'.msg = None /\ PastTypes
      /\ group' = [m \in Messages |-> group'[m]]
      /\ astray' = astray \cup {m \in Messages : group'[m] # group[m]}
  BY DEF Restart, FilesInv, Found
<1>3. past'.left = past.left \cup {req[r].id : r \in {x \in UnderWay : req[x].kind = "deleteGroup"}}
  <2>1. PICK s, p, u, i, l, b :
          past = [met |-> [saves |-> s, puts |-> p], undone |-> u, issued |-> i, left |-> l, broken |-> b]
    BY <1>2 DEF PastTypes
  <2>2. PICK D : D = l \cup {req[r].id : r \in {x \in UnderWay : req[x].kind = "deleteGroup"}}
    OBVIOUS
  <2>3. PICK c : c = (b \/ Content("state") = Torn)
    OBVIOUS
  <2>4. past' = [past EXCEPT !.broken = c, !.met.puts = {}, !.left = D]
    BY <2>1, <2>2, <2>3 DEF Restart
  <2>5. past' = [met |-> [saves |-> s, puts |-> {}], undone |-> u, issued |-> i, left |-> D, broken |-> c]
    BY <2>1, <2>4
  <2> QED
    BY <2>1, <2>2, <2>5
<1>4. \A x \in UnderWay : Gone(req[x]) \subseteq past'.left
  BY <1>3 DEF Gone
<1>5. ASSUME ~ past'.broken PROVE OneState'
  <2>1. Loaded' = memory'
    BY <1>1, <1>5 DEF Loaded
  <2> QED
    BY <1>1, <2>1 DEF OneState
<1>6. ASSUME OneState, Sorted PROVE Sorted'
  <2>1. SeenElsewhere' = {}
    <3>1. \A x \in Requests : req'[x].step \notin {"page", "regroup"}
      BY <1>1 DEF UnderWay, Ends
    <3> QED
      BY <1>2, <3>1 DEF SeenElsewhere
  <2>2. Ids(memory.groups) \subseteq Ids(Loaded.groups) \cup past'.left
    <3>1. CASE \A x \in Saving : req[x].step # "renamed"
      BY <1>6, <3>1 DEF OneState
    <3>2. ASSUME NEW x \in Saving, req[x].step = "renamed"
          PROVE  Ids(memory.groups) \subseteq Ids(Loaded.groups) \cup past'.left
      <4>1. x \in UnderWay
        BY DEF Saving, UnderWay, AtFile, Ends
      <4> QED
        BY <1>4, <1>6, <3>2, <4>1 DEF OneState
    <3> QED
      BY <3>1, <3>2
  <2>3. \A m : Waiting(m) \subseteq past'.left
    <3>1. \A x \in Requests : \A m : Waits(req[x], m) => x \in UnderWay
      BY DEF Waits, UnderWay, Ends
    <3> QED
      BY <1>4, <3>1 DEF Waiting
  <2>4. Places \subseteq Places'
    <3>1. Places' = Ids(Loaded.groups) \cup past'.left
      BY <1>1 DEF Places, Ids
    <3> QED
      BY <1>3, <2>2, <3>1 DEF Places
  <2>5. past'.left \subseteq Places'
    BY DEF Places
  <2>6. \A m \in Stored \ astray : group[m] \in Places' \cup {NoGroup}
    BY <1>6, <2>3, <2>4, <2>5 DEF Sorted
  <2>7. \A m \in Stored' \ astray' : m \in Stored \ astray /\ group'[m] = group[m]
    BY <1>2 DEF Stored
  <2> QED
    BY <2>1, <2>6, <2>7 DEF Sorted
<1> QED
  BY <1>1, <1>2, <1>5, <1>6 DEF GroupsInv, SavesAlone

LEMMA InitGroups == Init => GroupsInv
<1> SUFFICES ASSUME Init PROVE GroupsInv
  OBVIOUS
<1>1. \A r \in Requests : req[r].step = "new"
  BY SMT DEF Init, Idle
<1>2. Saving = {} /\ Stored = {} /\ SeenElsewhere = {}
  BY <1>1 DEF Init, Saving, AtFile, Stored, SeenElsewhere
<1>3. Loaded = memory
  <2>1. names["state"] = None
    BY DEF Init
  <2> QED
    BY <2>1 DEF Init, Loaded, Content
<1>4. group = [m \in Messages |-> group[m]]
  BY DEF Init
<1> QED
  BY <1>2, <1>3, <1>4 DEF GroupsInv, OneState, Sorted

LEMMA NextGroups ==
    ASSUME Marks, ConfigInv, GroupsInv, [Next]_vars
    PROVE  GroupsInv'
<1>1. FilesInv
  BY DEF ConfigInv
<1>2. CASE UNCHANGED vars
  BY <1>2, SameGroups
<1>3. CASE TakeMessage \/ StoreMessage
  BY <1>3, IntakeGroups
<1>4. CASE Restart
  BY <1>1, <1>4, RestartGroups
<1>5. ASSUME NEW r \in Requests, Request(r) PROVE GroupsInv'
  <2>1. CASE Mutate(r) \/ Open(r) \/ Write(r) \/ Rename(r) \/ StoreState(r)
    BY <1>1, <2>1, MutateGroups, OpenGroups, WriteGroups, RenameGroups, StoreGroups
  <2>2. CASE Find(r) \/ Ungroup(r) \/ Regroup(r) \/ FindAll(r) \/ Sort(r)
    BY <1>1, <2>2, FindGroups, UngroupGroups, RegroupGroups, FindAllGroups, SortGroups
  <2>3. CASE PutSettings(r) \/ SetRuntime(r) \/ StoreSettings(r) \/ SetRetention(r)
    BY <1>1, <2>3, SettingsGroups
  <2>4. CASE AtOnce(r)
    BY <1>1, <2>4, AtOnceGroups
  <2> QED
    BY <1>5, <2>1, <2>2, <2>3, <2>4 DEF Request, AtOnce
<1> QED
  BY <1>2, <1>3, <1>4, <1>5 DEF Next

(* A message names a group that is there, or one whose deletion is under   *)
(* way, met with a sorting that had seen the group, found more messages    *)
(* than a page or was cut short; or a request put it in a group that was   *)
(* not there, a start of the store went back to an older line of it, or    *)
(* saves overlapped (delete_group, set_group, regroup, ingest_from).       *)
THEOREM GroupsTheorem ==
    ASSUME Marks
    PROVE  Spec => []GroupsOfMessagesExist
<1>1. Init => ConfigInv /\ GroupsInv
  BY InitConfig, InitGroups
<1>2. (ConfigInv /\ GroupsInv) /\ [Next]_vars => (ConfigInv /\ GroupsInv)'
  BY NextConfig, NextGroups
<1>3. GroupsInv => GroupsOfMessagesExist
  <2> SUFFICES ASSUME GroupsInv, NEW m \in Stored, m \notin astray, SavesAlone, ~ past.broken,
                      \A r \in UnderWay : req[r].kind # "deleteGroup"
               PROVE  group[m] \in Ids(memory.groups) \cup {NoGroup} \cup past.left
    BY DEF GroupsOfMessagesExist
  <2>1. Waiting(m) = {}
    <3>1. \A x \in Requests : Waits(req[x], m) => x \in UnderWay
      BY DEF Waits, UnderWay, Ends
    <3> QED
      BY <3>1 DEF Waiting, Gone
  <2> QED
    BY <2>1 DEF GroupsInv, Sorted, Places
<1> QED
  BY <1>1, <1>2, <1>3, PTL DEF Spec

=============================================================================
