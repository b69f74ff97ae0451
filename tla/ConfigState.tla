----------------------------- MODULE ConfigState -----------------------------
(***************************************************************************)
(* The configuration of stmp2log: the state file with groups, channels and *)
(* rules (state.rs), the settings in config.ini (config.rs), and the API   *)
(* requests that change them (mutate, put_settings and the rest of api.rs) *)
(* while messages are sorted into groups (ingest_from, regroup).           *)
(*                                                                         *)
(* A request runs on one of the runtime's worker threads, without a lock:  *)
(* it copies what is in memory, edits the copy, writes it to a temporary   *)
(* file, renames that over the file and stores the copy.  Requests on two  *)
(* workers do this side by side, and use the same temporary file.  The     *)
(* process may end between any two steps.                                  *)
(*                                                                         *)
(* Items are their id, the request that wrote them last and what they      *)
(* point at; settings are an account to check and a limit.  A file is      *)
(* Torn while it is written, and when two have written it at a time.  Of   *)
(* the message store there is the group of each message and the lines that *)
(* ever gave it one: after a start any of them may be the last there is.   *)
(*                                                                         *)
(* A definition marked "Slip" is no part of the model: it is the next one  *)
(* with a mistake that a property has to notice.                           *)
(***************************************************************************)
EXTENDS Lists, FiniteSets, SequencesExt

CONSTANTS
    Requests,   \* API requests, each sent once
    Kinds,      \* what they ask for, a subset of AllKinds
    NamedIds,   \* the ids they may name, of groups, channels and rules
    NamedUses,  \* the sets of channels that a rule they write may name
    Workers,    \* worker threads of the runtime, 2
    Messages,   \* the messages that come in, in the order of their numbers
    PageLimit,  \* the store's query returns at most so many, 500
    Files,      \* inodes that temporary files may get
    MaxCrashes, \* bound
    None, Torn

Saves    == {"addGroup", "updateGroup", "deleteGroup", "reorder", "putAccess",
             "addChannel", "updateChannel", "deleteChannel",
             "addRule", "updateRule", "deleteRule"}
Patches  == {"putAccount", "putLimit"}
AllKinds == Saves \cup Patches \cup {"setGroup", "deleteMessages", "regroup"}

ASSUME ConfigAssumption ==
    /\ Kinds \subseteq AllKinds
    /\ NamedIds \subseteq Nat \ {0}
    /\ NamedUses \subseteq SUBSET Nat
    /\ Workers \in Nat \ {0}
    /\ PageLimit \in Nat
    /\ Messages \subseteq Nat
    /\ IsFiniteSet(Files) /\ Cardinality(Files) > 4 + Workers
    /\ MaxCrashes \in Nat
    /\ None \notin Files \cup Requests \cup AllKinds
    /\ None # Torn

VARIABLES
    memory,    \* the State behind the ArcSwap
    settings,  \* the Settings behind theirs
    runtime,   \* the account the SMTP server checks (Handle)
    retention, \* the limit the store keeps
    inode,     \* what each inode holds
    names,     \* the inode each of the four names stands for, or None
    req,       \* per request: where it stands and what it holds
    group,     \* per message: the group it is in; None if it is not there
    lines,     \* per message: the groups that lines on disk gave it
    astray,    \* history: the messages whose group nobody looked up
    intake,    \* the message being ingested, with the State it started from
    crashes,
    past       \* history, see below

disk == <<inode, names>>
shelf == <<group, lines, astray>>
vars == <<memory, settings, runtime, retention, disk, req, shelf, intake, crashes, past>>

ListNames == {"groups", "channels", "rules"}
Blank == [groups |-> <<>>, channels |-> <<>>, rules |-> <<>>, access |-> None, nextId |-> 1]
Factory == [account |-> None, limit |-> None]

Idle == [step |-> "new", kind |-> None, id |-> 0, copy |-> None, fd |-> None,
         undoes |-> {}, page |-> {}]

(* Up to where it awaits something, or ends, a request keeps its worker.   *)
OnWorker == {"loaded", "opened", "written", "renamed", "runtime", "stored", "ungroup"}
Ends     == {"ok", "notFound", "error", "gone"}
Steps    == {"new", "retain", "page", "regroup"} \cup OnWorker \cup Ends

NoGroup == 0 \* ids start at 1
Ids(list) == {list[k].id : k \in DOMAIN list}

Working  == {r \in Requests : req[r].step \in OnWorker}
UnderWay == {r \in Requests : req[r].step \notin Ends \cup {"new"}}

TypeOK ==
    /\ memory.nextId \in Nat \ {0}
    /\ \A l \in ListNames : \A k \in DOMAIN memory[l] :
          memory[l][k].id \in 1 .. memory.nextId - 1 /\ memory[l][k].by \in Requests
    /\ \A r \in Requests : req[r].step \in Steps /\ req[r].fd \in Files \cup {None}
    /\ Cardinality(Working) <= Workers
    /\ DOMAIN names = {"state", "stateTmp", "ini", "iniTmp"}
    /\ \A f \in DOMAIN names : names[f] \in Files \cup {None}
    /\ DOMAIN group = Messages /\ DOMAIN lines = Messages
    /\ \A m \in Messages : group[m] \in lines[m] \cup {None}
    /\ astray \subseteq Messages
    /\ crashes \in 0 .. MaxCrashes

Init ==
    /\ memory = Blank
    /\ settings = Factory
    /\ runtime = None
    /\ retention = None
    /\ inode = [i \in Files |-> Torn]
    /\ names = [f \in {"state", "stateTmp", "ini", "iniTmp"} |-> None]
    /\ req = [r \in Requests |-> Idle]
    /\ group = [m \in Messages |-> None]
    /\ lines = [m \in Messages |-> {}]
    /\ astray = {}
    /\ intake = [msg |-> None, state |-> Blank]
    /\ crashes = 0
    /\ past = [met    |-> [saves |-> {}, puts |-> {}], \* requests that overlapped
               undone |-> {},   \* requests whose edit a later one was to replace or undo
               issued |-> {},   \* ids given out, with the request they were for
               left   |-> {},   \* groups deleted with messages that nobody will ungroup
               broken |-> FALSE] \* a torn file was found at a start

-----------------------------------------------------------------------------
(* What the edits do to a State.                                           *)

(* A request that writes a rule names its channels, and nobody looks       *)
(* whether they are there.  (dead is history: those that had been deleted.) *)
Dead(s, uses) == {u \in uses : u < s.nextId} \ Ids(s.channels)
Item(s, id, r, uses) == [id |-> id, by |-> r, uses |-> uses, dead |-> Dead(s, uses)]

ListOf(kind) ==
    CASE kind \in {"addGroup", "updateGroup", "deleteGroup", "reorder"} -> "groups"
      [] kind \in {"addChannel", "updateChannel", "deleteChannel"} -> "channels"
      [] kind \in {"addRule", "updateRule", "deleteRule"} -> "rules"

(* (Slip: the next id is the one after the largest there is.)              *)
TakeIdAfterLast(s) ==
    LET used == UNION {Ids(s[l]) : l \in ListNames}
    IN  IF used = {} THEN 1 ELSE 1 + CHOOSE x \in used : \A y \in used : y <= x

TakeId(s) == s.nextId

Add(s, r, list, uses) ==
    [s EXCEPT ![list] = Append(@, Item(s, TakeId(s), r, uses)), !.nextId = TakeId(s) + 1]

Update(s, r, list, id, uses) ==
    [s EXCEPT ![list] = [k \in DOMAIN @ |-> IF @[k].id = id THEN Item(s, id, r, uses) ELSE @[k]]]

Only(list, id)    == Retain(list, {x \in ToSet(list) : x.id = id})
Without(list, id) == Retain(list, {x \in ToSet(list) : x.id # id})

(* (Slip: the rules keep the channel.)                                     *)
DeleteOnly(s, list, id) == [s EXCEPT ![list] = Without(@, id)]

(* Deleting a channel takes it out of the rules, too.                      *)
Delete(s, list, id) ==
    LET t == [s EXCEPT ![list] = Without(@, id)]
    IN  IF list # "channels" THEN t
        ELSE [t EXCEPT !.rules = [k \in DOMAIN t.rules |-> [t.rules[k] EXCEPT !.uses = @ \ {id}]]]

(* reorder_groups: here the named group goes first.                        *)
Reorder(s, id) == [s EXCEPT !.groups = Only(@, id) \o Without(@, id)]

Edited(s, r, kind, id, uses) ==
    CASE kind \in {"addGroup", "addChannel", "addRule"} -> Add(s, r, ListOf(kind), uses)
      [] kind \in {"updateGroup", "updateChannel", "updateRule"} ->
           Update(s, r, ListOf(kind), id, uses)
      [] kind \in {"deleteGroup", "deleteChannel", "deleteRule"} -> Delete(s, ListOf(kind), id)
      [] kind = "reorder" -> Reorder(s, id)
      [] kind = "putAccess" -> [s EXCEPT !.access = r]

OnAnItem == {"updateGroup", "updateChannel", "updateRule",
             "deleteGroup", "deleteChannel", "deleteRule"}

(* The channels a request may name.                                        *)
UsesOf(kind) == IF kind \in {"addRule", "updateRule"} THEN NamedUses ELSE {{}}

(* SettingsPatch.apply.                                                    *)
Patched(s, r, kind) ==
    IF kind = "putAccount" THEN [s EXCEPT !.account = r] ELSE [s EXCEPT !.limit = r]

-----------------------------------------------------------------------------
(* Writing a file and renaming it, for either of the two.                  *)

FileOf(r) == IF req[r].kind \in Saves THEN "state" ELSE "ini"
TmpOf(file) == IF file = "state" THEN "stateTmp" ELSE "iniTmp"

Held == {names[f] : f \in DOMAIN names} \cup {req[r].fd : r \in Requests}

(* (Slip: the file itself is written.)                                     *)
WritesTheFile(r) == FileOf(r)

(* The name that is opened for writing.                                    *)
Writes(r) == TmpOf(FileOf(r))

Goto(r, step) == req' = [req EXCEPT ![r].step = step]
Finish(r, end) ==
    req' = [req EXCEPT ![r] = IF end = "ok" THEN [@ EXCEPT !.step = end, !.copy = None, !.fd = None]
                              ELSE [Idle EXCEPT !.step = end, !.undoes = req[r].undoes]]

(* std::fs::write opens the temporary file, new or there already, and      *)
(* truncates it ...                                                        *)
Open(r) ==
    /\ req[r].step = "loaded"
    /\ LET name == Writes(r)
           i    == IF names[name] # None THEN names[name] ELSE CHOOSE x \in Files : x \notin Held
       IN  /\ inode' = [inode EXCEPT ![i] = Torn]
           /\ names' = [names EXCEPT ![name] = i]
           /\ req' = [req EXCEPT ![r].step = "opened", ![r].fd = i]
    /\ UNCHANGED <<memory, settings, runtime, retention, shelf, intake, crashes, past>>

(* ... then writes it: over what another request wrote meanwhile, and if   *)
(* that was longer its end stays, and closes it.  The disk may be full.    *)
Write(r) ==
    /\ req[r].step = "opened"
    /\ \/ /\ \E text \in {req[r].copy} \cup (IF inode[req[r].fd] = Torn THEN {} ELSE {Torn}) :
                inode' = [inode EXCEPT ![req[r].fd] = text]
          /\ req' = [req EXCEPT ![r].step = "written", ![r].fd = None]
       \/ /\ inode' = [inode EXCEPT ![req[r].fd] = Torn]
          /\ Finish(r, "error")
    /\ UNCHANGED <<memory, settings, runtime, retention, names, shelf, intake, crashes, past>>

(* ids are given out when they are on disk.                                *)
IssuedBy(r) ==
    IF req[r].kind \in {"addGroup", "addChannel", "addRule"}
    THEN {[id |-> req[r].copy.nextId - 1, by |-> r]} ELSE {}

(* The rename fails if another request has renamed the file already; what  *)
(* the old file held is of no use to anyone.                               *)
Rename(r) ==
    /\ req[r].step = "written"
    /\ IF names[Writes(r)] = None
       THEN /\ Finish(r, "error")
            /\ UNCHANGED <<disk, past>>
       ELSE /\ inode' = [i \in Files |-> IF i = names[FileOf(r)] THEN Torn ELSE inode[i]]
            /\ names' = [names EXCEPT ![FileOf(r)] = names[Writes(r)], ![TmpOf(FileOf(r))] = None]
            /\ Goto(r, "renamed")
            /\ past' = [past EXCEPT !.issued = @ \cup IssuedBy(r),
                                    !.undone = @ \cup req[r].undoes]
    /\ UNCHANGED <<memory, settings, runtime, retention, shelf, intake, crashes>>

-----------------------------------------------------------------------------
(* A request comes in: it gets a worker, and edits a copy of what is in    *)
(* memory.  Of those that overlap the past keeps a note.                   *)

With(r, kinds) ==
    LET rivals == {x \in UnderWay : req[x].kind \in kinds}
    IN  rivals \cup IF rivals = {} THEN {} ELSE {r}

CanStart(r) == req[r].step = "new" /\ Cardinality(Working) < Workers

(* The edits that the edit of an item replaces or undoes.                  *)
Undoes(kind, id) ==
    CASE kind \in OnAnItem ->
           {x.by : x \in {y \in ToSet(memory[ListOf(kind)]) : y.id = id}}
      [] kind = "putAccess" -> {memory.access} \ {None}
      [] OTHER -> {}

(* mutate, up to the save: 404 if the item is not there.                   *)
Mutate(r) ==
    /\ CanStart(r)
    /\ \E kind \in Kinds \cap Saves : \E uses \in UsesOf(kind) :
       \E id \in IF kind \in OnAnItem \cup {"reorder"} THEN NamedIds ELSE {0} :
         IF kind \in OnAnItem /\ id \notin Ids(memory[ListOf(kind)])
         THEN /\ Finish(r, "notFound")
              /\ UNCHANGED past
         ELSE /\ req' = [req EXCEPT ![r] = [Idle EXCEPT
                            !.step = "loaded", !.kind = kind, !.id = id,
                            !.copy = Edited(memory, r, kind, id, uses),
                            !.undoes = Undoes(kind, id)]]
              /\ past' = [past EXCEPT !.met.saves = @ \cup With(r, Saves)]
    /\ UNCHANGED <<memory, settings, runtime, retention, disk, shelf, intake, crashes>>

(* The groups a sorting under way has in its copy of the State.            *)
SeenElsewhere ==
    (IF intake.msg # None THEN Ids(intake.state.groups) ELSE {})
    \cup UNION {Ids(req[r].copy.groups) : r \in {x \in Requests : req[x].step \in {"page", "regroup"}}}

(* The end of mutate: the copy is what counts now.                         *)
StoreState(r) ==
    /\ req[r].step = "renamed"
    /\ req[r].kind \in Saves
    /\ memory' = req[r].copy
    /\ IF req[r].kind = "deleteGroup"
       THEN /\ Goto(r, "stored")
            /\ past' = [past EXCEPT !.left = @ \cup ({req[r].id} \cap SeenElsewhere)]
       ELSE /\ Finish(r, "ok")
            /\ UNCHANGED past
    /\ UNCHANGED <<settings, runtime, retention, disk, shelf, intake, crashes>>

-----------------------------------------------------------------------------
(* The messages of a deleted group, and sorting.                           *)

(* set_group of the store: a message that is gone stays so.                *)
Put(m, g, lookedUp) ==
    /\ group' = IF group[m] = None THEN group ELSE [group EXCEPT ![m] = g]
    /\ lines' = IF group[m] = None THEN lines ELSE [lines EXCEPT ![m] = @ \cup {g}]
    /\ astray' = IF lookedUp THEN astray \ {m} ELSE astray \cup {m}

(* set_group of the API stores any group it is given.                      *)
SetGroup(r) ==
    /\ CanStart(r)
    /\ "setGroup" \in Kinds
    /\ \E m \in Messages, g \in NamedIds \cup {NoGroup} :
        IF group[m] = None
        THEN Finish(r, "notFound") /\ UNCHANGED shelf
        ELSE Finish(r, "ok") /\ Put(m, g, g \in Ids(memory.groups) \cup {NoGroup})
    /\ UNCHANGED <<memory, settings, runtime, retention, disk, intake, crashes, past>>

(* delete_one and bulk_delete.                                             *)
DeleteMessages(r) ==
    /\ CanStart(r)
    /\ "deleteMessages" \in Kinds
    /\ \E msgs \in SUBSET Messages :
        group' = [m \in Messages |-> IF m \in msgs THEN None ELSE group[m]]
    /\ Finish(r, "ok")
    /\ UNCHANGED <<memory, settings, runtime, retention, disk, lines, astray, intake, crashes, past>>

(* Store::query: the newest of the messages there are, a page of them.     *)
Newest(msgs) == {m \in msgs : Cardinality({x \in msgs : x > m}) < PageLimit}
InGroup(g) == {m \in Messages : group[m] = g}
Stored == {m \in Messages : group[m] # None}
Page(msgs) == {<<m, group[m]>> : m \in Newest(msgs)}

(* (Slip: the messages keep the group.)                                    *)
FindNone(r) ==
    /\ req[r].step = "stored"
    /\ Finish(r, "ok")
    /\ UNCHANGED <<memory, settings, runtime, retention, disk, shelf, intake, crashes, past>>

(* delete_group asks for the messages of the group, ...                    *)
Find(r) ==
    /\ req[r].step = "stored"
    /\ LET msgs == InGroup(req[r].id)
       IN  /\ req' = [req EXCEPT ![r].step = "ungroup", ![r].page = Page(msgs)]
           /\ past' = [past EXCEPT !.left = @ \cup IF Newest(msgs) = msgs THEN {} ELSE {req[r].id}]
    /\ UNCHANGED <<memory, settings, runtime, retention, disk, shelf, intake, crashes>>

(* ... and takes them out of it, one by one.                               *)
Ungroup(r) ==
    /\ req[r].step = "ungroup"
    /\ IF req[r].page = {}
       THEN Finish(r, "ok") /\ UNCHANGED shelf
       ELSE \E p \in req[r].page :
            /\ Put(p[1], NoGroup, TRUE)
            /\ req' = [req EXCEPT ![r].page = @ \ {p}]
    /\ UNCHANGED <<memory, settings, runtime, retention, disk, intake, crashes, past>>

(* regroup takes the State of the moment; on another thread it asks for a  *)
(* page of messages ...                                                    *)
Regroup(r) ==
    /\ CanStart(r)
    /\ "regroup" \in Kinds
    /\ req' = [req EXCEPT ![r] = [Idle EXCEPT !.step = "page", !.kind = "regroup", !.copy = memory]]
    /\ UNCHANGED <<memory, settings, runtime, retention, disk, shelf, intake, crashes, past>>

FindAll(r) ==
    /\ req[r].step = "page"
    /\ req' = [req EXCEPT ![r].step = "regroup", ![r].page = Page(Stored)]
    /\ UNCHANGED <<memory, settings, runtime, retention, disk, shelf, intake, crashes, past>>

(* What classify may say, by whatever the matchers are.                    *)
Classes(s) == Ids(s.groups) \cup {NoGroup}

(* ... and puts each where that State says, if the page had it elsewhere.  *)
Sort(r) ==
    /\ req[r].step = "regroup"
    /\ IF req[r].page = {}
       THEN Finish(r, "ok") /\ UNCHANGED shelf
       ELSE \E p \in req[r].page : \E g \in Classes(req[r].copy) :
            /\ IF g = p[2] THEN UNCHANGED shelf ELSE Put(p[1], g, TRUE)
            /\ req' = [req EXCEPT ![r].page = @ \ {p}]
    /\ UNCHANGED <<memory, settings, runtime, retention, disk, intake, crashes, past>>

(* ingest_from takes the State, parses and sorts, and stores the message.  *)
ToCome == {m \in Messages : lines[m] = {}}

TakeMessage ==
    /\ intake.msg = None
    /\ ToCome # {}
    /\ intake' = [msg |-> CHOOSE m \in ToCome : \A x \in ToCome : m <= x, state |-> memory]
    /\ UNCHANGED <<memory, settings, runtime, retention, disk, req, shelf, crashes, past>>

StoreMessage ==
    /\ intake.msg # None
    /\ \E g \in Classes(intake.state) :
        /\ group' = [group EXCEPT ![intake.msg] = g]
        /\ lines' = [lines EXCEPT ![intake.msg] = {g}]
    /\ intake' = [msg |-> None, state |-> Blank]
    /\ UNCHANGED <<memory, settings, runtime, retention, disk, req, astray, crashes, past>>

-----------------------------------------------------------------------------
(* put_settings.                                                           *)

PutSettings(r) ==
    /\ CanStart(r)
    /\ \E kind \in Kinds \cap Patches :
        /\ req' = [req EXCEPT ![r] = [Idle EXCEPT !.step = "loaded", !.kind = kind,
                                                  !.copy = Patched(settings, r, kind)]]
        /\ past' = [past EXCEPT !.met.puts = @ \cup With(r, Patches)]
    /\ UNCHANGED <<memory, settings, runtime, retention, disk, shelf, intake, crashes>>

(* (Slip: the SMTP server is not told.)                                    *)
SkipRuntime(r) ==
    /\ req[r].step = "renamed"
    /\ req[r].kind \in Patches
    /\ Goto(r, "runtime")
    /\ UNCHANGED <<memory, settings, runtime, retention, disk, shelf, intake, crashes, past>>

(* The SMTP server gets its part, ...                                      *)
SetRuntime(r) ==
    /\ req[r].step = "renamed"
    /\ req[r].kind \in Patches
    /\ runtime' = req[r].copy.account
    /\ Goto(r, "runtime")
    /\ UNCHANGED <<memory, settings, retention, disk, shelf, intake, crashes, past>>

(* ... the settings are stored, the worker is free again, ...              *)
StoreSettings(r) ==
    /\ req[r].step = "runtime"
    /\ settings' = req[r].copy
    /\ Goto(r, "retain")
    /\ UNCHANGED <<memory, runtime, retention, disk, shelf, intake, crashes, past>>

(* ... and on another thread the store gets its part.                      *)
SetRetention(r) ==
    /\ req[r].step = "retain"
    /\ retention' = req[r].copy.limit
    /\ Finish(r, "ok")
    /\ UNCHANGED <<memory, settings, runtime, disk, shelf, intake, crashes, past>>

-----------------------------------------------------------------------------
(* The process ends, and starts again with what is on disk.                *)

Content(file) == IF names[file] = None THEN None ELSE inode[names[file]]

(* State::load: a file that is no State is set aside.                      *)
Loaded == IF Content("state") \in {None, Torn} THEN Blank ELSE Content("state")

(* config::load; of a torn file nothing counts here.                       *)
Parsed == IF Content("ini") \in {None, Torn} THEN Factory ELSE Content("ini")

(* What the store may find of its messages.  Lines go with the segment     *)
(* they are in when no message is left there, those of regroupings and     *)
(* deletions too, and the last may be cut: any line of a message that did  *)
(* put it into a group can be the one that counts.                         *)
Found == {f \in [Messages -> UNION {lines[m] : m \in Messages} \cup {None}] :
            \A m \in Messages : f[m] \in lines[m] \cup {group[m]}}

Restart ==
    /\ crashes < MaxCrashes
    /\ crashes' = crashes + 1
    /\ memory' = Loaded
    /\ names' = [names EXCEPT !["state"] = IF Content("state") = Torn THEN None ELSE @]
    /\ settings' = Parsed
    /\ runtime' = Parsed.account
    /\ retention' = Parsed.limit
    /\ req' = [r \in Requests |-> IF r \notin UnderWay THEN req[r]
                                  ELSE [Idle EXCEPT !.step = "gone", !.undoes = req[r].undoes]]
    /\ intake' = [msg |-> None, state |-> Blank]
    /\ group' \in Found
    /\ astray' = astray \cup {m \in Messages : group'[m] # group[m]}
    /\ past' = [past EXCEPT
          !.broken = @ \/ Content("state") = Torn,
          !.met.puts = {},
          !.left = @ \cup {req[r].id : r \in {x \in UnderWay : req[x].kind = "deleteGroup"}}]
    /\ UNCHANGED <<inode, lines>>

-----------------------------------------------------------------------------
Request(r) ==
    \/ Mutate(r) \/ Open(r) \/ Write(r) \/ Rename(r) \/ StoreState(r)
    \/ Find(r) \/ Ungroup(r) \/ Regroup(r) \/ FindAll(r) \/ Sort(r)
    \/ SetGroup(r) \/ DeleteMessages(r)
    \/ PutSettings(r) \/ SetRuntime(r) \/ StoreSettings(r) \/ SetRetention(r)

Next ==
    \/ \E r \in Requests : Request(r)
    \/ TakeMessage \/ StoreMessage
    \/ Restart

Spec == Init /\ [][Next]_vars

-----------------------------------------------------------------------------
Alone(r) == r \notin past.met.saves
SavesAlone == past.met.saves = {}

(* The edit of r is in s.  A deleted channel is in no rule but those that  *)
(* named it when it was gone.                                              *)
Shows(s, r) ==
    CASE req[r].kind \in {"addGroup", "addChannel", "addRule",
                           "updateGroup", "updateChannel", "updateRule"} ->
           \E x \in ToSet(s[ListOf(req[r].kind)]) : x.by = r
      [] req[r].kind \in {"deleteGroup", "deleteChannel", "deleteRule"} ->
           /\ req[r].id \notin Ids(s[ListOf(req[r].kind)])
           /\ req[r].kind = "deleteChannel" => 
                \A x \in ToSet(s.rules) : req[r].id \notin x.uses \ x.dead
      [] req[r].kind = "putAccess" -> s.access = r
      [] OTHER -> TRUE

(* An edit that was answered 200 is in memory and on disk, through         *)
(* restarts, until a later request replaces or undoes it.  It can be lost  *)
(* in two ways only: to a request it overlapped with, and with a file torn *)
(* by two that overlapped.                                                 *)
EditsStay ==
    \A r \in Requests :
        req[r].step = "ok" /\ req[r].kind \in Saves =>
            \/ Shows(memory, r) /\ (SavesAlone => Shows(Content("state"), r))
            \/ r \in past.undone
            \/ \E x \in Requests : r \in req[x].undoes /\ ~ Alone(x)
            \/ ~ Alone(r)
            \/ past.broken

(* One save at a time never leaves a torn file to be found, wherever the   *)
(* process ends: that takes two at once.                                   *)
TornNeedsOverlap ==
    past.broken \/ Content("state") = Torn => ~ SavesAlone

(* An id never means two things, not after a deletion and not after a      *)
(* restart, unless one of the two requests that got it overlapped with     *)
(* another, or the file was lost.                                          *)
IdsKeepTheirMeaning ==
    \A a, b \in past.issued :
        a.id = b.id /\ a.by # b.by => ~ Alone(a.by) \/ ~ Alone(b.by) \/ past.broken

(* A message names a group that is there.  It names one that is gone only  *)
(* if the deletion met with a sorting that had seen the group, with more   *)
(* messages than a page, or with the end of the process, if saves          *)
(* overlapped, if the API was told to put it in a group that is not there, *)
(* or if a start of the store went back to an older line of the message.   *)
GroupsOfMessagesExist ==
    \A m \in Stored :
        \/ group[m] \in Ids(memory.groups) \cup {NoGroup} \cup past.left
        \/ m \in astray
        \/ \E r \in UnderWay : req[r].kind = "deleteGroup"
        \/ ~ SavesAlone
        \/ past.broken

(* While no settings are being put, the file, the memory, the SMTP server  *)
(* and the store agree on them, unless two requests overlapped since the   *)
(* start.                                                                  *)
SettingsAgree ==
    \/ \E r \in UnderWay : req[r].kind \in Patches
    \/ past.met.puts # {}
    \/ settings = Parsed /\ runtime = settings.account /\ retention = settings.limit
=============================================================================
