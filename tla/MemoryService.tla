---------------------------- MODULE MemoryService ----------------------------
(***************************************************************************)
(* The long-term memory of one life (memory/src/index.ts): the service      *)
(* that answers update requests, the capacity limit, consolidation, the     *)
(* context provider, and the two repositories, a Map in the process and a   *)
(* Mongo collection whose documents are written back whole.                 *)
(*                                                                          *)
(* An action is the code between two awaits of a repository call.  The      *)
(* refresh of the Mongo repository and the merge that follows it are one    *)
(* step: nothing is delivered between them.                                 *)
(***************************************************************************)
EXTENDS Integers, FiniteSetsExt, SequencesExt, Filters

CONSTANTS
  Chats,           \* the chats in which this life is working, one call each
  RequestsOf,      \* chat -> the update requests its stimuli may lead to; the
                   \* stimuli of a chat are processed one at a time
  ContextRequests,
  Consolidations,  \* the actors a consolidation may be asked for
  None,
  Backends,        \* the repositories to consider: "memory", "mongo"
  Cap,             \* maxEntriesPerLife (0: none)
  CandidateLimit, ContextLimit,
  AiSelector,      \* whether a model may select the memories of a context
  MaxEntries,      \* bound on the entries created
  MaxCalls,        \* bound on the calls made
  MaxFaults        \* bound on the repository calls that throw

Requests == UNION {RequestsOf[c] : c \in Chats}

Ids == 1..MaxEntries      \* ids in the order of creation (createdAt)

VARIABLES
  backend,
  store,       \* the collection (or the Map): id -> entry
  saved,       \* number of ids handed out
  work,        \* per chat: the call in progress
  calls, faults,
  told,        \* history: id -> the request whose answer was "stored here" last
  revivals,    \* history: how often an entry went back from archived to active
  leaked       \* history: private requests found in a context of another actor

vars == <<backend, store, saved, work, calls, faults, told, revivals, leaked>>
bounds == <<calls, faults>>
history == <<told, revivals, leaked>>

-----------------------------------------------------------------------------
(***************************************************************************)
(* Attribution: who owns a memory, who may see it, whom it is about.        *)
(* A request is a record of who and where ("actor", "habitat", "thread",    *)
(* "event", each possibly None), whether it is news, its importance and the *)
(* stimulus it comes from.                                                  *)
(***************************************************************************)
OwnerType(r) ==
  IF r.news THEN "global"
  ELSE IF r.event # None THEN "event"
  ELSE IF r.thread # None THEN "thread"
  ELSE IF r.habitat # None THEN "habitat"
  ELSE IF r.actor # None THEN "actor"
  ELSE "life"

OwnerId(r) ==
  IF OwnerType(r) \in {"event", "thread", "habitat", "actor"}
    THEN r[OwnerType(r)] ELSE OwnerType(r)

Visibility(r) ==
  CASE OwnerType(r) = "habitat" -> "habitat"
    [] OwnerType(r) \in {"thread", "event"} ->
         IF r.habitat # None THEN "shared" ELSE "private"
    [] OwnerType(r) = "global" -> "global"
    [] OTHER -> "private"

Relations(r) ==
  {<<OwnerType(r), OwnerId(r)>>}
    \cup {<<f, r[f]>> : f \in {g \in {"actor", "habitat", "thread", "event"} : r[g] # None}}

\* The entry a request is stored as.  `from` stands for the text: the requests
\* whose content it holds.
NewEntry(r) ==
  [stim |-> r.stim, actor |-> r.actor, habitat |-> r.habitat, thread |-> r.thread,
   ownerType |-> OwnerType(r), ownerId |-> OwnerId(r), vis |-> Visibility(r),
   rel |-> Relations(r), imp |-> r.imp, status |-> "active",
   from |-> {r}, merged |-> FALSE]

Absent == [status |-> "absent"]
Stored == {i \in Ids : store[i] # Absent}
Active == {i \in Stored : store[i].status = "active"}

\* The first k of a set of ids in an order, a set of pairs: the nth is the one
\* that n - 1 of them come before.
First(ids, order, k) ==
  [n \in 1..Min({k, Cardinality(ids)}) |->
     CHOOSE i \in ids : Cardinality({j \in ids : <<j, i>> \in order}) = n - 1]

\* (importance asc, createdAt asc)
LessImportant ==
  {p \in Stored \X Stored :
     \/ store[p[1]].imp < store[p[2]].imp
     \/ store[p[1]].imp = store[p[2]].imp /\ p[1] < p[2]}
\* (importance desc, createdAt desc)
MoreImportant ==
  {p \in Stored \X Stored :
     \/ store[p[1]].imp > store[p[2]].imp
     \/ store[p[1]].imp = store[p[2]].imp /\ p[1] > p[2]}
Earlier == {p \in Ids \X Ids : p[1] < p[2]}

-----------------------------------------------------------------------------
(***************************************************************************)
(* The calls and their steps.                                               *)
(***************************************************************************)
Idle == [pc |-> "idle"]

Init ==
  /\ backend \in Backends
  /\ store = [i \in Ids |-> Absent] /\ saved = 0
  /\ work = [c \in Chats |-> Idle]
  /\ calls = 0 /\ faults = 0
  /\ told = [i \in Ids |-> None] /\ revivals = 0 /\ leaked = {}

Begin(c, w) ==
  /\ work[c] = Idle /\ calls < MaxCalls
  /\ calls' = calls + 1
  /\ work' = [work EXCEPT ![c] = w]
  /\ UNCHANGED <<backend, store, saved, faults, history>>

Goto(c, w) == work' = [work EXCEPT ![c] = w]
Done(c) == Goto(c, Idle)

Write(i, e) ==
  /\ store' = [store EXCEPT ![i] = e]
  /\ revivals' = IF store[i].status = "archived" /\ e.status = "active"
                   THEN revivals + 1 ELSE revivals

\* A repository call throws: the update is answered with memory.update.failed,
\* a context or a consolidation with its failed event and the exception.
Throw(c) ==
  /\ work[c] # Idle /\ faults < MaxFaults
  /\ faults' = faults + 1
  /\ Done(c)
  /\ UNCHANGED <<backend, store, saved, calls, history>>

\* The handler of behavior.memory.update.requested.
Request(c, r) == Begin(c, [pc |-> "find", req |-> r])

\* Mutant: the comparison with the archived status is the wrong way round.
SameSourceArchived(r) ==
  {i \in Stored : /\ r.stim # None /\ store[i].stim = r.stim
                  /\ store[i].actor = r.actor
                  /\ store[i].ownerType = OwnerType(r) /\ store[i].ownerId = OwnerId(r)
                  /\ store[i].status = "archived"}

\* findExistingEntry: the entries this stimulus left, archived ones excepted.
SameSource(r) ==
  {i \in Stored : /\ r.stim # None /\ store[i].stim = r.stim
                  /\ store[i].actor = r.actor
                  /\ store[i].ownerType = OwnerType(r) /\ store[i].ownerId = OwnerId(r)
                  /\ store[i].status # "archived"}

\* The latest of them is merged into, or a new entry is saved.
Find(c) ==
  /\ work[c].pc = "find"
  /\ LET r == work[c].req
         found == SameSource(r)
     IN  IF found # {}
           THEN Goto(c, [pc |-> "update", why |-> "merge", id |-> Max(found),
                         todo |-> <<>>, req |-> r, snap |-> store[Max(found)]])
           ELSE Goto(c, [pc |-> "save", req |-> r])
  /\ UNCHANGED <<backend, store, saved, bounds, history>>

\* Mutant: a merge adds the importances up.
MergedImportanceSum(w) == w.snap.imp + w.req.imp

\* A merge keeps the higher importance.
MergedImportance(w) == Max({w.snap.imp, w.req.imp})

\* Mutant: a merge keeps the text of the entry it found.
MergedKeepsText(w) == w.snap.from

\* The text a merge writes is the request's.
MergedText(w) == {w.req}

\* The document an update of entry e writes: the patch is computed from the
\* snapshot the caller holds, and merged into e.
Merged(e, w) ==
  IF w.why = "merge"
    THEN [e EXCEPT !.from = MergedText(w), !.imp = MergedImportance(w),
                   !.habitat = IF w.req.habitat # None THEN w.req.habitat ELSE w.snap.habitat,
                   !.thread = IF w.req.thread # None THEN w.req.thread ELSE w.snap.thread,
                   !.vis = Visibility(w.req),
                   !.rel = w.snap.rel \cup Relations(w.req),
                   !.status = w.snap.status]
    ELSE [e EXCEPT !.status = "archived"]

\* The entries of a list are archived one by one.
ArchiveFirst(c, ids) ==
  Goto(c, [pc |-> "update", why |-> "archive", id |-> Head(ids), todo |-> Tail(ids)])

\* What follows an update w: the answer, or the next entry to archive.
AfterUpdate(c, w) ==
  /\ told' = IF w.why = "merge" THEN [told EXCEPT ![w.id] = w.req] ELSE told
  /\ IF w.todo = <<>>
       THEN Done(c)
       ELSE ArchiveFirst(c, w.todo)

\* MemoryMemoryRepository.update merges at once; MongoMemoryRepository.update
\* reads the document, merges, and then replaces the whole document.
Update(c) ==
  /\ work[c].pc = "update"
  /\ LET w == work[c]  doc == Merged(store[w.id], w) IN
     \/ /\ backend = "memory"
        /\ Write(w.id, doc) /\ AfterUpdate(c, w) /\ UNCHANGED leaked
     \/ /\ backend = "mongo"
        /\ Goto(c, [pc |-> "upsert", doc |-> doc, of |-> w])
        /\ UNCHANGED <<store, history>>
  /\ UNCHANGED <<backend, saved, bounds>>

Upsert(c) ==
  /\ work[c].pc = "upsert"
  /\ Write(work[c].of.id, work[c].doc)
  /\ AfterUpdate(c, work[c].of)
  /\ UNCHANGED <<backend, saved, bounds, leaked>>

\* repository.save of a new entry, and then the limit.
Save(c) ==
  /\ work[c].pc = "save" /\ saved < MaxEntries
  /\ saved' = saved + 1
  /\ Write(saved', NewEntry(work[c].req))
  /\ told' = [told EXCEPT ![saved'] = work[c].req]
  /\ Goto(c, [pc |-> "count"])
  /\ UNCHANGED <<backend, bounds, leaked>>

\* Mutant: the entry just saved is not counted.
SurplusWithoutTheNew == Cardinality(Active) - 1 - Cap

\* How many active entries are too many.
Surplus == Cardinality(Active) - Cap

\* enforceMaxEntries: countActiveByLife, and in a second call the overflow.
Count(c) ==
  /\ work[c].pc = "count"
  /\ IF Cap = 0 \/ Surplus <= 0
       THEN Done(c)
       ELSE Goto(c, [pc |-> "list", over |-> Surplus])
  /\ UNCHANGED <<backend, store, saved, bounds, history>>

Overflow(k) == First(Active, LessImportant, k)

ListOverflow(c) ==
  /\ work[c].pc = "list"
  /\ LET over == Overflow(work[c].over) IN
     IF over = <<>> THEN Done(c) ELSE ArchiveFirst(c, over)
  /\ UNCHANGED <<backend, store, saved, bounds, history>>

\* consolidate: the active memories of an actor (or all of them) are copied into
\* a new entry made after the oldest; all but the oldest are archived.
Consolidate(c, a) == Begin(c, [pc |-> "query", actor |-> a])

Consolidated(ids) ==
  LET oldest == store[Min(ids)] IN
  [oldest EXCEPT !.from = UNION {store[i].from : i \in ids},
                 !.imp = Max({store[i].imp : i \in ids}),
                 !.rel = UNION {store[i].rel : i \in ids},
                 !.merged = TRUE]

QueryActive(c) ==
  /\ work[c].pc = "query"
  /\ LET ids == {i \in Active : work[c].actor \in {None, store[i].actor}} IN
     IF Cardinality(ids) < 2
       THEN Done(c)
       ELSE Goto(c, [pc |-> "pack", doc |-> Consolidated(ids), todo |-> Tail(First(ids, Earlier, Cardinality(ids)))])
  /\ UNCHANGED <<backend, store, saved, bounds, history>>

SaveConsolidated(c) ==
  /\ work[c].pc = "pack" /\ saved < MaxEntries
  /\ saved' = saved + 1
  /\ Write(saved', work[c].doc)
  /\ ArchiveFirst(c, work[c].todo)
  /\ UNCHANGED <<backend, bounds, told, leaked>>

-----------------------------------------------------------------------------
(***************************************************************************)
(* The context of a request: candidates are collected query by query,       *)
(* filtered by visibility, scored, and the best are selected.               *)
(***************************************************************************)
Needed(q, name) ==
  CASE name \in {"actor", "thread", "habitat"} -> q[name] # None
    [] name = "related" -> q.actor # None
    [] name = "text" -> q.text
    [] name = "global" -> TRUE

Queries(q) ==
  LET names == <<"actor", "thread", "habitat", "global", "related", "text">>
  IN  Only(names, {name \in ToSet(names) : Needed(q, name)})

\* What a query asks of an active entry.  Which entries hold the text asked for
\* is left open.
Matches(e, q, name) ==
  CASE name = "actor" -> e.ownerType = "actor" /\ e.ownerId = q.actor /\ e.vis = "private"
    [] name = "thread" -> e.ownerType = "thread" /\ e.ownerId = q.thread
                            /\ e.vis \in {"shared", "private"}
    [] name = "habitat" -> e.ownerType = "habitat" /\ e.ownerId = q.habitat
                             /\ e.vis \in {"habitat", "shared"}
    [] name = "global" -> e.ownerType = "global" /\ e.vis = "global"
    [] name = "related" -> <<"actor", q.actor>> \in e.rel
    [] name = "text" -> TRUE

\* Mutant: a memory of a thread is visible wherever no thread is named.
VisibleOutsideThread(e, q) ==
  \/ e.vis = "global"
  \/ e.vis = "habitat" /\ e.habitat \in {None, q.habitat}
  \/ /\ e.vis = "shared"
     /\ IF e.thread # None THEN q.thread \in {None, e.thread}
        ELSE e.habitat = None \/ q.habitat \in {None, e.habitat}
  \/ /\ e.vis = "private"
     /\ IF e.ownerType = "actor" THEN e.ownerId = q.actor
        ELSE e.actor # None /\ e.actor = q.actor

\* isVisibleToRequest
Visible(e, q) ==
  \/ e.vis = "global"
  \/ e.vis = "habitat" /\ e.habitat \in {None, q.habitat}
  \/ /\ e.vis = "shared"
     /\ IF e.thread # None THEN e.thread = q.thread
        ELSE e.habitat = None \/ q.habitat \in {None, e.habitat}
  \/ /\ e.vis = "private"
     /\ IF e.ownerType = "actor" THEN e.ownerId = q.actor
        ELSE e.actor # None /\ e.actor = q.actor

\* scoreEntry in percent, without the bonuses for text and recency, which are
\* worth at most 27.
Score(e, q) ==
  (35 * e.imp) \div 100
    + (IF e.ownerType = "actor" /\ e.ownerId = q.actor THEN 25 ELSE 0)
    + (IF e.ownerType = "thread" /\ e.ownerId = q.thread THEN 20 ELSE 0)
    + (IF e.ownerType = "habitat" /\ e.ownerId = q.habitat THEN 15 ELSE 0)
    + (IF e.vis = "global" THEN 8 ELSE 0)
    + (IF \E f \in {"actor", "habitat", "thread"} : q[f] # None /\ <<f, q[f]>> \in e.rel
         THEN 15 ELSE 0)

Bonus == 27

\* RuleBasedMemoryRelevanceSelector: the best items, for some bonuses.  (The
\* score of every memory is above minScore.)
RuleBased(items, q) ==
  {S \in SUBSET items :
     /\ Cardinality(S) = Min({ContextLimit, Cardinality(items)})
     /\ \A e \in S, f \in items \ S : Score(f, q) <= Score(e, q) + Bonus}

\* AiAssistedMemoryRelevanceSelector: the ids a model answers with, those it
\* made up excepted; when it fails or names none the rules select.
AiAssisted(items) ==
  {S \in SUBSET items : Cardinality(S) \in 1..ContextLimit}

Selections(items, q) ==
  RuleBased(items, q) \cup (IF AiSelector THEN AiAssisted(items) ELSE {})

BuildContext(c, q) ==
  Begin(c, [pc |-> "collect", ctx |-> q, left |-> Queries(q), got |-> {}])

\* One query.  An entry collected before is replaced by its newer reading.
Collect(c) ==
  /\ work[c].pc = "collect" /\ work[c].left # <<>>
  /\ LET w == work[c]
         name == Head(w.left)
         match == {i \in Active : Matches(store[i], w.ctx, name)}
     IN  \E held \in (IF name = "text" THEN SUBSET match ELSE {match}) :
           LET read == {i \in Range(First(held, MoreImportant, CandidateLimit)) :
                          Visible(store[i], w.ctx)}
           IN  Goto(c, [w EXCEPT !.left = Tail(@),
                                 !.got = {p \in @ : p[1] \notin read}
                                           \cup {<<i, store[i]>> : i \in read}])
  /\ UNCHANGED <<backend, store, saved, bounds, history>>

\* Whom the docs let recall the content of a request.
MaySee(r, q) ==
  CASE Visibility(r) = "global" -> TRUE
    [] Visibility(r) = "habitat" -> r.habitat = q.habitat
    [] Visibility(r) = "shared" -> IF r.thread # None THEN r.thread = q.thread
                                   ELSE q.habitat \in {None, r.habitat}
    [] Visibility(r) = "private" -> r.actor # None /\ r.actor = q.actor

Select(c) ==
  /\ work[c].pc = "collect" /\ work[c].left = <<>>
  /\ LET q == work[c].ctx IN
     \E items \in Selections({p[2] : p \in work[c].got}, q) :
       leaked' = leaked \cup {r \in UNION {e.from : e \in items} : ~MaySee(r, q)}
  /\ Done(c)
  /\ UNCHANGED <<backend, store, saved, bounds, told, revivals>>

-----------------------------------------------------------------------------
Call(c) ==
  \/ \E r \in RequestsOf[c] : Request(c, r)
  \/ \E a \in Consolidations : Consolidate(c, a)
  \/ \E q \in ContextRequests : BuildContext(c, q)

Step(c) ==
  \/ Find(c) \/ Update(c) \/ Upsert(c) \/ Save(c) \/ Count(c) \/ ListOverflow(c)
  \/ QueryActive(c) \/ SaveConsolidated(c) \/ Collect(c) \/ Select(c) \/ Throw(c)

Next == \E c \in Chats : Call(c) \/ Step(c)
Spec == Init /\ [][Next]_vars
-----------------------------------------------------------------------------
Entries ==
  [stim : {r.stim : r \in Requests}, actor : {r.actor : r \in Requests},
   habitat : {r.habitat : r \in Requests}, thread : {r.thread : r \in Requests},
   ownerType : {"global", "event", "thread", "habitat", "actor", "life"},
   ownerId : {OwnerId(r) : r \in Requests}, vis : {"global", "habitat", "shared", "private"},
   rel : SUBSET UNION {Relations(r) : r \in Requests}, imp : 0..100,
   status : {"active", "archived"}, from : SUBSET Requests, merged : BOOLEAN]

TypeOK ==
  /\ backend \in Backends
  /\ \A i \in Ids : store[i] = Absent \/ (i <= saved /\ store[i] \in Entries)
  /\ saved \in 0..MaxEntries /\ calls \in 0..MaxCalls /\ faults \in 0..MaxFaults
  /\ \A c \in Chats : work[c].pc \in {"idle", "find", "update", "upsert", "save", "count",
                                      "list", "query", "pack", "collect"}
  /\ told \in [Ids -> Requests \cup {None}]
  /\ revivals \in Nat /\ leaked \subseteq Requests

\* When nobody is at work and no call failed, the life has no more active
\* memories than maxEntriesPerLife, one more for every time a merge brought an
\* archived one back and for every one that a consolidation wrote: every update
\* that saves an entry enforces the limit after it, however the counts, lists and
\* archivings of several interleave.
CapAtRest ==
  (\A c \in Chats : work[c] = Idle) /\ faults = 0 /\ Cap > 0 =>
    Cardinality(Active) <= Cap + revivals + Cardinality({i \in Stored : store[i].merged})

\* With the repository of the process, what an update was told is stored stays
\* the entry's text: an archiving in between never writes an older text back.
\* (Over Mongo it does: the whole document read before is written.)
ToldIsStored ==
  backend = "memory" => \A i \in Stored : told[i] # None => store[i].from = {told[i]}

\* However updates, archivings and merges interleave, one stimulus leaves one
\* active memory for one actor and owner.
OneActivePerSource ==
  \A i, j \in {k \in Active : ~store[k].merged /\ store[k].stim # None} :
    store[i].stim = store[j].stim /\ store[i].actor = store[j].actor
      /\ store[i].ownerType = store[j].ownerType /\ store[i].ownerId = store[j].ownerId
      => i = j

\* As long as nothing was consolidated, a context holds the text of a private,
\* thread or group memory only for those who may recall it.
ContextKeepsVisibility ==
  (\A i \in Stored : ~store[i].merged) => leaked = {}
=============================================================================
