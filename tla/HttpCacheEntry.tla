--------------------------- MODULE HttpCacheEntry ---------------------------
(***************************************************************************)
(* http/http_cache*: the transactions of one cache key.                    *)
(*                                                                         *)
(* HttpCache keeps at most one ActiveEntry for the key (and any number of  *)
(* doomed ones), and at most one PendingOp: the backend's work on the key, *)
(* with the work items queued behind it.  An ActiveEntry is a lock: one    *)
(* transaction at a time is in the headers phase, then either writers      *)
(* (who share one network transaction) or readers use the body.            *)
(*                                                                         *)
(* The thread does what is in calls, the first of them first, before it    *)
(* takes another task: they are the states of Transaction::DoLoop that do  *)
(* not wait, and the callbacks that one handler runs.  The requests are    *)
(* GETs for the whole resource; a truncated entry cannot be conditioned.   *)
(***************************************************************************)
EXTENDS Integers, Sequences, FiniteSets, SequencesExt

CONSTANTS
  Trans,        \* the transactions
  Nobody,       \* the null pointer to a transaction
  NumEntries,   \* bound: disk entries that exist at a time
  MaxVersion,   \* bound: versions of the resource
  Scenarios     \* what may surround the transactions

\* A scenario: the transactions there are, those with LOAD_ONLY_FROM_CACHE and
\* with LOAD_BYPASS_CACHE; the length of the resource, in reads; whether the
\* server's responses can be resumed; what fails; what else may happen.
ASSUME HttpCacheAssumption ==
  /\ Nobody \notin Trans
  /\ NumEntries \in Nat \ {0} /\ MaxVersion \in Nat \ {0}
  /\ \A s \in Scenarios :
       /\ s.trans \subseteq Trans
       /\ s.read_only \subseteq Trans /\ s.bypass \subseteq Trans
       /\ s.read_only \cap s.bypass = {}
       /\ s.size \in Nat \ {0}
       /\ s.resumable \in BOOLEAN
       /\ s.faults \subseteq {"network", "disk", "short", "timeout"}
       /\ s.extras \subseteq {"metadata", "no-store", "stop", "post"}

None == "none"
Entry == 1 .. NumEntries
NoEntry == 0

VARIABLES
  trans,      \* per transaction: the members of HttpCache::Transaction
  entries,    \* per disk entry: its ActiveEntry
  op,         \* the PendingOp of the key
  stored,     \* the disk entry that has the key, or NoEntry
  data,       \* per disk entry: its streams
  server,     \* the version of the resource the server has, and the scenario
  calls,      \* what is left of the task the thread runs
  mishaps     \* "not found": RemovePendingTransaction did not find its transaction,
              \* and "raced": though ERR_CACHE_RACE is posted to it;
              \* "not cut": the body of a replaced response could not be cut off

disk == <<stored, data>>
vars == <<trans, entries, op, disk, server, calls, mishaps>>

Version == server.version
Size == server.scenario.size
Resumable == server.scenario.resumable
Faults == server.scenario.faults
Extras == server.scenario.extras
ReadOnly == server.scenario.read_only
Bypass == server.scenario.bypass

\* A network transaction: the version it brings, and how much it has brought.
NoNet == [ver |-> 0, pos |-> 0]

NoWriters == [state |-> "absent", io |-> None, members |-> {}, waiting |-> {},
              active |-> Nobody, callback |-> Nobody, net |-> NoNet,
              read_only |-> FALSE, keep |-> FALSE, result |-> None]

NoActiveEntry == [status |-> "free", add |-> <<>>, headers |-> Nobody,
                  done |-> <<>>, writers |-> NoWriters, readers |-> {},
                  will_process |-> FALSE]

NoOp == [op |-> None, trans |-> Nobody, queue |-> <<>>]

NewTransaction ==
  [state |-> "new", mode |-> "NONE", entry |-> NoEntry, new_entry |-> NoEntry,
   done_headers |-> FALSE, pending |-> FALSE, waiting |-> FALSE,
   bypass |-> FALSE, net |-> NoNet, ver |-> 0, cached |-> FALSE, truncated |-> FALSE,
   offset |-> 0, error |-> FALSE, posted |-> None, mixed |-> FALSE]

NoData == [info |-> 0, truncated |-> FALSE, size |-> 0, body |-> 0,
           metadata |-> FALSE]

-----------------------------------------------------------------------------
(* Calls: the states of a transaction's DoLoop, and the cache's handlers.  *)

DoLoop(t, state) == [call |-> state, t |-> t]
IoCallback(t, result) == [call |-> "io callback", t |-> t, result |-> result]
ReadDone(t, result, ver) ==
  [call |-> "read done", t |-> t, result |-> result, ver |-> ver]
EntryFailure(e) == [call |-> "entry failure", e |-> e]
DoneWriting(e, success, keep, readers) ==
  [call |-> "done writing", e |-> e, success |-> success, keep |-> keep,
   readers |-> readers]
WorkItems(of, ok, fail, items) ==
  [call |-> "items", of |-> of, ok |-> ok, fail |-> fail, items |-> items]

Calling(what) == calls # <<>> /\ Head(calls).call = what
Ready == calls = <<>>
Rest == Tail(calls)

\* FindActiveEntry.
Active(es) ==
  IF \E e \in Entry : es[e].status = "active"
    THEN CHOOSE e \in Entry : es[e].status = "active" ELSE NoEntry

HasWriters(x) == x.writers.state # "absent"

\* ActiveEntry::SafeToDestroy, with HasNoTransactions.
SafeToDestroy(x) ==
  /\ x.readers = {} /\ x.add = <<>> /\ x.done = <<>> /\ x.headers = Nobody
  /\ ~ HasWriters(x)
  /\ ~ x.will_process

\* ProcessQueuedTransactions posts OnProcessQueuedTransactions.
ProcessQueued(x) == [x EXCEPT !.will_process = TRUE]

\* DoomActiveEntry, and DoomEntry of a key that has an active entry.
Doomed(es) ==
  IF Active(es) = NoEntry THEN es ELSE [es EXCEPT ![Active(es)].status = "doomed"]
StoredAfterDoom(es) == IF Active(es) = stored THEN NoEntry ELSE stored

Writes(mode) == mode \in {"WRITE", "READ_WRITE"}

\* Bodies of Writers ----------------------------------------------------------
\* CanAddWriters.
CanAddWriters(w) ==
  /\ w.state \notin {"pre truncate", "truncate"}
  /\ w.members = {} \/ ~ w.read_only

\* AddTransactionToWriters, with Writers::AddTransaction.
WithWriter(w, t) ==
  IF w.state = "absent"
    THEN [NoWriters EXCEPT !.state = None, !.members = {t}, !.keep = TRUE]
    ELSE [w EXCEPT !.members = @ \cup {t}, !.keep = TRUE]

\* EraseTransaction, for each of a set of writers.
Erased(w, ts) ==
  [w EXCEPT !.members = @ \ ts,
            !.waiting = @ \ ts,
            !.active = IF @ \in ts THEN Nobody ELSE @,
            !.net = IF w.members \subseteq ts /\ w.state = None THEN NoNet ELSE @]

\* WriterAboutToBeRemovedFromEntry.
Removed(r, result) ==
  [r EXCEPT !.entry = NoEntry, !.mode = "NONE", !.error = @ \/ result = "error"]

\* ShouldTruncate, and should_keep_entry_ after it.
ShouldTruncate(w, e) ==
  w.keep /\ Resumable /\ data[e].size > 0 /\ data[e].size < Size
KeepAfter(w, e) == w.keep /\ Resumable /\ data[e].size > 0

\* Writers::RemoveTransaction, with InitiateTruncateEntry.
RemoveWriter(x, e, t, success) ==
  LET w == Erased(x.writers, {t})
      With(v) == [x EXCEPT !.writers = v] IN
  IF w.members # {} THEN [entry |-> With(w), calls |-> <<>>]
  ELSE IF success
    THEN [entry |-> With(w), calls |-> <<DoneWriting(e, TRUE, w.keep, {})>>]
  ELSE IF w.state # None
    THEN [entry |-> With([w EXCEPT !.state = "pre truncate"]), calls |-> <<>>]
  ELSE IF ShouldTruncate(w, e)
    THEN [entry |-> With([w EXCEPT !.state = "truncate", !.io = "truncate"]),
          calls |-> <<>>]
  ELSE [entry |-> With(w),
        calls |-> <<DoneWriting(e, FALSE, KeepAfter(w, e), {})>>]

\* HttpCache::DoneWithEntry: the entry that is left, and what is to be called.
DoneWithEntry(e, t, complete) ==
  LET x == entries[e]
      passive == complete \/ trans[t].mode = "READ"
      failure == IF passive THEN <<>> ELSE <<EntryFailure(e)>> IN
  IF t \in Range(x.done)
    THEN [entry |-> [x EXCEPT !.done = Remove(@, t)], calls |-> failure]
  ELSE IF t = x.headers
    THEN [entry |-> IF passive THEN ProcessQueued([x EXCEPT !.headers = Nobody])
                               ELSE [x EXCEPT !.headers = Nobody],
          calls |-> failure]
  ELSE IF t \in x.writers.members THEN RemoveWriter(x, e, t, complete)
  ELSE [entry |-> ProcessQueued([x EXCEPT !.readers = @ \ {t}]), calls |-> <<>>]

\* The truncated flag is written when the truncation is issued.
Truncating(before, after) ==
  after.writers.io = "truncate" /\ before.writers.io # "truncate"

\* Transaction::DoneWithEntry, then the calls given; r is what t becomes.
Leave(t, complete, r, then) ==
  LET e == trans[t].entry
      d == DoneWithEntry(e, t, complete) IN
  IF e = NoEntry
    THEN /\ trans' = [trans EXCEPT ![t] = r]
         /\ calls' = then
         /\ UNCHANGED <<entries, data>>
    ELSE /\ trans' = [trans EXCEPT ![t] =
                        [r EXCEPT !.entry = NoEntry, !.mode = "NONE"]]
         /\ entries' = [entries EXCEPT ![e] = d.entry]
         /\ data' = IF Truncating(entries[e], d.entry)
                      THEN [data EXCEPT ![e].truncated = TRUE] ELSE data
         /\ calls' = d.calls \o then

-----------------------------------------------------------------------------
Init ==
  /\ trans = [t \in Trans |-> NewTransaction]
  /\ entries = [e \in Entry |-> NoActiveEntry]
  /\ op = NoOp
  /\ server \in [version : {1}, scenario : Scenarios]
  /\ stored \in {NoEntry, 1}
  /\ \E metadata \in {FALSE} \cup (IF "metadata" \in Extras THEN {TRUE} ELSE {}) :
       data = [e \in Entry |->
         IF e = stored THEN [NoData EXCEPT !.info = 1, !.body = 1, !.size = Size,
                                           !.metadata = metadata]
                       ELSE NoData]
  /\ calls = <<>>
  /\ mishaps = {}

\* Transaction::Start; the backend is there, so GET_BACKEND does not wait.
Start(t) ==
  /\ Ready
  /\ t \in server.scenario.trans
  /\ trans[t].state = "new"
  /\ trans' = [trans EXCEPT ![t].state = "busy"]
  /\ calls' = <<DoLoop(t, "get backend")>>
  /\ UNCHANGED <<entries, op, disk, server, mishaps>>

\* DoGetBackendComplete, DoInitEntry and DoOpenEntry of an active entry.
GetBackendComplete(t) ==
  /\ Calling("get backend") /\ Head(calls).t = t
  /\ LET mode == IF trans[t].bypass THEN "NONE"
                 ELSE IF t \in ReadOnly THEN "READ"
                 ELSE IF t \in Bypass THEN "WRITE" ELSE "READ_WRITE"
         next == CASE mode = "NONE" -> "send request"
                   [] mode = "WRITE" -> "doom entry"
                   [] OTHER -> "open entry" IN
     \/ /\ mode = "NONE" /\ t \in ReadOnly        \* ERR_CACHE_MISS
        /\ trans' = [trans EXCEPT ![t].mode = mode, ![t].state = "failed"]
        /\ calls' = Rest
     \/ /\ ~ (mode = "NONE" /\ t \in ReadOnly)
        /\ trans' = [trans EXCEPT ![t].mode = mode]
        /\ calls' = <<DoLoop(t, next)>> \o Rest
  /\ UNCHANGED <<entries, op, disk, server, mishaps>>

\* A work item goes to the backend, or behind the one that is there.
Enqueue(what, t) ==
  op' = IF op.op = None THEN [NoOp EXCEPT !.op = what, !.trans = t]
        ELSE [op EXCEPT !.queue = Append(@, [op |-> what, t |-> t])]

\* DoOpenEntry.
OpenEntry(t) ==
  /\ Calling("open entry") /\ Head(calls).t = t
  /\ IF Active(entries) # NoEntry
       THEN /\ trans' = [trans EXCEPT ![t].new_entry = Active(entries)]
            /\ calls' = <<DoLoop(t, "add to entry")>> \o Rest
            /\ UNCHANGED op
       ELSE /\ trans' = [trans EXCEPT ![t].state = "open entry", ![t].pending = TRUE]
            /\ Enqueue("open", t)
            /\ calls' = Rest
  /\ UNCHANGED <<entries, disk, server, mishaps>>

\* DoDoomEntry, with HttpCache::DoomEntry.
DoomEntry(t) ==
  /\ Calling("doom entry") /\ Head(calls).t = t
  /\ IF Active(entries) # NoEntry
       THEN /\ entries' = Doomed(entries)
            /\ stored' = StoredAfterDoom(entries)
            /\ calls' = <<DoLoop(t, "create entry")>> \o Rest
            /\ UNCHANGED <<trans, op>>
       ELSE /\ trans' = [trans EXCEPT ![t].state = "doom entry", ![t].pending = TRUE]
            /\ Enqueue("doom", t)
            /\ calls' = Rest
            /\ UNCHANGED <<entries, stored>>
  /\ UNCHANGED <<data, server, mishaps>>

\* DoCreateEntry.
CreateEntry(t) ==
  /\ Calling("create entry") /\ Head(calls).t = t
  /\ IF Active(entries) # NoEntry
       THEN /\ calls' = <<DoLoop(t, "cannot proceed")>> \o Rest
            /\ UNCHANGED <<trans, op>>
       ELSE /\ trans' = [trans EXCEPT ![t].state = "create entry", ![t].pending = TRUE]
            /\ Enqueue("create", t)
            /\ calls' = Rest
  /\ UNCHANGED <<entries, disk, server, mishaps>>

\* Bound: work items of the PendingOp when another doom is queued.
MaxQueuedItems == Cardinality(server.scenario.trans)

\* HttpCache::DoomMainEntryForUrl, for a POST to the URL elsewhere.
DoomMainEntryForUrl ==
  /\ Ready
  /\ "post" \in Extras
  /\ IF Active(entries) # NoEntry
       THEN /\ entries' = Doomed(entries)
            /\ stored' = StoredAfterDoom(entries)
            /\ UNCHANGED op
       ELSE /\ Len(op.queue) < MaxQueuedItems
            /\ Enqueue("doom", Nobody)
            /\ UNCHANGED <<entries, stored>>
  /\ UNCHANGED <<trans, data, server, calls, mishaps>>

\* An entry the backend may use for a new file.
Unused(e) == e # stored /\ entries[e].status = "free"

\* ActivateEntry.
ActivateEntry(e) == [entries EXCEPT ![e] = [NoActiveEntry EXCEPT !.status = "active"]]

\* NotifyTransaction: a transaction that is gone is not called.
Notify(t, result) == IF t = Nobody THEN <<>> ELSE <<IoCallback(t, result)>>

\* The backend ends its work on the key: OnPendingOpComplete, OnIOComplete.
OnIOComplete ==
  /\ Ready
  /\ \E ok \in {op.op = "doom" \/ (op.op = "open") = (stored # NoEntry)}
                 \cup (IF "disk" \in Faults THEN {FALSE} ELSE {}) :
       LET gone == op.trans = Nobody
           notify == Notify(op.trans, IF ok THEN "ok" ELSE "error")
           items == <<WorkItems(op.op, ok, ok /\ (op.op = "doom" \/ gone), op.queue)>> IN
       /\ \/ /\ op.op = "doom"
             /\ stored' = IF ok THEN NoEntry ELSE stored
             /\ UNCHANGED <<entries, data>>
          \/ /\ op.op = "open"
             /\ entries' = IF ok /\ ~ gone THEN ActivateEntry(stored) ELSE entries
             /\ UNCHANGED disk
          \/ /\ op.op = "create"
             /\ ~ ok \/ gone
             /\ UNCHANGED <<entries, disk>>
          \/ /\ op.op = "create" /\ ok /\ ~ gone
             /\ \E e \in Entry :
                  /\ Unused(e) /\ \A f \in Entry : Unused(f) => e <= f
                  /\ entries' = ActivateEntry(e)
                  /\ stored' = e
                  /\ data' = [data EXCEPT ![e] = NoData]
       /\ calls' = notify \o items
  /\ op' = NoOp
  /\ UNCHANGED <<trans, server, mishaps>>

\* OnIOComplete goes on with the first of the work items that were queued.
NextItem ==
  /\ Calling("items")
  /\ LET c == Head(calls) IN
     IF c.items = <<>>
       THEN calls' = Rest
       ELSE LET i == Head(c.items)
                fail == \/ c.fail \/ i.op = "doom"
                        \/ c.ok /\ Active(entries) = NoEntry
                mismatch == ~ c.ok /\ (c.of = "create") # (i.op = "create")
                result == IF fail \/ mismatch THEN "race"
                          ELSE IF c.ok /\ i.op = "open" THEN "ok" ELSE "error" IN
            calls' = Notify(i.t, result)
                       \o <<WorkItems(c.of, c.ok, fail \/ mismatch, Tail(c.items))>>
                       \o Rest
  /\ UNCHANGED <<trans, entries, op, disk, server, mishaps>>

-----------------------------------------------------------------------------
(* The headers phase of a transaction.                                     *)

\* The io callback runs t, which waits in the state given.
Called(t, state) ==
  /\ Calling("io callback") /\ Head(calls).t = t
  /\ trans[t].state = state

\* The transaction goes on in its DoLoop.
Go(t, r, next) ==
  /\ trans' = [trans EXCEPT ![t] = [r EXCEPT !.state = "busy", !.pending = FALSE]]
  /\ calls' = <<DoLoop(t, next)>> \o (IF Ready THEN <<>> ELSE Rest)

\* The transaction stops in the state given.
Stop(t, r, state) ==
  /\ trans' = [trans EXCEPT ![t] = [r EXCEPT !.state = state, !.pending = FALSE]]
  /\ calls' = IF Ready THEN <<>> ELSE Rest

\* DoOpenEntryComplete.
OpenEntryComplete(t) ==
  /\ Called(t, "open entry")
  /\ LET r == trans[t]
         result == Head(calls).result IN
     \/ result = "ok" /\ Go(t, [r EXCEPT !.new_entry = Active(entries)], "add to entry")
     \/ result = "race" /\ Go(t, r, "cannot proceed")
     \/ /\ result = "error" /\ r.mode = "READ_WRITE"
        /\ Go(t, [r EXCEPT !.mode = "WRITE"], "create entry")
     \/ result = "error" /\ r.mode = "READ" /\ Stop(t, r, "failed")
  /\ UNCHANGED <<entries, op, disk, server, mishaps>>

\* DoDoomEntryComplete.
DoomEntryComplete(t) ==
  /\ Called(t, "doom entry")
  /\ Go(t, trans[t],
        IF Head(calls).result = "race" THEN "cannot proceed" ELSE "create entry")
  /\ UNCHANGED <<entries, op, disk, server, mishaps>>

\* DoCreateEntryComplete.
CreateEntryComplete(t) ==
  /\ Called(t, "create entry")
  /\ LET r == trans[t]
         bypass == [r EXCEPT !.mode = "NONE"]
         result == Head(calls).result IN
     \/ result = "ok" /\ Go(t, [r EXCEPT !.new_entry = Active(entries)], "add to entry")
     \/ result = "race" /\ Go(t, r, "cannot proceed")
     \/ result = "error" /\ ~ r.done_headers /\ Go(t, bypass, "send request")
     \/ /\ result = "error" /\ r.done_headers
        /\ Go(t, [bypass EXCEPT !.done_headers = FALSE], "write response")
  /\ UNCHANGED <<entries, op, disk, server, mishaps>>

\* DoHeadersPhaseCannotProceed, with SetRequest.
CannotProceed(t) ==
  /\ Calling("cannot proceed") \/ Calling("lock timeout")
  /\ Head(calls).t = t
  /\ Go(t, [trans[t] EXCEPT !.net = NoNet, !.entry = NoEntry,
                            !.bypass = Calling("lock timeout")], "get backend")
  /\ UNCHANGED <<entries, op, disk, server, mishaps>>

\* DoAddToEntry, with HttpCache::AddTransactionToEntry.
AddToEntry(t) ==
  /\ Calling("add to entry") /\ Head(calls).t = t
  /\ LET r == trans[t] IN
     /\ trans' = [trans EXCEPT ![t] =
          [r EXCEPT !.pending = TRUE, !.waiting = ~ r.done_headers,
                    !.state = IF r.done_headers THEN "done headers" ELSE "add to entry"]]
     /\ entries' = [entries EXCEPT ![r.new_entry] =
          ProcessQueued([@ EXCEPT !.add = Append(@, t)])]
  /\ calls' = Rest
  /\ UNCHANGED <<op, disk, server, mishaps>>

\* DoAddToEntryComplete.
AddToEntryComplete(t) ==
  /\ Called(t, "add to entry")
  /\ LET result == Head(calls).result
         r == [trans[t] EXCEPT !.waiting = FALSE, !.new_entry = NoEntry]
         in == [r EXCEPT !.entry = trans[t].new_entry] IN
     \/ result = "race" /\ Go(t, r, "cannot proceed")
     \/ result = "timeout" /\ r.mode = "READ" /\ Stop(t, r, "failed")
     \/ /\ result = "timeout" /\ r.mode # "READ"
        /\ Go(t, [r EXCEPT !.mode = "NONE"], "send request")
     \/ result = "ok" /\ r.mode = "WRITE" /\ Go(t, in, "send request")
     \/ result = "ok" /\ r.mode # "WRITE" /\ Stop(t, in, "read response")
  /\ UNCHANGED <<entries, op, disk, server, mishaps>>

\* DoDoneHeadersAddToEntryComplete.
DoneHeadersAddToEntryComplete(t) ==
  /\ Called(t, "done headers")
  /\ Go(t, [trans[t] EXCEPT !.entry = trans[t].new_entry, !.done_headers = FALSE],
        "write response")
  /\ UNCHANGED <<entries, op, disk, server, mishaps>>

\* SetupEntryForRead and the end of BeginCacheRead, then the metadata if any.
ReadMetadataOrFinish(t, r) ==
  IF data[r.entry].metadata THEN Stop(t, r, "read metadata")
                            ELSE Go(t, r, "finish headers")

\* Mode of a transaction whose entry is valid: a reader, if nobody writes.
ModeOfValid(t, mode) == IF HasWriters(entries[trans[t].entry]) THEN mode ELSE "READ"

\* OnCacheReadError of a transaction that is in the headers phase.
CacheReadErrorRestarts(t) ==
  LET e == trans[t].entry
      left == [entries EXCEPT ![e] = DoneWithEntry(e, t, TRUE).entry] IN
  /\ entries' = Doomed(left)
  /\ stored' = StoredAfterDoom(entries)
  /\ Go(t, [trans[t] EXCEPT !.entry = NoEntry], "get backend")
  /\ UNCHANGED data

\* DoRestartPartialRequest, with DoomPartialEntry: a truncated entry that the
\* request cannot be conditioned on.
RestartPartialRequest(t) ==
  LET e == trans[t].entry
      left == [entries EXCEPT ![e] = DoneWithEntry(e, t, FALSE).entry] IN
  /\ entries' = IF entries[e].status = "doomed" THEN left ELSE Doomed(left)
  /\ stored' = IF e = stored THEN NoEntry ELSE stored
  /\ trans' = [trans EXCEPT ![t] = [@ EXCEPT !.state = "busy", !.entry = NoEntry,
                                             !.mode = "WRITE", !.truncated = FALSE]]
  /\ calls' = <<EntryFailure(e), DoLoop(t, "create entry")>>
  /\ UNCHANGED data

\* DoCacheReadResponseComplete, DoCacheDispatchValidation, BeginCacheRead and
\* BeginCacheValidation.
CacheReadResponseComplete(t) ==
  /\ Ready
  /\ trans[t].state = "read response"
  /\ LET e == trans[t].entry
         d == data[e]
         truncated == /\ d.truncated
                      /\ HasWriters(entries[e]) \/ d.size # Size
         r == [trans[t] EXCEPT !.ver = d.info, !.cached = TRUE,
                               !.truncated = truncated] IN
     \/ /\ d.info = 0 \/ "disk" \in Faults
        /\ CacheReadErrorRestarts(t)
     \/ /\ d.info # 0 /\ r.mode = "READ"
        /\ Stop(t, r, "failed")              \* truncated, or to be validated
        /\ UNCHANGED <<entries, disk>>
     \/ /\ d.info # 0 /\ ~ truncated         \* fresh
        /\ ReadMetadataOrFinish(t, [r EXCEPT !.mode = ModeOfValid(t, @)])
        /\ UNCHANGED <<entries, disk>>
     \/ /\ d.info # 0 /\ ~ truncated /\ r.mode = "READ_WRITE"
        /\ Go(t, r, "send request")
        /\ UNCHANGED <<entries, disk>>
     \/ /\ d.info # 0 /\ truncated /\ r.mode = "READ_WRITE"
        /\ RestartPartialRequest(t)
  /\ UNCHANGED <<op, server, mishaps>>

\* DoCacheReadMetadataComplete.
CacheReadMetadataComplete(t) ==
  /\ Ready
  /\ trans[t].state = "read metadata"
  /\ \/ /\ Go(t, trans[t], "finish headers")
        /\ UNCHANGED <<entries, stored>>
     \/ /\ "disk" \in Faults
        /\ Stop(t, trans[t], "failed")
        /\ entries' = Doomed(entries)
        /\ stored' = StoredAfterDoom(entries)
  /\ UNCHANGED <<op, data, server, mishaps>>

\* DoSendRequest.
SendRequest(t) ==
  /\ Calling("send request") /\ Head(calls).t = t
  /\ Stop(t, trans[t], "send request")
  /\ UNCHANGED <<entries, op, disk, server, mishaps>>

\* DoUpdateCachedResponse: a 304, with no-store or without.
UpdateCachedResponse(t) ==
  LET r == trans[t] IN
  \/ /\ "no-store" \in Extras
     /\ entries' = IF entries[r.entry].status = "doomed" THEN entries ELSE Doomed(entries)
     /\ stored' = IF entries[r.entry].status = "doomed" THEN stored ELSE StoredAfterDoom(entries)
     /\ Go(t, r, "update complete")
     /\ UNCHANGED data
  \/ /\ data' = [data EXCEPT ![r.entry].truncated = FALSE]
     /\ Stop(t, r, "write updated")
     /\ UNCHANGED <<entries, stored>>

\* DoSendRequestComplete, DoSuccessfulSendRequest and DoOverwriteCachedResponse.
SendRequestComplete(t) ==
  /\ Ready
  /\ trans[t].state = "send request"
  /\ LET r == trans[t]
         match == r.mode = "READ_WRITE" /\ r.ver = Version
         got == [r EXCEPT !.mode = IF @ = "NONE" THEN @ ELSE "WRITE",
                          !.ver = Version, !.cached = FALSE,
                          !.net = [ver |-> Version, pos |-> 0]] IN
     \/ /\ "network" \in Faults /\ r.cached
        /\ Leave(t, TRUE, [r EXCEPT !.state = "failed"], <<>>)
        /\ UNCHANGED stored
     \/ /\ "network" \in Faults /\ ~ r.cached
        /\ Stop(t, r, "failed")
        /\ UNCHANGED <<entries, disk>>
     \/ match /\ UpdateCachedResponse(t)
     \/ /\ ~ match
        /\ Go(t, got, "write response")
        /\ UNCHANGED <<entries, disk>>
  /\ UNCHANGED <<op, server, mishaps>>

\* DoCacheWriteUpdatedResponseComplete.
CacheWriteUpdatedResponseComplete(t) ==
  /\ Ready
  /\ trans[t].state = "write updated"
  /\ \/ /\ Go(t, trans[t], "update complete")
        /\ UNCHANGED <<entries, data>>
     \/ /\ "disk" \in Faults
        /\ Leave(t, FALSE, [trans[t] EXCEPT !.state = "busy"],
                 <<DoLoop(t, "update complete")>>)
  /\ UNCHANGED <<op, stored, server, mishaps>>

\* DoUpdateCachedResponseComplete, then DoOverwriteCachedResponse.  Without an
\* entry it is the 304 itself that the consumer gets.
UpdateCachedResponseComplete(t) ==
  /\ Calling("update complete") /\ Head(calls).t = t
  /\ LET r == trans[t]
         not_modified == [ver |-> 0, pos |-> Size] IN
     IF r.entry = NoEntry
       THEN Go(t, [r EXCEPT !.ver = 0, !.net = not_modified], "write response")
       ELSE ReadMetadataOrFinish(t, [r EXCEPT !.mode = ModeOfValid(t, @)])
  /\ UNCHANGED <<entries, op, disk, server, mishaps>>

\* The callbacks of transactions that have lost a race.
Race(ts) == [i \in DOMAIN ts |-> IoCallback(ts[i], "race")]

\* Mutant of CanWriteHeaders: the readers of the entry are forgotten.
CanWriteHeadersOfReaders(x) == x.writers.members = {} /\ x.done = <<>>

\* CanTransactionWriteResponseHeaders of a response that is not a 304.
CanWriteHeaders(x) == x.writers.members = {} /\ x.done = <<>> /\ x.readers = {}

\* Mutant of DoomEntryValidationNoMatch: those who wait are restarted at once.
DoomEntryValidationNoMatchUnposted(t, e) ==
  LET x == [entries[e] EXCEPT !.headers = Nobody] IN
  /\ entries' = IF SafeToDestroy(x) THEN [entries EXCEPT ![e] = NoActiveEntry]
                ELSE Doomed([entries EXCEPT ![e] = [x EXCEPT !.add = <<>>]])
  /\ stored' = IF SafeToDestroy(x) /\ e = stored THEN NoEntry ELSE StoredAfterDoom(entries)
  /\ trans' = [trans EXCEPT ![t] =
       [@ EXCEPT !.entry = NoEntry, !.mode = "WRITE", !.done_headers = TRUE]]
  /\ calls' = Race(x.add) \o <<DoLoop(t, "doom entry")>> \o Rest

\* DoomEntryValidationNoMatch, from DoCacheWriteResponse, which goes on to create
\* an entry.  Those who wait to be added will be restarted by a posted task.
DoomEntryValidationNoMatch(t, e) ==
  LET x == [entries[e] EXCEPT !.headers = Nobody]
      moved == [trans EXCEPT ![t] =
        [@ EXCEPT !.entry = NoEntry, !.mode = "WRITE", !.done_headers = TRUE]] IN
  /\ IF SafeToDestroy(x)
       THEN /\ entries' = [entries EXCEPT ![e] = NoActiveEntry]
            /\ stored' = IF e = stored THEN NoEntry ELSE stored
            /\ trans' = moved
       ELSE /\ entries' = Doomed([entries EXCEPT ![e] = [x EXCEPT !.add = <<>>]])
            /\ stored' = StoredAfterDoom(entries)
            /\ trans' = [u \in Trans |->
                 IF u \in Range(x.add)
                   THEN [trans[u] EXCEPT !.pending = FALSE, !.posted = "race"]
                   ELSE moved[u]]
  /\ calls' = <<DoLoop(t, "doom entry")>> \o Rest

\* The streams of an entry whose response is replaced: first the headers
\* (WriteResponseInfoToEntry); when these are written the body is cut off
\* (DoTruncateCachedData), and then the metadata (DoTruncateCachedMetadata).
Overwritten(d, ver) == [d EXCEPT !.info = ver, !.truncated = FALSE]
CutOff(d) == [d EXCEPT !.size = 0, !.body = 0]

\* DoCacheWriteResponse.
CacheWriteResponse(t) ==
  /\ Calling("write response") /\ Head(calls).t = t
  /\ LET r == trans[t]
         e == r.entry IN
     \/ /\ e = NoEntry
        /\ Go(t, r, "finish headers")
        /\ UNCHANGED <<entries, disk>>
     \/ /\ e # NoEntry
        /\ ~ (t = entries[e].headers /\ Writes(r.mode) /\ CanWriteHeaders(entries[e]))
        /\ DoomEntryValidationNoMatch(t, e)
        /\ UNCHANGED data
     \/ /\ e # NoEntry
        /\ t = entries[e].headers /\ Writes(r.mode) /\ CanWriteHeaders(entries[e])
        /\ \/ /\ "no-store" \in Extras
              /\ Leave(t, FALSE, r, <<DoLoop(t, "finish headers")>> \o Rest)
           \/ /\ data' = [data EXCEPT ![e] = Overwritten(@, r.ver)]
              /\ Stop(t, r, "write response")
              /\ UNCHANGED entries
        /\ UNCHANGED stored
  /\ UNCHANGED <<op, server, mishaps>>

\* DoCacheWriteResponseComplete, DoTruncateCachedData: the headers are written,
\* behind the write to the entry that was issued before them.  Nobody looks at
\* the result of the truncation.
CacheWriteResponseComplete(t) ==
  /\ Ready
  /\ trans[t].state = "write response"
  /\ LET e == trans[t].entry IN
     /\ entries[e].writers.io # "write"
     /\ \/ /\ Stop(t, trans[t], "truncate data")
           /\ data' = [data EXCEPT ![e] = CutOff(@)]
           /\ UNCHANGED <<entries, mishaps>>
        \/ /\ "disk" \in Faults
           /\ Stop(t, trans[t], "truncate data")
           /\ mishaps' = IF data[e].size = 0 THEN mishaps ELSE mishaps \cup {"not cut"}
           /\ UNCHANGED <<entries, data>>
        \/ /\ "disk" \in Faults
           /\ Leave(t, FALSE, [trans[t] EXCEPT !.state = "busy"],
                    <<DoLoop(t, "finish headers")>>)
           /\ UNCHANGED mishaps
  /\ UNCHANGED <<op, stored, server>>

\* DoTruncateCachedDataComplete, DoTruncateCachedMetadata.
TruncateCachedDataComplete(t) ==
  /\ Ready
  /\ trans[t].state = "truncate data"
  /\ Stop(t, trans[t], "truncate metadata")
  /\ \/ data' = [data EXCEPT ![trans[t].entry].metadata = FALSE]
     \/ "disk" \in Faults /\ UNCHANGED data
  /\ UNCHANGED <<entries, op, stored, server, mishaps>>

\* DoTruncateCachedMetadataComplete, DoPartialHeadersReceived.
TruncateCachedMetadataComplete(t) ==
  /\ Ready
  /\ trans[t].state = "truncate metadata"
  /\ ReadMetadataOrFinish(t, trans[t])
  /\ UNCHANGED <<entries, op, disk, server, mishaps>>

\* The transaction that SetValidatingCannotProceed stopped gets its answer.
ValidatingCannotProceed(t) ==
  /\ Ready
  /\ trans[t].state = "cannot proceed"
  /\ Go(t, trans[t], "cannot proceed")
  /\ UNCHANGED <<entries, op, disk, server, mishaps>>

\* DoFinishHeaders, with HttpCache::DoneWithResponseHeaders.
FinishHeaders(t) ==
  /\ Calling("finish headers") /\ Head(calls).t = t
  /\ LET r == trans[t]
         e == r.entry
         x == [entries[e] EXCEPT !.headers = Nobody] IN
     \/ /\ e = NoEntry
        /\ Stop(t, r, "ready")
        /\ UNCHANGED entries
     \/ /\ e # NoEntry /\ Writes(r.mode) /\ ~ HasWriters(x)
        /\ entries' = [entries EXCEPT ![e] = ProcessQueued([x EXCEPT
             !.writers = [WithWriter(@, t) EXCEPT !.net = r.net]])]
        /\ Stop(t, [r EXCEPT !.net = NoNet], "ready")
     \/ /\ e # NoEntry /\ (~ Writes(r.mode) \/ HasWriters(x))
        /\ entries' = [entries EXCEPT ![e] =
             ProcessQueued([x EXCEPT !.done = Append(@, t)])]
        /\ Stop(t, [r EXCEPT !.waiting = TRUE], "finish headers")
  /\ UNCHANGED <<op, disk, server, mishaps>>

\* DoFinishHeadersComplete.
FinishHeadersComplete(t) ==
  /\ Called(t, "finish headers")
  /\ LET r == [trans[t] EXCEPT !.waiting = FALSE]
         result == Head(calls).result IN
     \/ result = "race" /\ Go(t, r, "cannot proceed")
     \/ result = "timeout" /\ Go(t, r, "lock timeout")
     \/ result = "ok" /\ Stop(t, r, "ready")
  /\ UNCHANGED <<entries, op, disk, server, mishaps>>

-----------------------------------------------------------------------------
(* The cache's handlers.                                                   *)

\* Mutant of HeadersRestarted: the transaction keeps its entry.
HeadersRestartedWithEntry(t) ==
  IF t = Nobody THEN trans
  ELSE [trans EXCEPT ![t].state = IF @ = "failed" THEN @ ELSE "cannot proceed"]

\* RestartHeadersTransaction: SetValidatingCannotProceed.  A transaction that
\* has reported its failure has nothing left to wait for.
HeadersRestarted(t) ==
  IF t = Nobody THEN trans
  ELSE [trans EXCEPT ![t].state = IF @ = "failed" THEN @ ELSE "cannot proceed",
                     ![t].entry = NoEntry]

\* Mutant of ProcessEntryFailure: those who wait to be added are left there.
ProcessEntryFailureKeepsQueue ==
  /\ Calling("entry failure")
  /\ LET e == Head(calls).e
         x == [entries[e] EXCEPT !.headers = Nobody, !.done = <<>>]
         left == [entries EXCEPT ![e] = x] IN
     /\ trans' = HeadersRestarted(entries[e].headers)
     /\ IF SafeToDestroy(x)
          THEN /\ entries' = [entries EXCEPT ![e] = NoActiveEntry]
               /\ stored' = IF stored = e THEN NoEntry ELSE stored
          ELSE /\ entries' = Doomed(left)
               /\ stored' = StoredAfterDoom(entries)
     /\ calls' = Race(entries[e].done) \o Rest
  /\ UNCHANGED <<op, data, server, mishaps>>

\* ProcessEntryFailure, with DoomActiveEntry, which looks the key up.
ProcessEntryFailure ==
  /\ Calling("entry failure")
  /\ LET e == Head(calls).e
         x == [entries[e] EXCEPT !.headers = Nobody, !.done = <<>>, !.add = <<>>]
         left == [entries EXCEPT ![e] = x] IN
     /\ trans' = HeadersRestarted(entries[e].headers)
     /\ IF SafeToDestroy(x)
          THEN /\ entries' = [entries EXCEPT ![e] = NoActiveEntry]
               /\ stored' = IF stored = e THEN NoEntry ELSE stored
          ELSE /\ entries' = Doomed(left)
               /\ stored' = StoredAfterDoom(entries)
     /\ calls' = Race(entries[e].done \o entries[e].add) \o Rest
  /\ UNCHANGED <<op, data, server, mishaps>>

\* WritersDoneWritingToEntry, when the entry is kept truncated: the writers go
\* after the callbacks, with the entry if nobody uses it then.
KeepTruncated ==
  /\ Calling("done writing") /\ ~ Head(calls).success /\ Head(calls).keep
  /\ LET e == Head(calls).e
         restarted == entries[e].headers # Nobody \/ entries[e].done # <<>>
         x == [entries[e] EXCEPT !.headers = Nobody, !.done = <<>>]
         y == [x EXCEPT !.writers = NoWriters] IN
     IF restarted
       THEN /\ trans' = HeadersRestarted(entries[e].headers)
            /\ entries' = [entries EXCEPT ![e] = x]
            /\ calls' = Race(entries[e].done) \o calls
       ELSE /\ entries' = [entries EXCEPT ![e] =
                             IF SafeToDestroy(y) THEN NoActiveEntry ELSE y]
            /\ calls' = Rest
            /\ UNCHANGED trans
  /\ UNCHANGED <<op, disk, server, mishaps>>

\* WritersDoneWritingToEntry, when the entry is complete or of no use.
WritersDoneWritingToEntry ==
  /\ Calling("done writing") /\ (Head(calls).success \/ ~ Head(calls).keep)
  /\ LET c == Head(calls)
         x == [entries[c.e] EXCEPT !.writers = NoWriters] IN
     IF c.success
       THEN /\ entries' = [entries EXCEPT ![c.e] =
                 ProcessQueued([x EXCEPT !.readers = @ \cup c.readers])]
            /\ trans' = [u \in Trans |-> IF u \in c.readers
                           THEN [trans[u] EXCEPT !.mode = "READ"] ELSE trans[u]]
            /\ calls' = Rest
       ELSE /\ entries' = [entries EXCEPT ![c.e] = x]
            /\ calls' = <<EntryFailure(c.e)>> \o Rest
            /\ UNCHANGED trans
  /\ UNCHANGED <<op, disk, server, mishaps>>

\* ProcessDoneHeadersQueue: entry x, of whose done queue t is the first.
ProcessDoneHeaders(x, t) ==
  LET y == ProcessQueued([x EXCEPT !.done = Tail(@)]) IN
  IF HasWriters(x) THEN [y EXCEPT !.writers = WithWriter(@, t)]
                   ELSE [y EXCEPT !.readers = @ \cup {t}]

\* OnProcessQueuedTransactions, with ProcessAddToEntryQueue.
OnProcessQueuedTransactions(e) ==
  /\ Ready
  /\ entries[e].will_process
  /\ LET x == [entries[e] EXCEPT !.will_process = FALSE]
         done == x.done # <<>> /\ (~ HasWriters(x) \/ CanAddWriters(x.writers))
         joins == ~ HasWriters(x) \/ trans[Head(x.done)].mode # "READ"
         add == ~ done /\ x.add # <<>> /\ x.headers = Nobody
         With(y, r) == /\ entries' = [entries EXCEPT ![e] = y]
                       /\ trans' = r IN
     \/ /\ SafeToDestroy(x)
        /\ With(NoActiveEntry, trans)
        /\ calls' = <<>>
     \/ /\ ~ SafeToDestroy(x) /\ done /\ joins
        /\ LET t == Head(x.done) IN
           /\ With(ProcessDoneHeaders(x, t),
                   IF HasWriters(x) THEN trans ELSE [trans EXCEPT ![t].mode = "READ"])
           /\ calls' = <<IoCallback(t, "ok")>>
     \/ /\ add
        /\ With([x EXCEPT !.headers = Head(x.add), !.add = Tail(@)], trans)
        /\ calls' = <<IoCallback(Head(x.add), "ok")>>
     \/ /\ ~ SafeToDestroy(x) /\ ~ (done /\ joins) /\ ~ add
        /\ With(x, trans)
        /\ calls' = <<>>
  /\ UNCHANGED <<op, disk, server, mishaps>>

\* RemovePendingTransaction: from the queue of an entry, or from the PendingOp.
RemovePendingTransaction(t) ==
  LET in(e) == t \in Range(entries[e].add)
      queued == \E i \in DOMAIN op.queue : op.queue[i].t = t IN
  /\ entries' = [e \in Entry |-> IF in(e) THEN [entries[e] EXCEPT !.add = Remove(@, t)]
                                          ELSE entries[e]]
  /\ op' = [op EXCEPT !.trans = IF @ = t THEN Nobody ELSE @,
                      !.queue = SelectSeq(@, LAMBDA i : i.t # t)]
  /\ mishaps' = IF op.trans = t \/ queued \/ \E e \in Entry : in(e)
                   THEN mishaps
                 ELSE mishaps \cup {IF trans[t].posted = "race" THEN "raced"
                                                                ELSE "not found"}

\* OnCacheLockTimeout.
OnCacheLockTimeout(t) ==
  /\ Ready
  /\ "timeout" \in Faults
  /\ trans[t].waiting
  /\ \/ /\ trans[t].state = "add to entry"
        /\ RemovePendingTransaction(t)
        /\ calls' = <<IoCallback(t, "timeout")>>
        /\ UNCHANGED <<trans, data>>
     \/ /\ trans[t].state = "finish headers"
        /\ Leave(t, FALSE, trans[t], <<IoCallback(t, "timeout")>>)
        /\ UNCHANGED <<op, mishaps>>
  /\ UNCHANGED <<stored, server>>

\* The posted task that DoomEntryValidationNoMatch left for t.
PostedRace(t) ==
  /\ Ready
  /\ trans[t].posted = "race"
  /\ trans' = [trans EXCEPT ![t].posted = None]
  /\ calls' = IF trans[t].state \in {"add to entry", "send request"}
                THEN <<IoCallback(t, "race")>> ELSE <<>>
  /\ UNCHANGED <<entries, op, disk, server, mishaps>>

\* A race that comes late ends the request for the network.
RaceWhileSending(t) ==
  /\ Called(t, "send request")
  /\ Stop(t, trans[t], "failed")
  /\ UNCHANGED <<entries, op, disk, server, mishaps>>

\* The destructor of the transaction, whenever the consumer wants.
Destroy(t) ==
  /\ Ready
  /\ trans[t].state \notin {"new", "gone"}
  /\ LET gone == [NewTransaction EXCEPT !.state = "gone", !.mixed = trans[t].mixed] IN
     IF trans[t].entry = NoEntry /\ trans[t].pending
       THEN /\ RemovePendingTransaction(t)
            /\ trans' = [trans EXCEPT ![t] = gone]
            /\ UNCHANGED <<data, calls>>
       ELSE /\ Leave(t, FALSE, gone, <<>>)
            /\ UNCHANGED <<op, mishaps>>
  /\ UNCHANGED <<stored, server>>

-----------------------------------------------------------------------------
(* Reading the body.                                                       *)

\* What t has of a read: part of the body, its end, or an error.
Got(t, r, result, ver) ==
  CASE result = "data" -> [r EXCEPT !.state = "ready", !.offset = @ + 1,
                                    !.mixed = @ \/ ver # r.ver]
    [] result = "end" -> [r EXCEPT !.state = "end"]
    [] result = "error" -> [r EXCEPT !.state = "failed"]

\* Read, with TransitionToReadingState, and Writers::Read.
Read(t) ==
  /\ Ready
  /\ trans[t].state = "ready"
  /\ LET r == trans[t]
         e == r.entry
         w == entries[e].writers
         network == r.offset = data[e].size \/ w.read_only IN
     \/ /\ e = NoEntry /\ r.net = NoNet
        /\ trans' = [trans EXCEPT ![t].state = "failed"]
        /\ UNCHANGED entries
     \/ /\ e = NoEntry /\ r.net # NoNet
        /\ trans' = [trans EXCEPT ![t].state = "network read"]
        /\ UNCHANGED entries
     \/ /\ e # NoEntry
        /\ t \notin w.members \/ ~ network
        /\ trans' = [trans EXCEPT ![t].state = "cache read"]
        /\ UNCHANGED entries
     \/ /\ e # NoEntry
        /\ t \in w.members /\ network
        /\ trans' = [trans EXCEPT ![t].state = "writers read"]
        /\ entries' = [entries EXCEPT ![e].writers =
             IF w.state # None THEN [w EXCEPT !.waiting = @ \cup {t}]
             ELSE [w EXCEPT !.active = t, !.callback = t,
                            !.state = "network read", !.io = "network"]]
  /\ UNCHANGED <<op, disk, server, calls, mishaps>>

\* What the network may bring to one who has pos of the body.
NetworkResults(pos) ==
  {IF pos < Size THEN "data" ELSE "end"}
    \cup (IF "network" \in Faults THEN {"error"} ELSE {})
    \cup (IF "short" \in Faults THEN {"end"} ELSE {})

\* DoNetworkReadComplete of a transaction that bypasses the cache.
NetworkReadComplete(t) ==
  /\ Ready
  /\ trans[t].state = "network read"
  /\ LET r == trans[t] IN
     \E result \in NetworkResults(r.net.pos) :
       trans' = [trans EXCEPT ![t] =
         [Got(t, r, result, r.net.ver) EXCEPT
            !.net.pos = IF result = "data" THEN @ + 1 ELSE @]]
  /\ UNCHANGED <<entries, op, disk, server, calls, mishaps>>

\* DoCacheReadDataComplete, with OnCacheReadError.
CacheReadDataComplete(t) ==
  /\ Ready
  /\ trans[t].state = "cache read"
  /\ LET r == trans[t]
         d == data[r.entry] IN
     \/ /\ r.entry # NoEntry /\ r.offset < d.size
        /\ trans' = [trans EXCEPT ![t] = Got(t, r, "data", d.body)]
        /\ UNCHANGED <<entries, disk, calls>>
     \/ /\ r.entry # NoEntry /\ r.offset >= d.size
        /\ Leave(t, TRUE, Got(t, r, "end", 0), <<>>)
        /\ UNCHANGED stored
     \/ /\ r.entry = NoEntry               \* erased from the writers meanwhile
        /\ trans' = [trans EXCEPT ![t] = Got(t, r, "data", r.ver)]
        /\ UNCHANGED <<entries, disk, calls>>
     \/ /\ "disk" \in Faults
        /\ trans' = [trans EXCEPT ![t] = Got(t, r, "error", 0)]
        /\ entries' = Doomed(entries)
        /\ stored' = StoredAfterDoom(entries)
        /\ UNCHANGED <<data, calls>>
  /\ UNCHANGED <<op, server, mishaps>>

\* DoneReading: the consumer has all of the body.
DoneReading(t) ==
  /\ Ready
  /\ trans[t].state = "ready" /\ trans[t].offset = Size /\ trans[t].entry # NoEntry
  /\ Leave(t, TRUE, [trans[t] EXCEPT !.state = "end"], <<>>)
  /\ UNCHANGED <<op, stored, server, mishaps>>

\* StopCaching of a transaction that is alone among the writers.
StopCaching(t) ==
  /\ Ready
  /\ "stop" \in Extras
  /\ LET e == trans[t].entry IN
     /\ e # NoEntry /\ entries[e].writers.members = {t}
     /\ trans[t].state \in {"ready", "writers read", "cache read"}
     /\ entries[e].writers.net # NoNet
     /\ Writes(trans[t].mode)
     /\ entries' = [entries EXCEPT ![e].writers.read_only = TRUE,
                                   ![e].writers.keep = FALSE]
     /\ trans' = [trans EXCEPT ![t].mode = "NONE"]
     /\ calls' = <<EntryFailure(e)>>
  /\ UNCHANGED <<op, disk, server, mishaps>>

\* Transaction::WriteMetadata.
WriteMetadata(t) ==
  /\ Ready
  /\ "metadata" \in Extras
  /\ trans[t].state = "ready" /\ trans[t].entry # NoEntry
  /\ data' = [data EXCEPT ![trans[t].entry].metadata = TRUE]
  /\ UNCHANGED <<trans, entries, op, stored, server, calls, mishaps>>

-----------------------------------------------------------------------------
(* Writers: the one network read and cache write that they share.          *)

\* The callback of the transaction that started the read, if it is alive.
ReadDoneComplete ==
  /\ Calling("read done")
  /\ LET c == Head(calls) IN
     trans' = IF c.t # Nobody /\ trans[c.t].state = "writers read"
                THEN [trans EXCEPT ![c.t] = Got(c.t, trans[c.t], c.result, c.ver)]
                ELSE trans
  /\ calls' = Rest
  /\ UNCHANGED <<entries, op, disk, server, mishaps>>

\* The posted callback of a transaction that waited for another's read.
PostedRead(t) ==
  /\ Ready
  /\ trans[t].posted \in {"data", "end", "error"}
  /\ trans' = [trans EXCEPT ![t] =
       [Got(t, trans[t], trans[t].posted, trans[t].ver) EXCEPT !.posted = None]]
  /\ UNCHANGED <<entries, op, disk, server, calls, mishaps>>

\* ProcessWaitingForReadTransactions, for those of ts that wait; the others of
\* ts are idle and leave.  All of them leave, unless there is data.
AfterRead(w, ts, result) ==
  [u \in Trans |->
     LET r == IF u \in ts /\ result # "data" THEN Removed(trans[u], result)
                                             ELSE trans[u] IN
     IF u \in ts \cap w.waiting
       THEN [r EXCEPT !.posted = result,
                      !.mixed = @ \/ (result = "data" /\ r.ver # w.net.ver)]
       ELSE r]

\* OnNetworkReadFailure.
OnNetworkReadFailure(e, w, result) ==
  LET left == Erased([w EXCEPT !.state = None], w.members) IN
  /\ trans' = AfterRead(w, w.members, result)
  /\ IF ShouldTruncate(w, e)
       THEN /\ entries' = [entries EXCEPT ![e].writers =
                 [left EXCEPT !.state = "truncate", !.io = "truncate", !.result = result]]
            /\ data' = [data EXCEPT ![e].truncated = TRUE]
            /\ calls' = <<>>
       ELSE /\ entries' = [entries EXCEPT ![e].writers = left]
            /\ calls' = <<DoneWriting(e, FALSE, KeepAfter(w, e), {}),
                          ReadDone(w.callback, result, 0)>>
            /\ UNCHANGED data

\* OnDataReceived, d being the streams of the entry after the write.
OnDataReceived(e, w, result, d) ==
  IF result = "data"
    THEN /\ trans' = AfterRead(w, w.waiting, "data")
         /\ entries' = [entries EXCEPT ![e].writers =
              [w EXCEPT !.state = None, !.waiting = {}, !.active = Nobody]]
         /\ data' = [data EXCEPT ![e] = d]
         /\ calls' = <<ReadDone(w.callback, "data", w.net.ver)>>
    ELSE IF d.size < Size THEN OnNetworkReadFailure(e, w, "end")
    ELSE LET ended == w.waiting \cup ({w.active} \cap w.members) IN
         /\ trans' = AfterRead(w, ended, "end")
         /\ entries' = [entries EXCEPT ![e].writers =
              Erased([w EXCEPT !.state = None], w.members)]
         /\ calls' = <<DoneWriting(e, TRUE, w.keep, w.members \ ended),
                       ReadDone(w.callback, "end", 0)>>
         /\ UNCHANGED data

\* DoAsyncOpCompletePreTruncate.
PreTruncate(e, w, d) ==
  IF w.keep /\ Resumable /\ d.size > 0 /\ d.size < Size
    THEN /\ entries' = [entries EXCEPT ![e].writers =
              [w EXCEPT !.state = "truncate", !.io = "truncate"]]
         /\ data' = [data EXCEPT ![e] = [d EXCEPT !.info = w.net.ver, !.truncated = TRUE]]
         /\ calls' = <<>>
         /\ UNCHANGED trans
    ELSE /\ entries' = [entries EXCEPT ![e].writers = [w EXCEPT !.state = None]]
         /\ data' = [data EXCEPT ![e] = d]
         /\ calls' = <<DoneWriting(e, FALSE, w.keep /\ Resumable /\ d.size > 0, {})>>
         /\ UNCHANGED trans

\* OnIOComplete of a network read: DoNetworkReadComplete, DoCacheWriteData.  The
\* program ends where it reads from a null network transaction.
WritersNetworkReadComplete(e) ==
  /\ Ready
  /\ entries[e].writers.io = "network" /\ entries[e].writers.net # NoNet
  /\ \E result \in NetworkResults(entries[e].writers.net.pos) :
       LET w == [entries[e].writers EXCEPT
                   !.io = None, !.net.pos = IF result = "data" THEN @ + 1 ELSE @] IN
       IF w.state = "pre truncate" THEN PreTruncate(e, w, data[e])
       ELSE IF result = "error" THEN OnNetworkReadFailure(e, w, "error")
       ELSE IF result = "data" /\ ~ w.read_only
         THEN /\ entries' = [entries EXCEPT ![e].writers =
                   [w EXCEPT !.io = "write", !.state = "cache write"]]
              /\ UNCHANGED <<trans, data, calls>>
         ELSE OnDataReceived(e, w, result, data[e])
  /\ UNCHANGED <<op, stored, server, mishaps>>

\* The streams of the entry once the writers' data is in it: a body is of one
\* version, or of version 0.
Written(d, ver) ==
  [d EXCEPT !.size = @ + 1, !.body = IF d.size = 0 \/ d.body = ver THEN ver ELSE 0]

\* OnCacheWriteFailure.
OnCacheWriteFailure(e, w) ==
  LET idle == w.members \ {w.active}
      left == [Erased([w EXCEPT !.state = None], idle) EXCEPT
                 !.active = Nobody, !.read_only = TRUE, !.keep = FALSE] IN
  /\ trans' = AfterRead(w, idle, "error")
  /\ entries' = [entries EXCEPT ![e].writers = left]
  /\ calls' = <<IF left.members = {} THEN DoneWriting(e, FALSE, FALSE, {})
                ELSE EntryFailure(e),
                ReadDone(w.callback, "data", w.net.ver)>>
  /\ UNCHANGED data

\* OnIOComplete of a cache write: DoCacheWriteDataComplete.
WritersCacheWriteComplete(e) ==
  /\ Ready
  /\ entries[e].writers.io = "write"
  /\ LET w == [entries[e].writers EXCEPT !.io = None]
         d == Written(data[e], w.net.ver) IN
     \/ w.state = "pre truncate" /\ PreTruncate(e, w, d)
     \/ w.state = "cache write" /\ OnDataReceived(e, w, "data", d)
     \/ "disk" \in Faults /\ w.state = "cache write" /\ OnCacheWriteFailure(e, w)
     \/ "disk" \in Faults /\ w.state = "pre truncate" /\ PreTruncate(e, w, data[e])
  /\ UNCHANGED <<op, stored, server, mishaps>>

\* DoCacheWriteTruncatedResponseComplete.
TruncatedResponseComplete(e) ==
  /\ Ready
  /\ entries[e].writers.io = "truncate"
  /\ \E ok \in {TRUE} \cup (IF "disk" \in Faults THEN {FALSE} ELSE {}) :
       LET w == [entries[e].writers EXCEPT !.io = None, !.state = None] IN
       /\ entries' = [entries EXCEPT ![e].writers = w]
       /\ calls' = <<DoneWriting(e, FALSE, w.keep /\ ok, {}),
                     ReadDone(w.callback, w.result, 0)>>
  /\ UNCHANGED <<trans, op, disk, server, mishaps>>

-----------------------------------------------------------------------------
\* The resource changes on the server.
ServerChanges ==
  /\ Ready
  /\ Version < MaxVersion
  /\ server' = [server EXCEPT !.version = @ + 1]
  /\ UNCHANGED <<trans, entries, op, disk, calls, mishaps>>

HeadersStep(t) ==
  \/ GetBackendComplete(t) \/ OpenEntry(t) \/ DoomEntry(t) \/ CreateEntry(t)
  \/ OpenEntryComplete(t) \/ DoomEntryComplete(t) \/ CreateEntryComplete(t)
  \/ CannotProceed(t) \/ AddToEntry(t) \/ AddToEntryComplete(t)
  \/ DoneHeadersAddToEntryComplete(t) \/ SendRequest(t)
  \/ UpdateCachedResponseComplete(t) \/ CacheWriteResponse(t)
  \/ FinishHeaders(t) \/ FinishHeadersComplete(t) \/ RaceWhileSending(t)

Answer(t) ==
  \/ CacheReadResponseComplete(t) \/ CacheReadMetadataComplete(t)
  \/ SendRequestComplete(t) \/ CacheWriteUpdatedResponseComplete(t)
  \/ CacheWriteResponseComplete(t) \/ TruncateCachedDataComplete(t)
  \/ TruncateCachedMetadataComplete(t) \/ ValidatingCannotProceed(t)
  \/ PostedRace(t) \/ PostedRead(t)
  \/ NetworkReadComplete(t) \/ CacheReadDataComplete(t)

Consumer(t) ==
  \/ Start(t) \/ Read(t) \/ DoneReading(t) \/ StopCaching(t) \/ WriteMetadata(t)
  \/ Destroy(t)

CacheStep ==
  \/ NextItem \/ ProcessEntryFailure \/ KeepTruncated
  \/ WritersDoneWritingToEntry \/ ReadDoneComplete

WritersStep(e) ==
  \/ WritersNetworkReadComplete(e) \/ WritersCacheWriteComplete(e)
  \/ TruncatedResponseComplete(e)

Next ==
  \/ \E t \in Trans :
       HeadersStep(t) \/ Answer(t) \/ Consumer(t) \/ OnCacheLockTimeout(t)
  \/ CacheStep
  \/ OnIOComplete
  \/ \E e \in Entry : OnProcessQueuedTransactions(e) \/ WritersStep(e)
  \/ DoomMainEntryForUrl \/ ServerChanges

Spec == Init /\ [][Next]_vars

-----------------------------------------------------------------------------
(* Properties.                                                             *)

States == {"new", "busy", "open entry", "doom entry", "create entry",
           "add to entry", "done headers", "read response", "read metadata",
           "send request", "write updated", "write response", "truncate data",
           "truncate metadata", "cannot proceed", "finish headers", "ready",
           "network read", "cache read", "writers read", "end", "failed", "gone"}

\* The variables have their types.  A body that is not cut off is written behind.
TypeOK ==
  /\ \A t \in Trans :
       /\ trans[t].state \in States
       /\ trans[t].mode \in {"NONE", "READ", "WRITE", "READ_WRITE"}
       /\ trans[t].entry \in Entry \cup {NoEntry}
       /\ trans[t].posted \in {None, "race", "data", "end", "error"}
       /\ trans[t].offset \in 0 .. MaxVersion * Size
  /\ \A e \in Entry :
       /\ entries[e].status \in {"free", "active", "doomed"}
       /\ entries[e].headers \in Trans \cup {Nobody}
       /\ entries[e].readers \subseteq Trans
       /\ entries[e].writers.members \subseteq Trans
       /\ data[e].size \in 0 .. MaxVersion * Size
  /\ op.op \in {None, "open", "create", "doom"}
  /\ stored \in Entry \cup {NoEntry}

\* At most two transactions.
Few == Cardinality(server.scenario.trans) <= 2

\* Nobody bypasses the cache or interferes with the entry, and the disk works.
Undisturbed == Bypass = {} /\ Extras = {} /\ "disk" \notin Faults

\* Where the entry has the transaction.
Holds(x, t) ==
  t = x.headers \/ t \in Range(x.done) \/ t \in x.writers.members \/ t \in x.readers

\* Between tasks, entry_ points to the entry that has the transaction in its
\* headers phase, its done queue, its writers or its readers, and to no other;
\* the entry is not destroyed under it.
EntryPointersAreValid ==
  Ready => \A t \in Trans, e \in Entry :
             /\ (trans[t].entry = e) <=> Holds(entries[e], t)
             /\ trans[t].entry = e => entries[e].status # "free"

\* "Only one of writers or readers can be non-empty at a time" (http_cache.h):
\* whatever queue a transaction came through, nobody reads an entry from the
\* cache as a reader while others write it.  A third transaction can, when it has
\* to read the metadata of the entry first.
ReadersOrWriters ==
  ("metadata" \in Extras => Few) =>
    \A e \in Entry : entries[e].readers = {} \/ entries[e].writers.members = {}

\* A consumer gets the body of the response whose headers it was given, even
\* when transactions share a network transaction, read what others write, or
\* find the entry overwritten.  It may not when the truncation of a replaced body
\* has failed, and where responses can be resumed: one that overwrites the entry
\* can then be restarted between writing the headers and cutting off the body.
NoMixedResponses ==
  ~ Resumable /\ "not cut" \notin mishaps => \A t \in Trans : ~ trans[t].mixed

\* A consumer that reaches the end of the body has got all of it, whoever else
\* wrote, failed or left: as long as the disk works, the connection does not end
\* short, nobody stops caching and responses cannot be resumed.  With any of
\* these it may get less.
EndIsComplete ==
  Faults \cap {"disk", "short"} = {} /\ "stop" \notin Extras /\ ~ Resumable =>
    \A t \in Trans : trans[t].state = "end" => trans[t].offset = Size

\* An entry that is kept has a user, or a task that will destroy it (the
\* DCHECK of DoomEntry): none leaks, whoever is destroyed when.  With three
\* transactions a truncated entry can be kept for nobody.
EntriesAreUsed ==
  Ready /\ (Resumable => Few) =>
    \A e \in Entry : entries[e].status # "free" => ~ SafeToDestroy(entries[e])

\* Somebody will look at the queues of the entry: a task, one who uses the entry,
\* or one who is on the way back to it.
WillBeProcessed(x) ==
  \/ x.will_process
  \/ x.headers # Nobody \/ HasWriters(x) \/ x.readers # {} \/ x.done # <<>>
  \/ \E t \in Trans : trans[t].state = "cannot proceed"

\* No transaction waits for a call that nobody will make, whoever doomed the
\* entry or was destroyed meanwhile: one that waits for the backend is in the
\* PendingOp, and one that waits for an entry is in a queue of it that will be
\* processed, or has a posted task.  A third transaction can be forgotten when a
\* truncated entry is kept.
WaitersAreServed ==
  Ready /\ (Resumable => Few) => \A t \in Trans :
    /\ trans[t].state \in {"open entry", "create entry", "doom entry"} =>
         op.trans = t \/ \E i \in DOMAIN op.queue : op.queue[i].t = t
    /\ trans[t].state \in {"add to entry", "done headers"} =>
         \/ trans[t].posted = "race"
         \/ \E e \in Entry : /\ t \in Range(entries[e].add)
                             /\ WillBeProcessed(entries[e])
    /\ trans[t].state = "finish headers" =>
         \E e \in Entry : t \in Range(entries[e].done)

\* RemovePendingTransaction finds the transaction (its DCHECK) in the queue of an
\* entry or of the PendingOp, whoever dropped or doomed these meanwhile, unless the
\* posted ERR_CACHE_RACE that took it off the queue has yet to run.
PendingIsFound == "not found" \notin mishaps

\* Without that exception.
\* Stated, and not true of the code: README, section 5.
PendingIsAlwaysFound == PendingIsFound /\ "raced" \notin mishaps

\* Only a transaction that has doomed the entry of its key, to write the
\* response it has, skips the headers phase of the entry it is added to (the
\* DCHECK of DoAddToEntry).  Three transactions can break it when one bypasses the
\* cache, when something interferes with the entry or when the disk fails.
OnlyWritersSkipHeaders ==
  Calling("add to entry") /\ (Few \/ Undisturbed) =>
    LET r == trans[Head(calls).t] IN r.done_headers => r.mode = "WRITE"

\* Writers read from a network transaction (the DCHECK of DoNetworkRead), whoever
\* brought it and has left: as long as nobody dooms the entry by its URL or writes
\* its metadata, and at most two transactions use it or nothing disturbs them.
WritersHaveNetwork ==
  Extras \cap {"post", "metadata"} = {} /\ (Few \/ Undisturbed) =>
    \A e \in Entry : entries[e].writers.io = "network" => entries[e].writers.net # NoNet

\* A transaction with neither entry nor network knows the error to report (the
\* DCHECK of TransitionToReadingState), unless the connection has ended short, the
\* entry was doomed by its URL, or a third transaction is disturbed.
ErrorIsSet ==
  "short" \notin Faults /\ "post" \notin Extras /\ (Few \/ Undisturbed) =>
    \A t \in Trans :
      trans[t].state = "ready" /\ trans[t].entry = NoEntry /\ trans[t].net = NoNet
        => trans[t].error

\* The failure of an entry dooms that entry, and no other that has taken its
\* key since.
\* Stated, and not true of the code: README, section 5.
OnlyTheFailedIsDoomed ==
  [][Calling("entry failure") =>
       \A e \in Entry \ {Head(calls).e} : entries'[e].status = entries[e].status]_vars

\* The consumer of a plain request never gets a 304 for its response, unless the
\* disk fails when the updated headers are written.
NotModifiedStaysInside ==
  "disk" \notin Faults => \A t \in Trans : trans[t].state = "ready" => trans[t].ver # 0

\* The entry, as a lock, agrees with its users: the pointers of transactions, the
\* members of its queues and phases, and whether it is kept.
EntryIsConsistent ==
  TypeOK /\ EntryPointersAreValid /\ ReadersOrWriters /\ EntriesAreUsed

\* A consumer gets the response it asked for: one version of it, all of it, and
\* never the answer to a question of the cache's own.
ResponsesAreRight == NoMixedResponses /\ EndIsComplete /\ NotModifiedStaysInside

\* The DCHECKs that rest on what other transactions did before.
ChecksHold ==
  PendingIsFound /\ OnlyWritersSkipHeaders /\ WritersHaveNetwork /\ ErrorIsSet

=============================================================================
