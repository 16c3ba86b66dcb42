---------------------------- MODULE SimpleCache ----------------------------
(***************************************************************************)
(* disk_cache/simple: the entries of one hash in the simple cache.         *)
(*                                                                         *)
(* A SimpleEntryImpl queues its operations and runs one at a time; those   *)
(* that touch files run on a worker thread (Work) and come back with a     *)
(* reply (the ...Complete actions).  SimpleBackendImpl finds the entry of  *)
(* a hash in active_entries_, and makes callers wait while a doom of the   *)
(* hash is pending.  Several entries may be alive: those that were doomed  *)
(* stay usable by their holders, on files that are no longer linked.       *)
(*                                                                         *)
(* The IO thread does what is in calls, the first of them first, before it *)
(* takes another task.  The index is loaded and the backend lives on.      *)
(***************************************************************************)
EXTENDS Integers, Sequences, FiniteSets

CONSTANTS
  NumEntries,     \* bound: how many SimpleEntryImpl live at a time
  Scenarios       \* what the clients do and what fails

\* A scenario: how many calls the clients make (a bound), OPTIMISTIC_OPERATIONS,
\* whether clients iterate over the cache, and of "io" (I/O errors) and "lazy"
\* (writes to an omitted stream) what happens.
ASSUME SimpleCacheAssumption ==
  /\ NumEntries \in Nat \ {0}
  /\ \A s \in Scenarios : /\ s.calls \in Nat
                          /\ s.optimistic \in BOOLEAN /\ s.iterate \in BOOLEAN
                          /\ s.faults \subseteq {"io", "lazy"}

Entry == 1 .. NumEntries
File == 1 .. 3 * NumEntries + 1
None == 0

VARIABLES
  entry,        \* per entry: the members of SimpleEntryImpl
  active,       \* active_entries_: the entry of the hash, or None
  dooming,      \* entries_pending_doom_: None, or the PostDoomWaiters
  index,        \* SimpleIndex: whether it has the hash
  mass,         \* the DoomEntrySet task: "none", "posted" or "done"
  opened,       \* entries whose OnEntryOpenedFromHash is posted
  calls,        \* what is left of the task the IO thread runs
  linked,       \* the file that has the name of the hash, or None
  clients       \* how many calls they may still make, and the scenario

backend == <<active, dooming, index, mass, opened>>
vars == <<entry, backend, calls, linked, clients>>

Optimistic == clients.scenario.optimistic
Iterate == clients.scenario.iterate
Faults == clients.scenario.faults

NoTask == [op |-> "none", done |-> FALSE, result |-> "ok", file |-> None,
           restore |-> "none", doomed |-> FALSE]

Unused == [state |-> "unused", pending |-> <<>>, doomed |-> FALSE,
           create |-> "normal", open_count |-> 0, file |-> None, task |-> NoTask,
           closing |-> NoTask]
New == [Unused EXCEPT !.state = "uninitialized"]

\* Calls of the IO thread.
Run(e) == [call |-> "run", entry |-> e]
OnDoomComplete == [call |-> "doomed", entry |-> None]
Waiter(what, e) == [call |-> what, entry |-> e]

\* The value of dooming when entries_pending_doom_ does not have the hash.
NoDoom == <<Waiter("no_doom", None)>>

Free(n) == entry[n].state = "unused"
Fresh == CHOOSE n \in Entry : Free(n)
HasFresh == \E n \in Entry : Free(n)

\* What keeps an entry alive: its holders, its operations, its tasks, waiters.
Referenced(e) ==
  \/ entry[e].open_count > 0
  \/ entry[e].pending # <<>>
  \/ entry[e].task.op # "none" \/ entry[e].closing.op # "none"
  \/ e \in opened
  \/ \E i \in DOMAIN calls : calls[i].entry = e
  \/ \E i \in DOMAIN dooming : dooming # NoDoom /\ dooming[i].entry = e

Unreferenced(e) == ~ Free(e) /\ ~ Referenced(e)

\* The IO thread is at the call given, or may start on another task.
Calling(what) ==
  /\ calls # <<>> /\ Head(calls).call = what
  /\ \A e \in Entry : ~ Unreferenced(e)
Ready == calls = <<>> /\ \A e \in Entry : ~ Unreferenced(e)

-----------------------------------------------------------------------------
Init ==
  /\ entry = [e \in Entry |-> Unused]
  /\ active = None
  /\ dooming = NoDoom
  /\ mass = "none"
  /\ opened = {}
  /\ calls = <<>>
  /\ linked \in {None, 1}
  /\ index = (linked # None)
  /\ \E s \in Scenarios : clients = [left |-> s.calls, scenario |-> s]

\* The destructor, with that of the ActiveEntryProxy.
Destroy(e) ==
  /\ Unreferenced(e)
  /\ entry' = [entry EXCEPT ![e] = Unused]
  /\ active' = IF active = e THEN None ELSE active
  /\ UNCHANGED <<dooming, index, mass, opened, calls, linked, clients>>

\* Mutant of Push: an operation goes in front of the others.
PushFront(e, op) == [entry[e] EXCEPT !.pending = <<op>> \o @]

Push(e, op) == [entry[e] EXCEPT !.pending = Append(@, op)]

\* MarkAsDoomed.
MarkAsDoomed(e) ==
  /\ index' = FALSE
  /\ active' = IF active = e THEN None ELSE active

\* Mutant of OnDoomStart: the waiters of the doom before are not kept apart.
OnDoomStartNever == UNCHANGED dooming

OnDoomStart == dooming' = IF dooming = NoDoom THEN <<>> ELSE dooming

\* SimpleEntryImpl::DoomEntry.
DoomEntry(e, rest) ==
  IF entry[e].doomed
    THEN /\ calls' = rest
         /\ UNCHANGED <<entry, active, dooming, index>>
    ELSE /\ MarkAsDoomed(e)
         /\ IF entry[e].create = "normal" THEN OnDoomStart ELSE UNCHANGED dooming
         /\ entry' = [entry EXCEPT ![e] =
              [Push(e, "doom") EXCEPT
                 !.doomed = TRUE,
                 !.create = IF @ = "normal" THEN @ ELSE "pending_then_doom"]]
         /\ calls' = <<Run(e)>> \o rest

\* SimpleEntryImpl::OpenEntry of an entry that the index knows.
OpenEntry(e, op, rest) ==
  /\ entry' = [entry EXCEPT ![e] = [Push(e, op) EXCEPT
                  !.state = IF @ = "unused" THEN "uninitialized" ELSE @]]
  /\ calls' = <<Run(e)>> \o rest

\* SimpleEntryImpl::CreateEntry: it may return the entry at once.
CreateEntry(e, before, rest) ==
  LET early == Optimistic /\ before.state = "uninitialized" /\ before.pending = <<>>
  IN
  /\ entry' = [entry EXCEPT ![e] =
       [before EXCEPT
          !.pending = Append(@, IF early THEN "create_early" ELSE "create"),
          !.open_count = IF early THEN @ + 1 ELSE @,
          !.state = IF before.create # "normal" THEN "io" ELSE @]]
  /\ index' = TRUE
  /\ calls' = <<Run(e)>> \o rest

-----------------------------------------------------------------------------
\* SimpleBackendImpl.  An operation is called by a client, or later by
\* OnDoomComplete; rest is what the IO thread has to do after it.

\* The entry of the hash, created when there is none.
Found == IF active # None THEN active ELSE Fresh
FoundEntry == IF active # None THEN entry[active] ELSE New

Wait(what, rest) ==
  /\ dooming' = Append(dooming, Waiter(what, None))
  /\ calls' = rest
  /\ UNCHANGED <<entry, active, index>>

BackendOpenEntry(rest) ==
  /\ IF dooming # NoDoom THEN Wait("open", rest)
     ELSE IF index
       THEN /\ OpenEntry(Found, "open", rest)
            /\ active' = Found
            /\ UNCHANGED <<dooming, index>>
       ELSE /\ calls' = rest
            /\ UNCHANGED <<entry, active, dooming, index>>
  /\ UNCHANGED <<mass, opened>>

\* Mutant of BackendCreateEntry: a creation goes ahead of others that wait.
BackendCreateEntryAhead(rest) ==
  /\ IF dooming # NoDoom /\ Optimistic
       THEN /\ CreateEntry(Fresh, [New EXCEPT !.create = "pending_doom"], rest)
            /\ active' = Fresh
            /\ dooming' = Append(dooming, Waiter("notify", Fresh))
     ELSE IF dooming # NoDoom THEN Wait("create", rest)
     ELSE /\ CreateEntry(Found, FoundEntry, rest)
          /\ active' = Found
          /\ UNCHANGED dooming
  /\ UNCHANGED <<mass, opened>>

BackendCreateEntry(rest) ==
  /\ IF dooming # NoDoom /\ (dooming # <<>> \/ ~ Optimistic)
       THEN Wait("create", rest)
     ELSE IF dooming = <<>>
       THEN /\ CreateEntry(Fresh, [New EXCEPT !.create = "pending_doom"], rest)
            /\ active' = IF active = None THEN Fresh ELSE active
            /\ dooming' = <<Waiter("notify", Fresh)>>
     ELSE /\ CreateEntry(Found, FoundEntry, rest)
          /\ active' = Found
          /\ UNCHANGED dooming
  /\ UNCHANGED <<mass, opened>>

BackendDoomEntry(rest) ==
  /\ IF dooming # NoDoom THEN Wait("doom", rest)
     ELSE IF active # None THEN DoomEntry(active, rest)
     ELSE /\ index' = FALSE
          /\ OnDoomStart
          /\ entry' = [entry EXCEPT ![Fresh] =
                         [New EXCEPT !.doomed = TRUE, !.pending = <<"doom">>]]
          /\ calls' = <<Run(Fresh)>> \o rest
          /\ UNCHANGED active
  /\ UNCHANGED <<mass, opened>>

\* DoomEntryFromHash, and DoomEntries for a hash that is not in use.  DoomEntries
\* removes the hash from the index also if the doom has to wait.
DoomEntryFromHash(indexed, rest) ==
  /\ IF dooming # NoDoom
       THEN /\ dooming' = Append(dooming, Waiter("doom_hash", None))
            /\ index' = indexed
            /\ calls' = rest
            /\ UNCHANGED <<entry, active, mass>>
     ELSE IF active # None THEN DoomEntry(active, rest) /\ UNCHANGED mass
     ELSE /\ index' = FALSE
          /\ OnDoomStart
          /\ mass' = "posted"
          /\ calls' = rest
          /\ UNCHANGED <<entry, active>>
  /\ UNCHANGED opened

OpenEntryFromHash(rest) ==
  /\ IF dooming # NoDoom THEN Wait("open_hash", rest) /\ UNCHANGED <<mass, opened>>
     ELSE IF active # None THEN BackendOpenEntry(rest)
     ELSE /\ IF index THEN OpenEntry(Fresh, "open_hash", rest)
                      ELSE calls' = rest /\ UNCHANGED entry
          /\ UNCHANGED <<active, dooming, index, mass, opened>>

\* OnEntryOpenedFromHash, if it does not make e the active entry: e is closed
\* and the active one is opened.
OpenActiveInstead(e) ==
  LET closed == [entry[e] EXCEPT !.open_count = @ - 1,
                                 !.pending = Append(@, "close")]
  IN
  /\ entry' = [entry EXCEPT ![e] = closed,
                 ![active] = IF index THEN Push(active, "open") ELSE @]
  /\ calls' = <<Run(e)>> \o IF index THEN <<Run(active)>> ELSE <<>>

OnEntryOpenedFromHash(e) ==
  /\ Ready
  /\ e \in opened
  /\ opened' = opened \ {e}
  /\ \/ /\ active = None
        /\ active' = e
        /\ UNCHANGED <<entry, calls>>
     \/ /\ active # None
        /\ OpenActiveInstead(e)
        /\ UNCHANGED active
  /\ UNCHANGED <<dooming, index, mass, linked, clients>>

-----------------------------------------------------------------------------
\* RunNextOperationIfNeeded.  When it returns with the call still there, it is
\* because a ScopedOperationRunner calls it again.  Reads and writes of stream
\* 0, of nothing and of prefetched data end at once.
\* Bound: one task of an entry at a time, and one that closes its files.

\* What the operation does to the entry e: see the ...Internal methods.
Post(e, op) ==
  [entry[e] EXCEPT !.state = "io",
     !.task = [NoTask EXCEPT !.op = op, !.file = entry[e].file,
                             !.restore = entry[e].state,
                             !.doomed = entry[e].doomed]]

\* CloseInternal, and CloseOperationComplete when no file is open.  An entry that
\* failed goes on while its files are being closed.
CloseInternal(e) ==
  IF entry[e].file # None
    THEN [entry[e] EXCEPT
            !.closing = [NoTask EXCEPT !.op = "close", !.file = entry[e].file],
            !.state = IF @ = "ready" THEN "io" ELSE @,
            !.file = None]
    ELSE [entry[e] EXCEPT !.state = "uninitialized"]

Execute(e, op) ==
  CASE op \in {"open", "open_hash"} ->
         IF entry[e].state = "uninitialized" THEN Post(e, op)
         ELSE IF entry[e].state = "ready"
           THEN [entry[e] EXCEPT !.open_count = @ + 1]
         ELSE entry[e]
    [] op \in {"create", "create_early"} ->
         IF entry[e].state = "uninitialized" THEN Post(e, op) ELSE entry[e]
    [] op \in {"read", "write", "write_omitted"} ->
         IF entry[e].state = "ready" THEN Post(e, op) ELSE entry[e]
    [] op = "close" -> CloseInternal(e)
    [] op = "doom" -> Post(e, op)

RunNextOperationIfNeeded ==
  LET e == Head(calls).entry
      op == Head(entry[e].pending)
      after == Execute(e, op)
      Posted(old, new) == old.task # new.task \/ old.closing # new.closing
  IN
  /\ Calling("run")
  /\ \/ /\ entry[e].pending # <<>> /\ entry[e].state # "io"
        /\ after.state = "io" => entry[e].task = NoTask
        /\ op = "close" /\ entry[e].file # None => entry[e].closing = NoTask
        /\ entry' = [entry EXCEPT ![e] = [after EXCEPT !.pending = Tail(@)]]
        /\ calls' = IF Posted(entry[e], after) THEN Tail(calls) ELSE calls
     \/ /\ entry[e].pending # <<>> /\ entry[e].state = "ready"
        /\ op \in {"read", "write"}
        /\ entry' = [entry EXCEPT ![e].pending = Tail(@)]
        /\ UNCHANGED calls
     \/ /\ entry[e].pending = <<>> \/ entry[e].state = "io"
        /\ calls' = Tail(calls)
        /\ UNCHANGED entry
  /\ UNCHANGED <<backend, linked, clients>>

\* OnDoomComplete: those who waited are called, in their order.
DoomComplete ==
  /\ Calling("doomed")
  /\ dooming' = NoDoom
  /\ calls' = (IF dooming = NoDoom THEN <<>> ELSE dooming) \o Tail(calls)
  /\ UNCHANGED <<entry, active, index, mass, opened, linked, clients>>

\* NotifyDoomBeforeCreateComplete.
NotifyDoomBeforeCreateComplete ==
  LET e == Head(calls).entry
  IN
  /\ Calling("notify")
  /\ IF entry[e].create = "pending_then_doom" THEN OnDoomStart
                                                    ELSE UNCHANGED dooming
  /\ entry' = [entry EXCEPT ![e].state = "uninitialized", ![e].create = "normal"]
  /\ calls' = <<Run(e)>> \o Tail(calls)
  /\ UNCHANGED <<active, index, mass, opened, linked, clients>>

\* The other waiters: the operation is called again.
RunWaiter ==
  /\ active = None \/ dooming = <<>> => HasFresh
  /\ LET rest == Tail(calls)
     IN  \/ Calling("open") /\ BackendOpenEntry(rest)
         \/ Calling("create") /\ BackendCreateEntry(rest)
         \/ Calling("doom") /\ BackendDoomEntry(rest)
         \/ Calling("doom_hash") /\ DoomEntryFromHash(index, rest)
         \/ Calling("open_hash") /\ OpenEntryFromHash(rest)
  /\ UNCHANGED <<linked, clients>>

-----------------------------------------------------------------------------
\* The clients.
Call ==
  /\ Ready
  /\ clients.left > 0
  /\ clients' = [clients EXCEPT !.left = @ - 1]
  /\ UNCHANGED linked

CallOpenEntry == Call /\ HasFresh /\ BackendOpenEntry(<<>>)
CallCreateEntry == Call /\ HasFresh /\ BackendCreateEntry(<<>>)
CallDoomEntry == Call /\ HasFresh /\ BackendDoomEntry(<<>>)

\* The eviction, or a call to doom entries by their age.
CallDoomEntries == Call /\ index /\ DoomEntryFromHash(FALSE, <<>>)

\* SimpleIterator: the index had the hash.
CallOpenNextEntry == Call /\ Iterate /\ index /\ HasFresh /\ OpenEntryFromHash(<<>>)

\* Somebody holds the entry.
Held(e) == entry[e].open_count > IF e \in opened THEN 1 ELSE 0

CallReadWrite(e, op) ==
  /\ Call /\ Held(e)
  /\ entry' = [entry EXCEPT ![e] = Push(e, op)]
  /\ calls' = <<Run(e)>>
  /\ UNCHANGED backend

CallDoom(e) ==
  /\ Call /\ Held(e) /\ ~ entry[e].doomed
  /\ DoomEntry(e, <<>>)
  /\ UNCHANGED <<mass, opened>>

\* Close: the last holder closes the files.
Close(e) ==
  /\ Ready /\ Held(e)
  /\ LET last == entry[e].open_count = 1
         after == IF last THEN Push(e, "close") ELSE entry[e]
     IN  /\ entry' = [entry EXCEPT ![e] = [after EXCEPT !.open_count = @ - 1]]
         /\ calls' = IF last THEN <<Run(e)>> ELSE <<>>
  /\ UNCHANGED <<backend, linked, clients>>

-----------------------------------------------------------------------------
\* The worker threads: SimpleSynchronousEntry.
FreshFile ==
  CHOOSE f \in File :
    /\ f # linked
    /\ \A e \in Entry : f \notin {entry[e].file, entry[e].task.file, entry[e].closing.file}

Done(e, result, file) ==
  entry' = [entry EXCEPT ![e].task.done = TRUE, ![e].task.result = result,
                         ![e].task.file = file]

\* OpenEntry, CreateEntry, ReadData, WriteData and DoomEntry.
WorkWell(e) ==
  LET t == entry[e].task
  IN
  \/ /\ t.op \in {"open", "open_hash"} /\ linked # None
     /\ Done(e, "ok", linked) /\ UNCHANGED linked
  \/ /\ t.op \in {"create", "create_early"} /\ linked = None
     /\ Done(e, "ok", FreshFile) /\ linked' = FreshFile
  \/ /\ t.op \in {"create", "create_early"} /\ linked # None
     /\ Done(e, "exists", None) /\ UNCHANGED linked
  \/ /\ t.op \in {"read", "write"}
     /\ Done(e, "ok", t.file) /\ UNCHANGED linked
  \/ /\ t.op = "write_omitted" /\ ~ t.doomed
     /\ Done(e, "ok", t.file) /\ UNCHANGED linked
  \/ /\ t.op = "doom"
     /\ Done(e, "ok", t.file) /\ linked' = None

\* What fails dooms the entry, by the name of its files.  A doomed entry does
\* not create the file of a stream that was omitted so far.
WorkBadly(e) ==
  LET t == entry[e].task
  IN
  \/ /\ t.op \in {"open", "open_hash"}
     /\ linked = None \/ "io" \in Faults
     /\ Done(e, "failed", None) /\ linked' = None
  \/ /\ t.op \in {"create", "create_early"} /\ "io" \in Faults
     /\ Done(e, "exists", None) /\ UNCHANGED linked
  \/ /\ t.op \in {"create", "create_early"} /\ linked = None /\ "io" \in Faults
     /\ Done(e, "failed", None) /\ linked' = None
  \/ /\ t.op \in {"read", "write", "write_omitted"} /\ "io" \in Faults
     /\ Done(e, "failed", t.file) /\ linked' = None
  \/ /\ t.op = "write_omitted" /\ t.doomed
     /\ Done(e, "failed", t.file) /\ UNCHANGED linked

\* Close, which dooms the files if it cannot write to them.
WorkClose(e) ==
  /\ entry' = [entry EXCEPT ![e].closing.done = TRUE]
  /\ \/ UNCHANGED linked
     \/ "io" \in Faults /\ linked' = None

Work(e) ==
  /\ \/ /\ entry[e].task.op # "none" /\ ~ entry[e].task.done
        /\ WorkWell(e) \/ WorkBadly(e)
     \/ /\ entry[e].closing.op # "none" /\ ~ entry[e].closing.done
        /\ WorkClose(e)
  /\ UNCHANGED <<backend, calls, clients>>

\* DoomEntrySet and DoomEntriesComplete.
WorkMass ==
  /\ mass = "posted"
  /\ mass' = "done"
  /\ linked' = None
  /\ UNCHANGED <<entry, active, dooming, index, opened, calls, clients>>

DoomEntriesComplete ==
  /\ Ready /\ mass = "done"
  /\ mass' = "none"
  /\ calls' = <<OnDoomComplete>>
  /\ UNCHANGED <<entry, active, dooming, index, opened, linked, clients>>

\* The reply of a task of e.
Reply(e, ops) ==
  /\ Ready
  /\ entry[e].task.done /\ entry[e].task.op \in ops
  /\ UNCHANGED <<dooming, mass, linked, clients>>

CreationOperationComplete(e) ==
  LET t == entry[e].task
      e0 == [entry[e] EXCEPT !.task = NoTask]
  IN
  /\ Reply(e, {"open", "open_hash", "create", "create_early"})
  /\ calls' = <<Run(e)>>
  /\ \/ /\ t.result = "ok"
        /\ entry' = [entry EXCEPT ![e] = [e0 EXCEPT
                        !.state = "ready", !.file = t.file,
                        !.open_count = IF t.op = "create_early" THEN @ ELSE @ + 1]]
        /\ opened' = IF t.op = "open_hash" THEN opened \cup {e} ELSE opened
        /\ UNCHANGED <<active, index>>
     \/ /\ t.result = "exists"
        /\ entry' = [entry EXCEPT ![e] = [e0 EXCEPT !.state = "uninitialized"]]
        /\ UNCHANGED <<active, index, opened>>
     \/ /\ t.result = "failed"
        /\ entry' = [entry EXCEPT ![e] = [e0 EXCEPT !.state = "uninitialized",
                                                    !.doomed = TRUE]]
        /\ MarkAsDoomed(e)
        /\ UNCHANGED opened

\* Mutant of EntryOperationComplete: after a failure it goes on.
EntryOperationCompleteAnyway(e) ==
  /\ Reply(e, {"read", "write", "write_omitted"})
  /\ calls' = <<>>
  /\ entry' = [entry EXCEPT ![e] = [@ EXCEPT !.task = NoTask, !.state = "ready"]]
  /\ UNCHANGED <<active, index>>
  /\ UNCHANGED opened

EntryOperationComplete(e) ==
  LET t == entry[e].task
      e0 == [entry[e] EXCEPT !.task = NoTask]
  IN
  /\ Reply(e, {"read", "write", "write_omitted"})
  /\ calls' = <<Run(e)>>
  /\ \/ /\ t.result = "ok"
        /\ entry' = [entry EXCEPT ![e] = [e0 EXCEPT !.state = "ready"]]
        /\ UNCHANGED <<active, index>>
     \/ /\ t.result = "failed"
        /\ entry' = [entry EXCEPT ![e] = [e0 EXCEPT !.state = "failure",
                                                    !.doomed = TRUE]]
        /\ MarkAsDoomed(e)
  /\ UNCHANGED opened

CloseOperationComplete(e) ==
  /\ Ready
  /\ entry[e].closing.done
  /\ calls' = <<Run(e)>>
  /\ entry' = [entry EXCEPT ![e] = [@ EXCEPT !.closing = NoTask,
                                             !.state = "uninitialized"]]
  /\ UNCHANGED <<backend, linked, clients>>

DoomOperationComplete(e) ==
  /\ Reply(e, {"doom"})
  /\ calls' = <<Run(e), OnDoomComplete>>
  /\ entry' = [entry EXCEPT ![e] = [@ EXCEPT !.task = NoTask,
                                             !.state = entry[e].task.restore]]
  /\ UNCHANGED <<active, index, opened>>

-----------------------------------------------------------------------------
IOThread ==
  \/ RunNextOperationIfNeeded \/ DoomComplete \/ NotifyDoomBeforeCreateComplete
  \/ RunWaiter \/ DoomEntriesComplete
  \/ \E e \in Entry :
       \/ Destroy(e) \/ OnEntryOpenedFromHash(e)
       \/ CreationOperationComplete(e) \/ EntryOperationComplete(e)
       \/ CloseOperationComplete(e) \/ DoomOperationComplete(e)

Workers == WorkMass \/ \E e \in Entry : Work(e)

Clients ==
  \/ CallOpenEntry \/ CallCreateEntry \/ CallDoomEntry \/ CallDoomEntries
  \/ CallOpenNextEntry
  \/ \E e \in Entry :
       \/ CallReadWrite(e, "read") \/ CallReadWrite(e, "write")
       \/ "lazy" \in Faults /\ CallReadWrite(e, "write_omitted")
       \/ CallDoom(e) \/ Close(e)

Next == IOThread \/ Workers \/ Clients

Spec == Init /\ [][Next]_vars

\* The threads go on with their work; nothing is assumed of the clients.
FairSpec ==
  Spec /\ WF_vars(IOThread) /\ WF_vars(WorkMass) /\ \A e \in Entry : WF_vars(Work(e))

-----------------------------------------------------------------------------
Operation == {"open", "open_hash", "create", "create_early", "read", "write",
              "write_omitted", "close", "doom"}
States == {"unused", "uninitialized", "ready", "io", "failure"}

\* Type invariant.
TypeOK ==
  /\ \A e \in Entry :
       /\ entry[e].state \in States
       /\ \A i \in DOMAIN entry[e].pending : entry[e].pending[i] \in Operation
       /\ entry[e].create \in {"normal", "pending_doom", "pending_then_doom"}
       /\ entry[e].open_count \in Nat
       /\ entry[e].file \in File \cup {None}
       /\ entry[e].task.op \in (Operation \ {"close"}) \cup {"none"}
       /\ entry[e].closing.op \in {"close", "none"}
  /\ active \in Entry \cup {None}
  /\ index \in BOOLEAN
  /\ mass \in {"none", "posted", "done"}
  /\ opened \subseteq Entry
  /\ linked \in File \cup {None}
  /\ clients.left \in 0 .. clients.scenario.calls

\* The DCHECKs of the destructor: an entry nobody refers to has closed its
\* files and is not in the middle of anything.  If nothing fails it is not ready
\* either: an entry that failed goes on while its files are being closed, is
\* opened again, and a doom that ends late brings STATE_READY back.
DestroyedWhenDone ==
  \A e \in Entry : Unreferenced(e) =>
    /\ entry[e].file = None /\ entry[e].state # "io"
    /\ Faults = {} => entry[e].state # "ready"

\* CloseOperationComplete: DCHECK_EQ(0, open_count_).  An open that was queued
\* before the last holder called Close runs before the files are closed.
\* Stated, and not true of the code: README, section 5.
ClosedWhenUnheld ==
  \A e \in Entry : entry[e].closing.op = "close" => entry[e].open_count = 0

\* The dooms under way: those queued or running in an entry, the doom of files
\* not in use, and the call of OnDoomComplete that follows either.
Count(set) == Cardinality(set)
DoomsUnderWay ==
    Count({e \in Entry : /\ entry[e].create = "normal"
                         /\ \/ entry[e].task.op = "doom"
                            \/ \E i \in DOMAIN entry[e].pending :
                                 entry[e].pending[i] = "doom"})
  + Count({i \in DOMAIN calls : calls[i] = OnDoomComplete})
  + (IF mass = "none" THEN 0 ELSE 1)

\* The DCHECKs of OnDoomStart and OnDoomComplete: the backend knows of a pending
\* doom exactly while there is one, and there is never a second one, as long as
\* nobody iterates: OnEntryOpenedFromHash does not ask for pending dooms.
DoomsAreTracked == ~ Iterate => DoomsUnderWay = IF dooming = NoDoom THEN 0 ELSE 1

\* An entry that a client holds and that is not doomed is the one that the
\* backend finds: others who open the hash get that same entry.  So it is unless
\* clients iterate and operations are optimistic: CreateEntry then finds another
\* active entry where its DCHECK(insert_result.second) expects none.
HeldEntriesAreFound ==
  ~ (Iterate /\ Optimistic) =>
    \A e \in Entry : Held(e) /\ ~ entry[e].doomed => active = e

\* The files an entry works on.
Files(e) == {entry[e].file, entry[e].task.file, entry[e].closing.file} \ {None}

\* No two entries work on the same file, a doomed one and its successor of the
\* same name among them, as long as no create fails and nobody iterates: an open
\* queued behind a failed create finds the files of the successor.
FilesAreNotShared ==
  "io" \notin Faults /\ ~ Iterate =>
    \A e, f \in Entry : e # f => Files(e) \cap Files(f) = {}

\* Nothing is under way.
Quiet ==
  /\ calls = <<>> /\ mass = "none" /\ opened = {} /\ dooming = NoDoom
  /\ \A e \in Entry : /\ entry[e].task = NoTask /\ entry[e].closing = NoTask
                       /\ entry[e].pending = <<>>

\* CreateEntry: "this way we never leak files": when nothing is under way, the
\* index knows the files there are, if no operation of a doomed entry failed (which
\* removes the hash from the index) and nobody iterates.
NoFilesLeaked == Faults = {} /\ ~ Iterate /\ Quiet /\ linked # None => index

\* The backend and its entries agree: holders have the entry that the backend
\* finds, and an entry that is destroyed has nothing left to do.
EntriesAreConsistent == TypeOK /\ DestroyedWhenDone /\ HeldEntriesAreFound

\* A file belongs to one entry at a time, and is not forgotten.
FilesAreSafe == FilesAreNotShared /\ NoFilesLeaked

\* What was called gets done: once the clients make no more calls, every entry's
\* queue drains, also behind a doom of an earlier entry, and whoever waits for a
\* doom is called.
OperationsRun == ~ Quiet ~> Quiet

=============================================================================
