------------------------------ MODULE Rankings ------------------------------
(***************************************************************************)
(* disk_cache/blockfile/rankings.{h,cc}: the LRU lists of the block-file   *)
(* cache.  Nodes are doubly linked on disk; the ends of each list and the  *)
(* record of the transaction under way are in the header of the index      *)
(* file, which is mapped into memory.  What the process wrote before it    *)
(* crashes stays written, in the order of the program.                     *)
(*                                                                         *)
(* The control flow of an operation depends only on the state in which it  *)
(* starts, so an operation is the sequence of the writes it makes (todo).  *)
(* Write does one of them, and Crash forgets the rest.  Between operations *)
(* heads_ and tails_ and the nodes of open entries have the values on disk.*)
(***************************************************************************)
EXTENDS Integers, Sequences, FiniteSets

CONSTANTS
  Node,             \* the nodes, by their address
  NumLists,         \* LAST_ELEMENT
  None,             \* the address 0
  MaxCrashes,       \* bound: how often the process crashes
  CrashInRecovery   \* whether it may crash while Init repairs a list

List == 0 .. NumLists - 1

ASSUME RankingsAssumption ==
  /\ NumLists \in Nat \ {0}
  /\ IsFiniteSet(Node)
  /\ None \notin Node
  /\ MaxCrashes \in Nat
  /\ CrashInRecovery \in BOOLEAN

VARIABLES
  \* LruData, in the header of the index
  heads, tails, sizes,
  transaction, operation, operation_list,
  \* RankingsNode, per node
  next, prev,
  \* the process
  mode,       \* "down", "recovering" or "up"
  todo,       \* the writes left of the operation under way
  reinsert,   \* None, or the node and the list of the Insert to come
  disabled,   \* CriticalError was called
  crashes

control == <<heads, tails, sizes, transaction, operation, operation_list>>
nodes == <<next, prev>>
vars == <<control, nodes, mode, todo, reinsert, disabled, crashes>>

-----------------------------------------------------------------------------
\* Writes: of a member of LruData, at a list or not, and of a whole node.
Set(field, at, to) == [field |-> field, at |-> at, to |-> to, back |-> None]
StoreNode(n, next_addr, prev_addr) ==
  [field |-> "node", at |-> n, to |-> next_addr, back |-> prev_addr]

\* The constructor and the destructor of Transaction.  The record counts only
\* while transaction is set, so that is set last and cleared first.
BeginTransaction(n, op, l) ==
  <<Set("operation", None, op), Set("operation_list", None, l),
    Set("transaction", None, n)>>
EndTransaction ==
  <<Set("transaction", None, None), Set("operation", None, "none"),
    Set("operation_list", None, 0)>>

\* The nodes of a list as a reader of the disk finds them: from the head along
\* next, up to a node whose next is itself.
Onward(s) ==
  LET last == s[Len(s)]
  IN  IF next[last] \in {last, None} THEN s ELSE Append(s, next[last])
Walk(n) ==
  LET path[k \in 1 .. Cardinality(Node)] ==
        IF k = 1 THEN <<n>> ELSE Onward(path[k - 1])
  IN  path
Path(n) == Walk(n)[Cardinality(Node)]

OnDisk(l) == IF heads[l] = None THEN <<>> ELSE Path(heads[l])

Elements(s) == {s[i] : i \in DOMAIN s}

IsHead(n) == \E l \in List : heads[l] = n
IsTail(n) == \E l \in List : tails[l] = n

\* SanityCheck, for a node that should be in a list.
SanityCheck(n) ==
  /\ next[n] # None /\ prev[n] # None
  /\ prev[n] = n => IsHead(n)
  /\ next[n] = n => IsTail(n)

\* The node that Insert finds at the head is linked as it should be, or to the
\* node that FinishInsert inserts again.
HeadIsValid(n, l) ==
  heads[l] # None => SanityCheck(heads[l]) /\ prev[heads[l]] \in {heads[l], n}

\* Mutant of InsertWrites: the head is moved before the node is stored.
InsertWritesHeadFirst(n, l) ==
  LET head == heads[l]
      only == tails[l] \in {None, n}
  IN  (IF head = None THEN <<>> ELSE <<StoreNode(head, next[head], n)>>)
      \o <<Set("heads", l, n)>>
      \o (IF only THEN <<Set("tails", l, n)>> ELSE <<>>)
      \o <<StoreNode(n, IF only THEN n ELSE head, n), Set("sizes", l, 1)>>

\* Mutant of InsertWrites: only nodes put in front of another are counted.
InsertWritesUncounted(n, l) ==
  LET head == heads[l]
      only == tails[l] \in {None, n}
  IN  (IF head = None THEN <<>> ELSE <<StoreNode(head, next[head], n)>>)
      \o (IF only THEN <<Set("tails", l, n)>> ELSE <<>>)
      \o <<StoreNode(n, IF only THEN n ELSE head, n), Set("heads", l, n)>>
      \o (IF only THEN <<>> ELSE <<Set("sizes", l, 1)>>)

\* What Insert writes within its transaction.
InsertWrites(n, l) ==
  LET head == heads[l]
      only == tails[l] \in {None, n}
  IN  (IF head = None THEN <<>> ELSE <<StoreNode(head, next[head], n)>>)
      \o (IF only THEN <<Set("tails", l, n)>> ELSE <<>>)
      \o <<StoreNode(n, IF only THEN n ELSE head, n),
           Set("heads", l, n), Set("sizes", l, 1)>>

\* The list that Remove works on: CheckLinks corrects it for the ends.
ListOf(n, l) ==
  IF next[prev[n]] # n /\ IsHead(n)
    THEN CHOOSE x \in List : heads[x] = n
  ELSE IF prev[next[n]] # n /\ IsTail(n)
    THEN CHOOSE x \in List : tails[x] = n
  ELSE l

\* CheckLinks: a regular node, or one end of the list.
LinksAreValid(n) ==
  LET from == next[prev[n]] = n
      back == prev[next[n]] = n
  IN  \/ from /\ back
      \/ from /\ IsTail(n)
      \/ back /\ IsHead(n)

\* CheckLinks: the list is right and the node is wrong.
OutOfList(n) ==
  /\ n # prev[n] /\ n # next[n]
  /\ next[prev[n]] = next[n] /\ prev[next[n]] = prev[n]

\* Mutant of RemoveWrites: the node is stored before its neighbours.
RemoveWritesNodeFirst(n, l, shared) ==
  LET x == next[n]
      p == prev[n]
      head == heads[l] = n
      tail == tails[l] = n
      NextPrev == IF head THEN x ELSE p
      PrevNext == IF tail THEN p ELSE x
  IN  (IF head /\ tail THEN <<Set("heads", l, None), Set("tails", l, None)>>
       ELSE IF head THEN <<Set("heads", l, x)>>
       ELSE IF tail THEN <<Set("tails", l, p), StoreNode(p, p, prev[p])>>
       ELSE <<>>)
      \o <<StoreNode(n, None, None)>>
      \o (IF x = n THEN <<>> ELSE <<StoreNode(x, next[x], NextPrev)>>)
      \o (IF p = n THEN <<>> ELSE <<StoreNode(p, PrevNext, prev[p])>>)
      \o <<Set("sizes", l, -1)>>

\* What Remove writes within its transaction.  At an end of the list next or
\* prev is a second block for the node itself; it has the node's own data if
\* the entry is open (shared), and a copy from before otherwise.
RemoveWrites(n, l, shared) ==
  LET x == next[n]
      p == prev[n]
      head == heads[l] = n
      tail == tails[l] = n
      Itself(next_addr, prev_addr) ==
        IF shared THEN StoreNode(n, None, None)
                  ELSE StoreNode(n, next_addr, prev_addr)
  IN  (IF head /\ tail THEN <<Set("heads", l, None), Set("tails", l, None)>>
       ELSE IF head THEN <<Set("heads", l, x)>>
       ELSE IF tail THEN <<Set("tails", l, p), StoreNode(p, p, prev[p])>>
       ELSE <<>>)
      \o <<IF x = n THEN Itself(n, p)
                    ELSE StoreNode(x, next[x], IF head THEN x ELSE p),
           IF p = n THEN Itself(x, n)
                    ELSE StoreNode(p, IF tail THEN p ELSE x, prev[p]),
           StoreNode(n, None, None), Set("sizes", l, -1)>>

-----------------------------------------------------------------------------
\* A new, empty cache.
Init ==
  /\ heads = [l \in List |-> None]
  /\ tails = [l \in List |-> None]
  /\ sizes = [l \in List |-> 0]
  /\ transaction = None /\ operation = "none" /\ operation_list = 0
  /\ next = [n \in Node |-> None]
  /\ prev = [n \in Node |-> None]
  /\ mode = "up"
  /\ todo = <<>>
  /\ reinsert = None
  /\ disabled = FALSE
  /\ crashes = 0

\* Nothing is under way.
Idle == mode = "up" /\ todo = <<>> /\ reinsert = None /\ ~ disabled

CriticalError ==
  /\ disabled' = TRUE
  /\ todo' = <<>>

\* The writes that an Insert starts, or the error it runs into.
StartInsert(n, l) ==
  \/ /\ HeadIsValid(n, l)
     /\ todo' = BeginTransaction(n, "insert", l) \o InsertWrites(n, l)
                  \o EndTransaction
     /\ UNCHANGED disabled
  \/ ~ HeadIsValid(n, l) /\ CriticalError

\* Insert of a node that is in no list.
Insert(n, l) ==
  /\ Idle
  /\ next[n] = None /\ prev[n] = None
  /\ StartInsert(n, l)
  /\ UNCHANGED <<control, nodes, mode, reinsert, crashes>>

\* The writes that a Remove starts.
StartRemove(n, l) ==
  \/ /\ SanityCheck(next[n]) /\ SanityCheck(prev[n])
     /\ \/ /\ LinksAreValid(n)
           /\ \E shared \in BOOLEAN :
                todo' = BeginTransaction(n, "remove", ListOf(n, l))
                          \o RemoveWrites(n, ListOf(n, l), shared)
                          \o EndTransaction
        \/ /\ ~ LinksAreValid(n) /\ OutOfList(n)
           /\ todo' = <<StoreNode(n, None, None)>>
     /\ UNCHANGED disabled
  \/ /\ \/ ~ (SanityCheck(next[n]) /\ SanityCheck(prev[n]))
        \/ ~ LinksAreValid(n) /\ ~ OutOfList(n)
     /\ CriticalError

\* Remove of a node that is in the list l, as the state of its entry says.
Remove(n, l) ==
  /\ Idle
  /\ n \in Elements(OnDisk(l))
  /\ next[n] # None /\ prev[n] # None
  /\ StartRemove(n, l)
  /\ UNCHANGED <<control, nodes, mode, reinsert, crashes>>

\* UpdateRank, and the moves of an entry from one list to another: a Remove
\* and an Insert, each with its transaction.
UpdateRank(n, l, to) ==
  /\ Idle
  /\ n \in Elements(OnDisk(l))
  /\ next[n] # None /\ prev[n] # None
  /\ heads[to] # n
  /\ StartRemove(n, l)
  /\ reinsert' = <<n, to>>
  /\ UNCHANGED <<control, nodes, mode, crashes>>

Reinsert ==
  /\ mode = "up" /\ todo = <<>> /\ reinsert # None /\ ~ disabled
  /\ StartInsert(reinsert[1], reinsert[2])
  /\ reinsert' = None
  /\ UNCHANGED <<control, nodes, mode, crashes>>

\* IncrementCounter and DecrementCounter.
Counted(size, change) == IF size + change >= 0 THEN size + change ELSE size

\* The next write gets to disk.
Write ==
  LET w == Head(todo)
      Update(f, field) == IF w.field = field THEN [f EXCEPT ![w.at] = w.to] ELSE f
      Assign(v, field) == IF w.field = field THEN w.to ELSE v
  IN
  /\ todo # <<>>
  /\ todo' = Tail(todo)
  /\ heads' = Update(heads, "heads")
  /\ tails' = Update(tails, "tails")
  /\ sizes' = IF w.field = "sizes" THEN [sizes EXCEPT ![w.at] = Counted(@, w.to)]
                                   ELSE sizes
  /\ transaction' = Assign(transaction, "transaction")
  /\ operation' = Assign(operation, "operation")
  /\ operation_list' = Assign(operation_list, "operation_list")
  /\ next' = Update(next, "node")
  /\ prev' = IF w.field = "node" THEN [prev EXCEPT ![w.at] = w.back] ELSE prev
  /\ UNCHANGED <<mode, reinsert, disabled, crashes>>

-----------------------------------------------------------------------------
\* The process dies; what it had not written is lost.
Crash ==
  /\ mode = "up" \/ (mode = "recovering" /\ CrashInRecovery)
  /\ ~ disabled
  /\ crashes < MaxCrashes
  /\ crashes' = crashes + 1
  /\ mode' = "down"
  /\ todo' = <<>>
  /\ reinsert' = None
  /\ UNCHANGED <<control, nodes, disabled>>

\* Mutant of FinishInsert: it does nothing but clear the transaction.
ForgetInsert ==
  /\ todo' = EndTransaction
  /\ UNCHANGED disabled

\* FinishInsert: the insertion is done again, with a transaction of its own,
\* unless the head had been written.
FinishInsert ==
  LET n == transaction
      l == operation_list
      clear == <<Set("transaction", None, None), Set("operation", None, "none")>>
  IN
  \/ /\ heads[l] # n /\ HeadIsValid(n, l)
     /\ todo' = clear \o BeginTransaction(n, "insert", l) \o InsertWrites(n, l)
                  \o EndTransaction
     /\ UNCHANGED disabled
  \/ heads[l] # n /\ ~ HeadIsValid(n, l) /\ CriticalError
  \/ /\ heads[l] = n
     /\ todo' = clear
     /\ UNCHANGED disabled

\* What RevertRemove writes before it clears the transaction.
RevertWrites(n, l) ==
  LET x == next[n]
      p == prev[n]
      empty == heads[l] = None \/ tails[l] = None
      atHead == ~ empty /\ heads[l] = x
      atTail == ~ empty /\ ~ atHead /\ tails[l] = p
  IN  (IF empty THEN <<Set("heads", l, n), Set("tails", l, n)>>
       ELSE IF atHead THEN <<Set("heads", l, n)>>
       ELSE IF atTail THEN <<Set("tails", l, n)>>
       ELSE <<>>)
      \o <<StoreNode(x, next[x], IF atTail THEN p
                                 ELSE IF n = x THEN prev[x] ELSE n),
           StoreNode(p, IF atHead THEN x
                        ELSE IF n = p THEN next[p] ELSE n, prev[p])>>

\* RevertRemove: the node is linked again, unless its links are gone, which is
\* the last thing that Remove writes to it.
RevertRemove ==
  LET n == transaction
      l == operation_list
      clear == <<Set("transaction", None, None)>>
  IN
  /\ todo' = IF next[n] = None \/ prev[n] = None
               THEN clear
               ELSE RevertWrites(n, l) \o clear \o <<Set("operation", None, "none")>>
  /\ UNCHANGED disabled

\* Init of the restarted process, with CompleteTransaction.
Restart ==
  /\ mode = "down"
  /\ mode' = "recovering"
  /\ \/ transaction # None /\ operation = "insert" /\ FinishInsert
     \/ transaction # None /\ operation = "remove" /\ RevertRemove
     \/ transaction = None /\ UNCHANGED <<todo, disabled>>
  /\ UNCHANGED <<control, nodes, reinsert, crashes>>

\* The end of Init.
Recovered ==
  /\ mode = "recovering" /\ todo = <<>> /\ ~ disabled
  /\ mode' = "up"
  /\ UNCHANGED <<control, nodes, todo, reinsert, disabled, crashes>>

Next ==
  \/ \E n \in Node, l \in List : Insert(n, l) \/ Remove(n, l)
  \/ \E n \in Node, l, to \in List : UpdateRank(n, l, to)
  \/ Reinsert
  \/ Write
  \/ Crash
  \/ Restart
  \/ Recovered

Spec == Init /\ [][Next]_vars

-----------------------------------------------------------------------------
Address == Node \cup {None}

\* Type invariant: addresses, list numbers and counters stay within LruData's
\* and RankingsNode's fields.
TypeOK ==
  /\ heads \in [List -> Address] /\ tails \in [List -> Address]
  /\ sizes \in [List -> 0 .. Cardinality(Node) + MaxCrashes]
  /\ transaction \in Address
  /\ operation \in {"none", "insert", "remove"}
  /\ operation_list \in List
  /\ next \in [Node -> Address] /\ prev \in [Node -> Address]
  /\ mode \in {"down", "recovering", "up"}
  /\ reinsert = None \/ reinsert \in Node \X List
  /\ disabled \in BOOLEAN
  /\ crashes \in 0 .. MaxCrashes
  /\ \A i \in DOMAIN todo :
       todo[i].field \in {"operation", "operation_list", "transaction", "heads",
                          "tails", "sizes", "node"}

\* Whenever no operation is under way, whatever crashes came before, the disk
\* holds proper lists (what CheckList would verify): next and prev are each
\* other's inverse, the ends point to themselves, tails_ is where the walk
\* from heads_ ends, no node is in two lists, and the links of a node that is
\* in none are 0.
ListsAreWellFormed ==
  Idle =>
    /\ \A l \in List :
         LET s == OnDisk(l)
         IN  /\ s = <<>> <=> tails[l] = None
             /\ s # <<>> =>
                  /\ prev[s[1]] = s[1]
                  /\ s[Len(s)] = tails[l] /\ next[tails[l]] = tails[l]
                  /\ \A i \in 1 .. Len(s) - 1 : prev[s[i + 1]] = s[i]
                  /\ \A i, j \in DOMAIN s : s[i] = s[j] => i = j
    /\ \A l, m \in List :
         l # m => Elements(OnDisk(l)) \cap Elements(OnDisk(m)) = {}
    /\ \A n \in Node :
         (\A l \in List : n \notin Elements(OnDisk(l)))
            => next[n] = None /\ prev[n] = None

\* The links that Insert, Remove and Init find are always ones they accept:
\* CriticalError, which throws the whole cache away, is never called.
NeverCritical == ~ disabled

\* The DCHECKs of RevertRemove: what a crashed Remove left behind is one of the
\* states listed above Rankings::Remove.
RevertFindsKnownState ==
  LET n == transaction
      x == next[n]
      p == prev[n]
  IN  (/\ mode = "down" /\ n # None /\ operation = "remove"
       /\ x # None /\ p # None)
        => next[p] \in {n, p, x} /\ prev[x] \in {n, x, p}

\* Operations and recovery find on disk only what they know how to read.
DiskIsUnderstood == TypeOK /\ NeverCritical /\ RevertFindsKnownState

\* The counter of a list, which is updated apart from its links, is off by at
\* most one for every crash.
CountersDriftByCrashes ==
  Idle => \A l \in List :
            LET d == sizes[l] - Len(OnDisk(l)) IN d <= crashes /\ - d <= crashes

\* The DCHECK of DecrementCounter: the list that a node is taken from has a
\* positive count.
\* Stated, and not true of the code: README, section 5.
CounterIsPositive ==
  todo # <<>> /\ Head(todo).field = "sizes" /\ Head(todo).to = -1
    => sizes[Head(todo).at] > 0

\* The node and the operation that the transaction record, or the part of Init
\* that has still to write it, commits to.
Again == {i \in DOMAIN todo : todo[i].field = "transaction" /\ todo[i].to # None}
Committed ==
  IF transaction # None THEN transaction
  ELSE IF mode = "recovering" /\ Again # {} THEN todo[CHOOSE i \in Again : TRUE].to
  ELSE None

\* The lists as the abstract specification sees them.  An insertion happens
\* when its record is written, a removal when the links of its node are gone.
Lists ==
  [l \in List |->
    LET n == Committed
        s == OnDisk(l)
        at == {i \in DOMAIN s : s[i] = next[n]}
        before == CHOOSE i \in at : TRUE
    IN
    IF n = None \/ operation_list # l THEN s
    ELSE IF n \in Elements(s) THEN s
    ELSE IF operation # "remove" THEN <<n>> \o s
    ELSE IF next[n] = None THEN s
    ELSE IF next[n] = n THEN Append(s, n)
    ELSE SubSeq(s, 1, before - 1) \o <<n>> \o SubSeq(s, before, Len(s))]

Lru == INSTANCE LruLists WITH lists <- Lists

\* Refinement: seen through the record, every insertion and every removal
\* happens at once or not at all, crashes and recoveries included.
OperationsAreAtomic == Lru!Spec

=============================================================================
