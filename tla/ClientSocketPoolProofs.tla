----------------------- MODULE ClientSocketPoolProofs -----------------------
(***************************************************************************)
(* What ClientSocketPool keeps for any groups, handles, limits and bounds: *)
(* where its connections are, of which generation they are, and that a     *)
(* backup job timer has a job.  Each action either lets connections go     *)
(* away (Shrunk), moves one to a new place (Placed), or flushes the pool.  *)
(* Then the books of the pool.                                             *)
(***************************************************************************)
EXTENDS ClientSocketPool, PriorityQueueProofs, FiniteSetTheorems

\* The pool never gives a handle the id of a generation that is yet to come,
\* and a handle that has no socket has no id.
IdsNotNewer ==
  \A h \in Handle : /\ pool_id[h] <= pool_generation_number
                    /\ socket[h] = None => pool_id[h] = -1

\* The variables that say where connections are.
ConnTypes ==
  /\ jobs \in [Group -> SUBSET Conn]
  /\ idle_sockets \in [Group -> SUBSET Conn]
  /\ socket \in [Handle -> Conn \union {None}]
  /\ pool_id \in [Handle -> Int]
  /\ born \in [Conn -> Nat]
  /\ pool_generation_number \in Nat

ConnInv ==
  /\ ConnTypes
  /\ IdsNotNewer
  /\ SocketInOnePlace
  /\ OnlyCurrentGeneration

\* A handle that a step leaves alone, or that forgets its socket.
Spared(k) ==
  \/ socket'[k] = socket[k] /\ pool_id'[k] = pool_id[k]
  \/ socket'[k] = None /\ pool_id'[k] = -1

\* A step in which connections only go away.
Shrunk ==
  /\ pool_generation_number' = pool_generation_number
  /\ born' = born
  /\ \A x \in Group : /\ jobs'[x] \subseteq jobs[x]
                      /\ idle_sockets'[x] \subseteq idle_sockets[x]
  /\ \A k \in Handle : Spared(k)

\* A connection that may be given to a request: it is new, or it is the
\* pool's, or a handle of the current generation returns it.
MayBePlaced(c) ==
  \/ c \in UnusedConn /\ born' = [born EXCEPT ![c] = pool_generation_number]
  \/ /\ \/ \E x \in Group : c \in jobs[x] \union idle_sockets[x]
        \/ \E k \in Handle :
             socket[k] = c /\ pool_id[k] = pool_generation_number
     /\ born' = born

\* A step that puts the connection c among the jobs of J, among the idle
\* sockets of I or into the handle H, and lets other connections go away.
Placed(c, J, I, H) ==
  /\ pool_generation_number' = pool_generation_number
  /\ MayBePlaced(c)
  /\ J # None => I = None /\ H = None
  /\ I # None => H = None
  /\ \A x \in Group :
       /\ jobs'[x] \subseteq (jobs[x] \ {c}) \union (IF x = J THEN {c} ELSE {})
       /\ idle_sockets'[x] \subseteq
            (idle_sockets[x] \ {c}) \union (IF x = I THEN {c} ELSE {})
  /\ \A k \in Handle :
       \/ Spared(k) /\ socket'[k] # c
       \/ /\ k = H
          /\ socket'[k] = c /\ pool_id'[k] = pool_generation_number

-----------------------------------------------------------------------------
\* SocketInOnePlace, connection by connection.
LEMMA OnePlaceElim ==
  ASSUME ConnTypes, SocketInOnePlace
  PROVE  /\ \A g, x \in Group : \A c :
              c \in idle_sockets[g] \union jobs[g]
                /\ c \in idle_sockets[x] \union jobs[x] => g = x
         /\ \A g \in Group : \A c : ~ (c \in idle_sockets[g] /\ c \in jobs[g])
         /\ \A g \in Group : \A k \in Handle :
              socket[k] # None => socket[k] \notin idle_sockets[g] \union jobs[g]
         /\ \A h, k \in Handle : socket[h] # None /\ socket[h] = socket[k] => h = k
<1>1. \A c, g : g \in Group /\ c \in idle_sockets[g] => c \in AllIdle
  BY DEF AllIdle
<1>2. \A c, g : g \in Group /\ c \in jobs[g] => c \in AllJobs
  BY DEF AllJobs
<1>3. \A k \in Handle : socket[k] # None => socket[k] \in HandedOut
  BY DEF HandedOut
<1>4. ASSUME NEW c, NEW g \in Group, NEW x \in Group,
             c \in idle_sockets[g] \union jobs[g],
             c \in idle_sockets[x] \union jobs[x]
      PROVE  g = x
  <2>1. g # x => (idle_sockets[g] \union jobs[g]) \intersect
                   (idle_sockets[x] \union jobs[x]) = {}
    BY DEF SocketInOnePlace
  <2> QED BY <2>1, <1>4
<1>5. ASSUME NEW c, NEW g \in Group PROVE ~ (c \in idle_sockets[g] /\ c \in jobs[g])
  <2>1. idle_sockets[g] \intersect jobs[g] = {}
    BY DEF SocketInOnePlace
  <2> QED BY <2>1
<1>6. ASSUME NEW g \in Group, NEW k \in Handle, socket[k] # None
      PROVE  socket[k] \notin idle_sockets[g] \union jobs[g]
  <2>1. HandedOut \intersect (AllIdle \union AllJobs) = {}
    BY DEF SocketInOnePlace
  <2>2. socket[k] \in HandedOut
    BY <1>3, <1>6
  <2> QED BY <1>1, <1>2, <2>1, <2>2
<1>7. \A h, k \in Handle : socket[h] # None /\ socket[h] = socket[k] => h = k
  BY DEF SocketInOnePlace
<1> QED
  BY <1>4, <1>5, <1>6, <1>7, Zenon

\* The connections in use, one by one.
LEMMA UnusedElim ==
  ASSUME ConnTypes, NEW c \in UnusedConn
  PROVE  /\ c \in Conn
         /\ \A g \in Group : c \notin idle_sockets[g] \union jobs[g]
         /\ \A k \in Handle : socket[k] # c
<1>1. \A g : g \in Group /\ c \in idle_sockets[g] => c \in AllIdle
  BY DEF AllIdle
<1>2. \A g : g \in Group /\ c \in jobs[g] => c \in AllJobs
  BY DEF AllJobs
<1>3. \A k \in Handle : socket[k] # None => socket[k] \in HandedOut
  BY DEF HandedOut
<1>4. c # None
  BY ConstantsAssumption DEF UnusedConn
<1> QED
  BY <1>1, <1>2, <1>3, <1>4 DEF UnusedConn

\* The other way round, for the state after a step.
LEMMA OnePlaceIntro ==
  ASSUME ConnTypes',
         \A g, x \in Group : \A c :
           c \in idle_sockets'[g] \union jobs'[g]
             /\ c \in idle_sockets'[x] \union jobs'[x] => g = x,
         \A g \in Group : \A c : ~ (c \in idle_sockets'[g] /\ c \in jobs'[g]),
         \A g \in Group : \A k \in Handle :
           socket'[k] # None => socket'[k] \notin idle_sockets'[g] \union jobs'[g],
         \A h, k \in Handle : socket'[h] # None /\ socket'[h] = socket'[k] => h = k
  PROVE  SocketInOnePlace'
<1>1. ASSUME NEW g \in Group, NEW x \in Group, g # x
      PROVE  (idle_sockets'[g] \union jobs'[g]) \intersect
               (idle_sockets'[x] \union jobs'[x]) = {}
  BY <1>1
<1>2. \A g \in Group : idle_sockets'[g] \intersect jobs'[g] = {}
  OBVIOUS
<1>3. ASSUME NEW c \in HandedOut', c \in AllIdle' \union AllJobs' PROVE FALSE
  <2>1. PICK k \in Handle : c = socket'[k] /\ c # None
    BY DEF HandedOut
  <2>2. \E g \in Group : c \in idle_sockets'[g] \union jobs'[g]
    BY <1>3 DEF AllIdle, AllJobs
  <2> QED BY <2>1, <2>2
<1>4. HandedOut' \intersect (AllIdle' \union AllJobs') = {}
  BY <1>3
<1> QED
  BY <1>1, <1>2, <1>4 DEF SocketInOnePlace

\* Connections that only go away break nothing.
LEMMA ShrunkKeeps ==
  ASSUME ConnInv, ConnTypes', Shrunk
  PROVE  ConnInv'
<1> USE DEF ConnInv
<1>1. IdsNotNewer'
  BY DEF IdsNotNewer, Shrunk, Spared, ConnTypes
<1>2. SocketInOnePlace'
  <2>1. \A g, x \in Group : \A c :
          c \in idle_sockets'[g] \union jobs'[g]
            /\ c \in idle_sockets'[x] \union jobs'[x] => g = x
    BY OnePlaceElim DEF Shrunk
  <2>2. \A g \in Group : \A c : ~ (c \in idle_sockets'[g] /\ c \in jobs'[g])
    BY OnePlaceElim DEF Shrunk
  <2>3. \A g \in Group : \A k \in Handle :
          socket'[k] # None => socket'[k] \notin idle_sockets'[g] \union jobs'[g]
    BY OnePlaceElim DEF Shrunk, Spared
  <2>4. \A h, k \in Handle : socket'[h] # None /\ socket'[h] = socket'[k] => h = k
    BY OnePlaceElim DEF Shrunk, Spared
  <2> QED BY <2>1, <2>2, <2>3, <2>4, OnePlaceIntro
<1>3. OnlyCurrentGeneration'
  BY DEF OnlyCurrentGeneration, Shrunk, Spared, ConnTypes
<1> QED
  BY <1>1, <1>2, <1>3

\* Nor does one that is placed, once.
LEMMA PlacedKeeps ==
  ASSUME ConnInv, ConnTypes',
         NEW c \in Conn, NEW J, NEW I, NEW H, Placed(c, J, I, H)
  PROVE  ConnInv'
<1> USE DEF ConnInv
<1>0. c # None
  BY ConstantsAssumption
<1>1. IdsNotNewer'
  BY <1>0 DEF IdsNotNewer, Placed, Spared, ConnTypes
<1>2. \A x \in Group : \A d : d # c =>
        /\ d \in idle_sockets'[x] => d \in idle_sockets[x]
        /\ d \in jobs'[x] => d \in jobs[x]
  BY DEF Placed
<1>3. \A x \in Group : /\ c \in idle_sockets'[x] => x = I
                       /\ c \in jobs'[x] => x = J
  BY DEF Placed
<1>4. \A k \in Handle : \/ k = H /\ socket'[k] = c
                           /\ pool_id'[k] = pool_generation_number
                        \/ Spared(k) /\ socket'[k] # c
  BY DEF Placed
<1>5. None \notin Group \union Handle
  BY ConstantsAssumption
<1>6. (J # None => I = None /\ H = None) /\ (I # None => H = None)
  BY DEF Placed
<1>7. SocketInOnePlace'
  <2>1. \A g, x \in Group : \A d :
          d \in idle_sockets'[g] \union jobs'[g]
            /\ d \in idle_sockets'[x] \union jobs'[x] => g = x
    BY OnePlaceElim, <1>2, <1>3, <1>5, <1>6
  <2>2. \A g \in Group : \A d : ~ (d \in idle_sockets'[g] /\ d \in jobs'[g])
    BY OnePlaceElim, <1>2, <1>3, <1>5, <1>6
  <2>3. \A g \in Group : \A k \in Handle :
          socket'[k] # None => socket'[k] \notin idle_sockets'[g] \union jobs'[g]
    BY OnePlaceElim, <1>2, <1>3, <1>4, <1>5, <1>6 DEF Spared
  <2>4. \A h, k \in Handle : socket'[h] # None /\ socket'[h] = socket'[k] => h = k
    BY OnePlaceElim, <1>4 DEF Spared
  <2> QED BY <2>1, <2>2, <2>3, <2>4, OnePlaceIntro
<1>8. born'[c] = pool_generation_number
  <2>1. CASE born' = [born EXCEPT ![c] = pool_generation_number]
    BY <2>1 DEF ConnTypes
  <2>2. CASE /\ \E x \in Group : c \in jobs[x] \union idle_sockets[x]
             /\ born' = born
    BY <2>2 DEF OnlyCurrentGeneration
  <2>3. CASE /\ \E k \in Handle :
                  socket[k] = c /\ pool_id[k] = pool_generation_number
             /\ born' = born
    BY <2>3, <1>0 DEF OnlyCurrentGeneration
  <2> QED BY <2>1, <2>2, <2>3 DEF Placed, MayBePlaced
<1>9. \A d \in Conn : d # c => born'[d] = born[d]
  BY DEF Placed, MayBePlaced, ConnTypes
<1>10. OnlyCurrentGeneration'
  <2>1. pool_generation_number' = pool_generation_number
    BY DEF Placed
  <2>2. \A g \in Group : \A d \in idle_sockets'[g] \union jobs'[g] :
          d \in Conn /\ born'[d] = pool_generation_number
    BY <1>2, <1>8, <1>9 DEF OnlyCurrentGeneration, ConnTypes
  <2>3. ASSUME NEW k \in Handle, socket'[k] # None,
               pool_id'[k] = pool_generation_number
        PROVE  born'[socket'[k]] = pool_generation_number
    <3>1. CASE socket'[k] = c
      BY <3>1, <1>8
    <3>2. CASE socket'[k] # c
      BY <3>2, <2>3, <1>4, <1>9 DEF OnlyCurrentGeneration, ConnTypes, Spared
    <3> QED BY <3>1, <3>2
  <2> QED BY <2>1, <2>2, <2>3 DEF OnlyCurrentGeneration
<1> QED
  BY <1>1, <1>7, <1>10

-----------------------------------------------------------------------------
\* A connection identity that is not in use can be found.
LEMMA NewConnIsUnused ==
  ASSUME UnusedConn # {}
  PROVE  NewConn \in UnusedConn
BY DEF NewConn

\* The idle sockets after deletions and an addition.
LEMMA IdleAfter ==
  ASSUME ConnTypes, NEW D, NEW g, NEW added \in SUBSET Conn, UpdateIdle(D, g, added)
  PROVE  /\ idle_sockets' \in [Group -> SUBSET Conn]
         /\ \A x \in Group : idle_sockets'[x] =
              (idle_sockets[x] \ D) \union (IF x = g THEN added ELSE {})
BY DEF UpdateIdle, ConnTypes

\* What RequestSocketInternal may do to connections.
LEMMA RequestCases ==
  ASSUME NEW g, NEW h, NEW D, NEW rv, RequestSocketInternal(g, h, D, rv)
  PROVE  \/ \E c \in idle_sockets[g] \ D :
              /\ AssignIdleSocketToRequest(c, h, g, D)
              /\ jobs' = jobs /\ born' = born
         \/ /\ \E E : UpdateIdle(E, g, {})
            /\ NoSocketHandedOut /\ jobs' = jobs /\ born' = born
         \/ /\ UnusedConn # {}
            /\ born' = [born EXCEPT ![NewConn] = pool_generation_number]
            /\ \E E :
                 \/ HandOutSocket(NewConn, h, g) /\ UpdateIdle(E, g, {})
                    /\ jobs' = jobs
                 \/ NoSocketHandedOut /\ UpdateIdle(E, g, {NewConn})
                    /\ jobs' = jobs
                 \/ NoSocketHandedOut /\ UpdateIdle(E, g, {})
                    /\ jobs' = [jobs EXCEPT ![g] = @ \union {NewConn}]
BY DEF RequestSocketInternal, AddConnectJob, jobVars

\* A socket is handed out: the handle has it, with the id of the generation.
LEMMA HandOutAfter ==
  ASSUME ConnTypes, NEW c \in Conn, NEW h, NEW g, HandOutSocket(c, h, g)
  PROVE  /\ socket' \in [Handle -> Conn \union {None}]
         /\ pool_id' \in [Handle -> Int]
         /\ \A k \in Handle :
              \/ socket'[k] = socket[k] /\ pool_id'[k] = pool_id[k] /\ k # h
              \/ socket'[k] = c /\ pool_id'[k] = pool_generation_number /\ k = h
<1>1. socket' \in [Handle -> Conn \union {None}]
  BY DEF ConnTypes, HandOutSocket
<1>2. pool_id' \in [Handle -> Int]
  <2>1. pool_generation_number \in Int
    BY DEF ConnTypes
  <2>2. pool_id \in [Handle -> Int]
    BY DEF ConnTypes
  <2>3. pool_id' = [pool_id EXCEPT ![h] = pool_generation_number]
    BY DEF HandOutSocket
  <2> QED BY <2>1, <2>2, <2>3
<1>3. ASSUME NEW k \in Handle
      PROVE  \/ socket'[k] = socket[k] /\ pool_id'[k] = pool_id[k] /\ k # h
             \/ socket'[k] = c /\ pool_id'[k] = pool_generation_number /\ k = h
  BY DEF ConnTypes, HandOutSocket
<1> QED BY <1>1, <1>2, <1>3

\* RequestSocketInternal keeps every connection in one place and gives out none
\* of an earlier generation.
LEMMA RequestKeepsConns ==
  ASSUME ConnInv, NEW g \in Group, NEW h, NEW D, NEW rv,
         RequestSocketInternal(g, h, D, rv),
         pool_generation_number' = pool_generation_number
  PROVE  ConnInv' /\ \A x \in Group : jobs[x] \subseteq jobs'[x]
<1> USE DEF ConnInv
<1>1. CASE \E c \in idle_sockets[g] \ D :
              /\ AssignIdleSocketToRequest(c, h, g, D)
              /\ jobs' = jobs /\ born' = born
  <2>1. PICK c \in idle_sockets[g] \ D : AssignIdleSocketToRequest(c, h, g, D)
    BY <1>1
  <2>2. jobs' = jobs /\ born' = born
    BY <1>1
  <2>3. c \in Conn
    BY <2>1 DEF ConnTypes
  <2>4. ConnTypes'
    <3>1. idle_sockets' \in [Group -> SUBSET Conn]
      BY <2>1, IdleAfter DEF AssignIdleSocketToRequest
    <3>2. /\ socket' \in [Handle -> Conn \union {None}]
          /\ pool_id' \in [Handle -> Int]
      BY <2>1, <2>3, HandOutAfter DEF AssignIdleSocketToRequest
    <3> QED BY <2>2, <3>1, <3>2 DEF ConnTypes
  <2>5. \A x \in Group : c \notin jobs[x]
    BY <2>1, OnePlaceElim
  <2>6. \A k \in Handle : socket[k] # c
    BY <2>1, <2>3, OnePlaceElim, ConstantsAssumption
  <2>7. \A x \in Group : idle_sockets'[x] \subseteq idle_sockets[x] \ {c}
    BY <2>1, IdleAfter DEF AssignIdleSocketToRequest
  <2>8. Placed(c, None, None, h)
    BY <2>1, <2>2, <2>5, <2>6, <2>7, ConstantsAssumption
       DEF Placed, MayBePlaced, Spared, AssignIdleSocketToRequest,
           HandOutSocket, ConnTypes
  <2> QED BY <2>2, <2>3, <2>4, <2>8, PlacedKeeps
<1>2. CASE /\ \E E : UpdateIdle(E, g, {})
           /\ NoSocketHandedOut /\ jobs' = jobs /\ born' = born
  <2>1. /\ idle_sockets' \in [Group -> SUBSET Conn]
        /\ \A x \in Group : idle_sockets'[x] \subseteq idle_sockets[x]
    BY <1>2, IdleAfter
  <2>2. ConnTypes' /\ Shrunk
    BY <1>2, <2>1 DEF ConnTypes, Shrunk, Spared, NoSocketHandedOut
  <2> QED BY <1>2, <2>2, ShrunkKeeps
<1>3. CASE /\ UnusedConn # {}
           /\ born' = [born EXCEPT ![NewConn] = pool_generation_number]
           /\ \E E :
                \/ HandOutSocket(NewConn, h, g) /\ UpdateIdle(E, g, {})
                   /\ jobs' = jobs
                \/ NoSocketHandedOut /\ UpdateIdle(E, g, {NewConn})
                   /\ jobs' = jobs
                \/ NoSocketHandedOut /\ UpdateIdle(E, g, {})
                   /\ jobs' = [jobs EXCEPT ![g] = @ \union {NewConn}]
  <2>1. PICK c : c = NewConn
    OBVIOUS
  <2>2. c \in UnusedConn
    BY <1>3, <2>1, NewConnIsUnused
  <2>3. /\ c \in Conn
        /\ \A x \in Group : c \notin idle_sockets[x] \union jobs[x]
        /\ \A k \in Handle : socket[k] # c
    BY <2>2, UnusedElim
  <2>4. born' = [born EXCEPT ![c] = pool_generation_number]
    BY <1>3, <2>1
  <2>5. MayBePlaced(c)
    BY <2>2, <2>4 DEF MayBePlaced
  <2>6. born' \in [Conn -> Nat]
    BY <2>4 DEF ConnTypes
  <2>7. PICK E : \/ HandOutSocket(c, h, g) /\ UpdateIdle(E, g, {})
                    /\ jobs' = jobs
                 \/ NoSocketHandedOut /\ UpdateIdle(E, g, {c})
                    /\ jobs' = jobs
                 \/ NoSocketHandedOut /\ UpdateIdle(E, g, {})
                    /\ jobs' = [jobs EXCEPT ![g] = @ \union {c}]
    BY <1>3, <2>1
  <2>8. CASE HandOutSocket(c, h, g) /\ UpdateIdle(E, g, {}) /\ jobs' = jobs
    <3>1. ConnTypes'
      <4>1. idle_sockets' \in [Group -> SUBSET Conn]
        BY <2>8, IdleAfter
      <4>2. /\ socket' \in [Handle -> Conn \union {None}]
            /\ pool_id' \in [Handle -> Int]
        BY <2>3, <2>8, HandOutAfter
      <4> QED BY <2>6, <2>8, <4>1, <4>2 DEF ConnTypes
    <3>2. Placed(c, None, None, h)
      BY <2>3, <2>5, <2>8, IdleAfter, ConstantsAssumption
         DEF Placed, Spared, HandOutSocket, ConnTypes
    <3> QED BY <2>3, <2>8, <3>1, <3>2, PlacedKeeps
  <2>9. CASE NoSocketHandedOut /\ UpdateIdle(E, g, {c}) /\ jobs' = jobs
    <3>1. ConnTypes'
      BY <2>3, <2>6, <2>9, IdleAfter DEF ConnTypes, NoSocketHandedOut
    <3>2. Placed(c, None, g, None)
      BY <2>3, <2>5, <2>9, IdleAfter, ConstantsAssumption
         DEF Placed, Spared, NoSocketHandedOut, ConnTypes
    <3> QED BY <2>3, <2>9, <3>1, <3>2, PlacedKeeps
  <2>10. CASE /\ NoSocketHandedOut /\ UpdateIdle(E, g, {})
              /\ jobs' = [jobs EXCEPT ![g] = @ \union {c}]
    <3>1. ConnTypes'
      BY <2>3, <2>6, <2>10, IdleAfter DEF ConnTypes, NoSocketHandedOut
    <3>2. Placed(c, g, None, None)
      BY <2>3, <2>5, <2>10, IdleAfter, ConstantsAssumption
         DEF Placed, Spared, NoSocketHandedOut, ConnTypes
    <3>3. \A x \in Group : jobs[x] \subseteq jobs'[x]
      BY <2>10 DEF ConnTypes
    <3> QED BY <2>3, <3>1, <3>2, <3>3, PlacedKeeps
  <2> QED BY <2>7, <2>8, <2>9, <2>10
<1> QED
  BY <1>1, <1>2, <1>3, RequestCases

-----------------------------------------------------------------------------
\* The call on the stack works for a group, if it works for one.
FrameHasGroup == frame.at \in {"slot", "preconnect"} => frame.group \in Group

\* The inductive invariant.
PoolInv ==
  /\ ConnInv
  /\ group_map \subseteq Group
  /\ backup_job_timer \subseteq Group
  /\ BackupTimerHasJob
  /\ frame \in Frames
  /\ FrameHasGroup

\* The frames, field by field.
LEMMA FrameFacts ==
  /\ Ready \in Frames /\ Ready.at = "ready"
  /\ Check \in Frames /\ Check.at = "check"
  /\ \A g \in Group : /\ Slot(g) \in Frames
                       /\ Slot(g).at = "slot" /\ Slot(g).group = g
  /\ \A g \in Group, c \in Conn : /\ Complete(g, c) \in Frames
                                   /\ Complete(g, c).at = "complete"
  /\ \A g \in Group, n \in Nat, left \in Nat :
       /\ Preconnect(g, n, left) \in Frames
       /\ Preconnect(g, n, left).at = "preconnect"
       /\ Preconnect(g, n, left).group = g
BY DEF Ready, Check, Slot, Complete, Preconnect, Frames

\* A step that touches no connection.
LEMMA ConnsUnchanged ==
  ASSUME ConnInv,
         jobs' = jobs, idle_sockets' = idle_sockets, socket' = socket,
         pool_id' = pool_id, born' = born,
         pool_generation_number' = pool_generation_number
  PROVE  ConnInv'
<1>1. ConnTypes'
  BY DEF ConnInv, ConnTypes
<1>2. Shrunk
  BY DEF Shrunk, Spared
<1> QED BY <1>1, <1>2, ShrunkKeeps

\* A step that only deletes idle sockets.
LEMMA IdleGoAway ==
  ASSUME ConnInv, NEW D, NEW g, UpdateIdle(D, g, {}), OnlyIdleSocketsChange
  PROVE  ConnInv' /\ jobs' = jobs /\ backup_job_timer' = backup_job_timer
<1>1. /\ jobs' = jobs /\ socket' = socket /\ pool_id' = pool_id /\ born' = born
      /\ pool_generation_number' = pool_generation_number
      /\ backup_job_timer' = backup_job_timer
  BY DEF OnlyIdleSocketsChange, jobVars, handleVars
<1>2. ConnTypes
  BY DEF ConnInv
<1>3. /\ idle_sockets' \in [Group -> SUBSET Conn]
      /\ \A x \in Group : idle_sockets'[x] \subseteq idle_sockets[x]
  BY <1>2, IdleAfter
<1>4. ConnTypes'
  BY <1>1, <1>2, <1>3 DEF ConnTypes
<1>5. Shrunk
  BY <1>1, <1>3 DEF Shrunk, Spared
<1> QED BY <1>1, <1>4, <1>5, ShrunkKeeps

\* The handle after it forgot the pool.
LEMMA ClearAfter ==
  ASSUME ConnTypes, NEW h \in Handle, ClearHandle(h)
  PROVE  /\ socket' \in [Handle -> Conn \union {None}]
         /\ pool_id' \in [Handle -> Int]
         /\ \A k \in Handle : Spared(k)
         /\ socket'[h] = None
         /\ \A k \in Handle : k # h => socket'[k] = socket[k]
<1>1. /\ socket' = [socket EXCEPT ![h] = None]
      /\ pool_id' = [pool_id EXCEPT ![h] = -1]
  BY DEF ClearHandle
<1>2. socket \in [Handle -> Conn \union {None}] /\ pool_id \in [Handle -> Int]
  BY DEF ConnTypes
<1>3. socket' \in [Handle -> Conn \union {None}]
  BY <1>1, <1>2
<1>4. pool_id' \in [Handle -> Int]
  BY <1>1, <1>2
<1>5. \A k \in Handle : Spared(k)
  BY <1>1, <1>2 DEF Spared
<1> QED BY <1>1, <1>2, <1>3, <1>4, <1>5

-----------------------------------------------------------------------------
\* ClientSocketHandle::Init.
LEMMA RequestSocketKeeps ==
  ASSUME PoolInv, NEW h \in Handle, NEW g \in Group, NEW p, RequestSocket(h, g, p)
  PROVE  PoolInv'
<1> USE DEF PoolInv
<1>1. PICK D, rv : RequestSocketInternal(g, h, D, rv)
  BY DEF RequestSocket
<1>2. frame' = frame /\ pool_generation_number' = pool_generation_number
  BY DEF RequestSocket
<1>3. ConnInv' /\ \A x \in Group : jobs[x] \subseteq jobs'[x]
  BY <1>1, <1>2, RequestKeepsConns
<1>4. backup_job_timer' \subseteq Group /\ BackupTimerHasJob'
  BY <1>3 DEF RequestSocket, StartTimer, BackupTimerHasJob
<1>5. group_map' \subseteq Group
  BY DEF RequestSocket, GroupsAfterCleanup
<1> QED BY <1>2, <1>3, <1>4, <1>5 DEF FrameHasGroup

\* The loop of RequestSockets.
LEMMA PreconnectOneKeeps ==
  ASSUME PoolInv, PreconnectOne
  PROVE  PoolInv'
<1> USE DEF PoolInv
<1>1. PICK g : g = frame.group
  OBVIOUS
<1>2. g \in Group /\ frame.at = "preconnect"
  BY <1>1 DEF PreconnectOne, FrameHasGroup
<1>3. PICK rv : /\ RequestSocketInternal(g, None, {}, rv)
                /\ frame' = IF rv = "error"
                              THEN [frame EXCEPT !.left = 0]
                              ELSE [frame EXCEPT !.left = @ - 1]
  BY <1>1 DEF PreconnectOne
<1>4. pool_generation_number' = pool_generation_number
  BY DEF PreconnectOne
<1>5. ConnInv' /\ \A x \in Group : jobs[x] \subseteq jobs'[x]
  BY <1>2, <1>3, <1>4, RequestKeepsConns
<1>6. backup_job_timer' \subseteq Group /\ BackupTimerHasJob'
  <2>1. StartTimer(g)
    BY <1>1 DEF PreconnectOne
  <2> QED BY <1>2, <1>5, <2>1 DEF StartTimer, BackupTimerHasJob
<1>7. group_map' \subseteq Group
  BY DEF PreconnectOne
<1>8. frame.left \in Nat /\ frame.left > 0
  BY DEF PreconnectOne, PreconnectsMore, Frames
<1>9. frame' \in Frames /\ frame'.at = frame.at /\ frame'.group = frame.group
  BY <1>3, <1>8 DEF Frames
<1> QED BY <1>1, <1>2, <1>5, <1>6, <1>7, <1>9 DEF FrameHasGroup

\* RequestSockets up to its loop, and after it.
LEMMA RequestSocketsKeeps ==
  ASSUME PoolInv, NEW g \in Group, NEW n \in 1 .. max_sockets_per_group,
         RequestSockets(g, n)
  PROVE  PoolInv'
<1> USE DEF PoolInv
<1>1. PICK D : UpdateIdle(D, g, {})
  BY DEF RequestSockets
<1>2. ConnInv' /\ jobs' = jobs /\ backup_job_timer' = backup_job_timer
  BY <1>1, IdleGoAway DEF RequestSockets
<1>3. group_map' \subseteq Group
  BY DEF RequestSockets, GroupsAfterCleanup
<1>4. Min({n, max_sockets_per_group}) \in Nat
  <2>1. n \in Nat /\ max_sockets_per_group \in Nat
    BY LimitsAssumption
  <2>2. n <= max_sockets_per_group
    BY LimitsAssumption
  <2>3. \E x \in {n, max_sockets_per_group} :
          \A y \in {n, max_sockets_per_group} : x <= y
    BY <2>1, <2>2
  <2> QED BY <2>1, <2>3 DEF Min
<1>5. PICK m \in Nat : frame' = Preconnect(g, m, m)
  BY <1>4 DEF RequestSockets
<1>6. frame' \in Frames /\ frame'.group \in Group
  BY <1>5, FrameFacts
<1> QED BY <1>2, <1>3, <1>6 DEF FrameHasGroup, BackupTimerHasJob

\* The end of RequestSockets touches no connection.
LEMMA PreconnectDoneKeeps ==
  ASSUME PoolInv, PreconnectDone
  PROVE  PoolInv'
<1> USE DEF PoolInv
<1>1. /\ jobs' = jobs /\ idle_sockets' = idle_sockets /\ socket' = socket
      /\ pool_id' = pool_id /\ born' = born
      /\ pool_generation_number' = pool_generation_number
      /\ backup_job_timer' = backup_job_timer /\ frame' = Ready
      /\ group_map' \subseteq group_map
  BY DEF PreconnectDone, jobVars, idleVars, handleVars
<1>2. ConnInv'
  BY <1>1, ConnsUnchanged
<1> QED BY <1>1, <1>2, FrameFacts DEF FrameHasGroup, BackupTimerHasJob

-----------------------------------------------------------------------------
\* ReleaseSocket: the socket becomes idle in the group of the handle that
\* returns it, or it is deleted.
LEMMA ReleaseKeeps ==
  ASSUME PoolInv, NEW h \in Handle, NEW connected,
         ReleaseSocket(h, connected), ClearHandle(h)
  PROVE  PoolInv'
<1> USE DEF PoolInv
<1>1. PICK g : g = group_name[h]
  OBVIOUS
<1>2. g \in Group
  BY <1>1 DEF ReleaseSocket
<1>3. /\ jobs' = jobs /\ born' = born /\ group_map' = group_map
      /\ pool_generation_number' = pool_generation_number
      /\ backup_job_timer' = backup_job_timer
  BY DEF ReleaseSocket, jobVars
<1>4. frame' \in {Slot(g), Check}
  BY <1>1 DEF ReleaseSocket, AfterRelease
<1>5. ConnTypes
  BY DEF ConnInv
<1>6. ConnInv'
  <2>1. CASE CanReuseSocket(h, connected)
    <3>1. PICK c : c = socket[h]
      OBVIOUS
    <3>2. UpdateIdle({}, g, {c})
      BY <1>1, <2>1, <3>1 DEF ReleaseSocket
    <3>3. pool_id[h] = pool_generation_number /\ c \in Conn
      BY <1>5, <2>1, <3>1 DEF CanReuseSocket, ConnInv, IdsNotNewer, ConnTypes
    <3>4. c # None
      BY <3>3, ConstantsAssumption
    <3>5. /\ idle_sockets' \in [Group -> SUBSET Conn]
          /\ \A x \in Group : idle_sockets'[x] =
               idle_sockets[x] \union (IF x = g THEN {c} ELSE {})
      BY <1>5, <3>2, <3>3, IdleAfter
    <3>6. ConnTypes'
      BY <1>3, <1>5, <3>5, ClearAfter DEF ConnTypes
    <3>7. \A x \in Group : c \notin idle_sockets[x] \union jobs[x]
      BY <3>1, <3>4, OnePlaceElim DEF ConnInv
    <3>8. \A k \in Handle : Spared(k) /\ socket'[k] # c
      BY <1>5, <3>1, <3>4, ClearAfter, OnePlaceElim DEF ConnInv
    <3>9. MayBePlaced(c)
      BY <1>3, <3>1, <3>3 DEF MayBePlaced
    <3>10. Placed(c, None, g, None)
      BY <1>3, <3>5, <3>7, <3>8, <3>9 DEF Placed
    <3> QED BY <3>3, <3>6, <3>10, PlacedKeeps
  <2>2. CASE ~ CanReuseSocket(h, connected)
    <3>1. UpdateIdle({}, g, {})
      BY <1>1, <2>2 DEF ReleaseSocket
    <3>2. /\ idle_sockets' \in [Group -> SUBSET Conn]
          /\ \A x \in Group : idle_sockets'[x] \subseteq idle_sockets[x]
      BY <1>5, <3>1, IdleAfter
    <3>3. ConnTypes'
      BY <1>3, <1>5, <3>2, ClearAfter DEF ConnTypes
    <3>4. Shrunk
      BY <1>3, <1>5, <3>2, ClearAfter DEF Shrunk
    <3> QED BY <3>3, <3>4, ShrunkKeeps
  <2> QED BY <2>1, <2>2
<1>7. frame' \in Frames /\ FrameHasGroup'
  BY <1>2, <1>4, FrameFacts DEF FrameHasGroup
<1> QED BY <1>3, <1>6, <1>7 DEF BackupTimerHasJob

\* A handle that forgets the pool, while jobs may end.
LEMMA ClearKeepsConns ==
  ASSUME ConnInv, NEW h \in Handle, ClearHandle(h),
         jobs' \in [Group -> SUBSET Conn],
         \A x \in Group : jobs'[x] \subseteq jobs[x],
         idle_sockets' = idle_sockets, born' = born,
         pool_generation_number' = pool_generation_number
  PROVE  ConnInv'
<1>1. ConnTypes
  BY DEF ConnInv
<1>2. ConnTypes'
  BY <1>1, ClearAfter DEF ConnTypes
<1>3. Shrunk
  BY <1>1, ClearAfter DEF Shrunk
<1> QED BY <1>2, <1>3, ShrunkKeeps

\* CancelRequest of a handle whose result is on its way.
LEMMA CancelCallbackKeeps ==
  ASSUME PoolInv, NEW h \in Handle, CancelCallback(h)
  PROVE  PoolInv'
<1>1. ClearHandle(h)
  BY DEF CancelCallback
<1>2. CASE \E connected \in BOOLEAN : ReleaseSocket(h, connected)
  BY <1>1, <1>2, ReleaseKeeps
<1>3. CASE UNCHANGED <<group_map, pending_requests, tasks, idleVars, jobVars,
                       activeVars, backup_job_timer,
                       pool_generation_number, frame, born>>
  <2>1. /\ jobs' = jobs /\ idle_sockets' = idle_sockets /\ born' = born
        /\ pool_generation_number' = pool_generation_number
        /\ backup_job_timer' = backup_job_timer /\ frame' = frame
        /\ group_map' = group_map
    BY <1>3 DEF jobVars, idleVars
  <2>2. jobs' \in [Group -> SUBSET Conn]
    BY <2>1 DEF PoolInv, ConnInv, ConnTypes
  <2>3. ConnInv'
    BY <1>1, <2>1, <2>2, ClearKeepsConns DEF PoolInv
  <2> QED BY <2>1, <2>3 DEF PoolInv, BackupTimerHasJob, FrameHasGroup
<1> QED BY <1>2, <1>3 DEF CancelCallback

\* A ConnectJob of g is removed, or none is; the backup job timer of a group
\* that has no job left is stopped.
LEMMA TimerStopped ==
  ASSUME PoolInv, NEW g \in Group, NEW c, NEW request_removed,
         \/ jobs' = [jobs EXCEPT ![g] = @ \ {c}]
            /\ StopTimer(g, TRUE, request_removed)
         \/ \A x \in Group : jobs[x] \subseteq jobs'[x]
            /\ StopTimer(g, FALSE, request_removed)
  PROVE  backup_job_timer' \subseteq Group /\ BackupTimerHasJob'
<1>1. jobs \in [Group -> SUBSET Conn] /\ backup_job_timer \subseteq Group
  BY DEF PoolInv, ConnInv, ConnTypes
<1>2. \A x \in backup_job_timer : jobs[x] # {}
  BY DEF PoolInv, BackupTimerHasJob
<1>3. CASE jobs' = [jobs EXCEPT ![g] = @ \ {c}]
           /\ StopTimer(g, TRUE, request_removed)
  <2>1. \A x \in backup_job_timer' : x \in backup_job_timer /\ (x = g => jobs'[g] # {})
    BY <1>3 DEF StopTimer
  <2>2. \A x \in Group : x # g => jobs'[x] = jobs[x]
    BY <1>1, <1>3
  <2> QED BY <1>1, <1>2, <2>1, <2>2 DEF BackupTimerHasJob
<1>4. CASE \A x \in Group : jobs[x] \subseteq jobs'[x]
           /\ StopTimer(g, FALSE, request_removed)
  <2>1. backup_job_timer' \subseteq backup_job_timer
    BY <1>4 DEF StopTimer
  <2> QED BY <1>1, <1>2, <1>4, <2>1 DEF BackupTimerHasJob
<1> QED BY <1>3, <1>4

\* CancelRequest of a handle that waits: a job may be cancelled too.
LEMMA CancelPendingKeeps ==
  ASSUME PoolInv, NEW h \in Handle, CancelPending(h)
  PROVE  PoolInv'
<1> USE DEF PoolInv
<1>1. PICK g : g = group_name[h]
  OBVIOUS
<1>2. g \in Group
  BY <1>1 DEF CancelPending
<1>3. /\ ClearHandle(h) /\ idle_sockets' = idle_sockets /\ born' = born
      /\ pool_generation_number' = pool_generation_number
      /\ group_map' = group_map
  BY DEF CancelPending, idleVars
<1>4. jobs \in [Group -> SUBSET Conn]
  BY DEF ConnInv, ConnTypes
<1>5. frame' \in {frame, Check}
  BY DEF CancelPending
<1>6. CASE \E c \in jobs[g] : /\ RemoveConnectJob(c, g)
                              /\ StopTimer(g, TRUE, TRUE)
  <2>1. PICK c \in jobs[g] : jobs' = [jobs EXCEPT ![g] = @ \ {c}]
    BY <1>6 DEF RemoveConnectJob, RemoveJob
  <2>2. /\ jobs' \in [Group -> SUBSET Conn]
        /\ \A x \in Group : jobs'[x] \subseteq jobs[x]
    BY <1>4, <2>1
  <2>3. backup_job_timer' \subseteq Group /\ BackupTimerHasJob'
    BY <1>2, <1>6, <2>1, TimerStopped
  <2> QED BY <1>3, <1>5, <2>2, <2>3, ClearKeepsConns, FrameFacts DEF FrameHasGroup
<1>7. CASE jobs' = jobs /\ StopTimer(g, FALSE, TRUE)
  <2>1. backup_job_timer' \subseteq Group /\ BackupTimerHasJob'
    BY <1>2, <1>7, TimerStopped
  <2> QED BY <1>3, <1>4, <1>5, <1>7, <2>1, ClearKeepsConns, FrameFacts DEF FrameHasGroup
<1> QED BY <1>1, <1>6, <1>7 DEF CancelPending, jobVars

\* SetPriority leaves the connections alone.
LEMMA SetPriorityKeeps ==
  ASSUME PoolInv, NEW h \in Handle, NEW p, SetPriority(h, p)
  PROVE  PoolInv'
<1> USE DEF PoolInv
<1>1. /\ jobs' = jobs /\ idle_sockets' = idle_sockets /\ socket' = socket
      /\ pool_id' = pool_id /\ born' = born
      /\ pool_generation_number' = pool_generation_number
      /\ frame' = frame /\ group_map' = group_map
  BY DEF SetPriority, jobVars, idleVars, handleVars
<1>2. backup_job_timer' \subseteq backup_job_timer
  BY DEF SetPriority
<1>3. ConnInv'
  BY <1>1, ConnsUnchanged
<1> QED BY <1>1, <1>2, <1>3 DEF FrameHasGroup, BackupTimerHasJob

\* The task that reports a result; a handle without a socket may then forget
\* the pool.
LEMMA InvokeUserCallbackKeeps ==
  ASSUME PoolInv, NEW h \in Handle, InvokeUserCallback(h)
  PROVE  PoolInv'
<1> USE DEF PoolInv
<1>1. /\ jobs' = jobs /\ idle_sockets' = idle_sockets /\ born' = born
      /\ pool_generation_number' = pool_generation_number
      /\ frame' = frame /\ group_map' = group_map
      /\ backup_job_timer' = backup_job_timer
  BY DEF InvokeUserCallback, jobVars, idleVars
<1>2. jobs' \in [Group -> SUBSET Conn]
  BY <1>1 DEF ConnInv, ConnTypes
<1>3. ClearHandle(h) \/ (socket' = socket /\ pool_id' = pool_id)
  BY DEF InvokeUserCallback, HandleInitCompletion, handleVars
<1>4. ConnInv'
  BY <1>1, <1>2, <1>3, ConnsUnchanged, ClearKeepsConns
<1> QED BY <1>1, <1>4 DEF FrameHasGroup, BackupTimerHasJob

-----------------------------------------------------------------------------
\* A ConnectJob ends: its socket goes to the next request, becomes idle, or
\* there is none.
LEMMA ConnectJobCompleteKeeps ==
  ASSUME PoolInv, NEW g \in Group, NEW c \in jobs[g], NEW result, NEW with_socket,
         OnConnectJobComplete(g, c, result, with_socket)
  PROVE  PoolInv'
<1> USE DEF PoolInv
<1>1. /\ pool_generation_number' = pool_generation_number /\ born' = born
      /\ group_map' = group_map
  BY DEF OnConnectJobComplete
<1>2. frame' \in {Ready, Slot(g)}
  BY DEF OnConnectJobComplete
<1>3. ConnTypes
  BY DEF ConnInv
<1>4. jobs' = [jobs EXCEPT ![g] = @ \ {c}]
  BY DEF OnConnectJobComplete, RemoveConnectJob, RemoveJob
<1>5. c \in Conn
  BY <1>3 DEF ConnTypes
<1>6. /\ jobs' \in [Group -> SUBSET Conn]
      /\ \A x \in Group : jobs'[x] \subseteq jobs[x] \ {c}
  <2>1. jobs' \in [Group -> SUBSET Conn]
    BY <1>3, <1>4 DEF ConnTypes
  <2>2. \A x \in Group : c \in jobs[x] => x = g
    BY OnePlaceElim DEF ConnInv
  <2>3. \A x \in Group : jobs'[x] = IF x = g THEN jobs[x] \ {c} ELSE jobs[x]
    BY <1>3, <1>4 DEF ConnTypes
  <2> QED BY <2>1, <2>2, <2>3
<1>7. /\ \A x \in Group : c \notin idle_sockets[x]
      /\ \A k \in Handle : socket[k] # c
  <2>1. c # None
    BY <1>5, ConstantsAssumption
  <2>2. \A x \in Group : c \in idle_sockets[x] => x = g
    BY OnePlaceElim DEF ConnInv
  <2> QED BY <2>1, <2>2, OnePlaceElim DEF ConnInv
<1>8. MayBePlaced(c)
  BY <1>1 DEF MayBePlaced
<1>9. ConnInv'
  <2>1. PICK h : h = NextPendingRequest(g)
    OBVIOUS
  <2>2. CASE UpdateIdle({}, g, {}) /\ HandOutSocket(c, h, g)
    <3>1. /\ idle_sockets' \in [Group -> SUBSET Conn]
          /\ \A x \in Group : idle_sockets'[x] \subseteq idle_sockets[x]
      BY <1>3, <2>2, IdleAfter
    <3>2. /\ socket' \in [Handle -> Conn \union {None}]
          /\ pool_id' \in [Handle -> Int]
          /\ \A k \in Handle :
               \/ socket'[k] = socket[k] /\ pool_id'[k] = pool_id[k] /\ k # h
               \/ socket'[k] = c /\ pool_id'[k] = pool_generation_number /\ k = h
      BY <1>3, <1>5, <2>2, HandOutAfter
    <3>3. ConnTypes'
      BY <1>1, <1>3, <1>6, <3>1, <3>2 DEF ConnTypes
    <3>4. Placed(c, None, None, h)
      BY <1>1, <1>6, <1>7, <1>8, <3>1, <3>2 DEF Placed, Spared
    <3> QED BY <1>5, <3>3, <3>4, PlacedKeeps
  <2>3. CASE UpdateIdle({}, g, {}) /\ NoSocketHandedOut
    <3>1. /\ idle_sockets' \in [Group -> SUBSET Conn]
          /\ \A x \in Group : idle_sockets'[x] \subseteq idle_sockets[x]
      BY <1>3, <2>3, IdleAfter
    <3>2. ConnTypes' /\ Shrunk
      BY <1>1, <1>3, <1>6, <2>3, <3>1 DEF ConnTypes, Shrunk, Spared, NoSocketHandedOut
    <3> QED BY <3>2, ShrunkKeeps
  <2>4. CASE UpdateIdle({}, g, {c}) /\ NoSocketHandedOut
    <3>1. /\ idle_sockets' \in [Group -> SUBSET Conn]
          /\ \A x \in Group : idle_sockets'[x] =
               idle_sockets[x] \union (IF x = g THEN {c} ELSE {})
      BY <1>3, <1>5, <2>4, IdleAfter
    <3>2. ConnTypes'
      BY <1>1, <1>3, <1>6, <2>4, <3>1 DEF ConnTypes, NoSocketHandedOut
    <3>3. Placed(c, None, g, None)
      BY <1>1, <1>6, <1>7, <1>8, <2>4, <3>1 DEF Placed, Spared, NoSocketHandedOut
    <3> QED BY <1>5, <3>2, <3>3, PlacedKeeps
  <2> QED BY <2>1, <2>2, <2>3, <2>4 DEF OnConnectJobComplete
<1>10. backup_job_timer' \subseteq Group /\ BackupTimerHasJob'
  BY <1>4, TimerStopped DEF OnConnectJobComplete
<1> QED BY <1>1, <1>2, <1>9, <1>10, FrameFacts DEF FrameHasGroup

\* The backup job timer fires: it may start one more ConnectJob.
LEMMA BackupJobTimerFiredKeeps ==
  ASSUME PoolInv, NEW g \in Group, OnBackupJobTimerFired(g)
  PROVE  PoolInv'
<1> USE DEF PoolInv
<1>1. /\ pool_generation_number' = pool_generation_number
      /\ group_map' = group_map /\ idle_sockets' = idle_sockets
      /\ socket' = socket /\ pool_id' = pool_id
      /\ backup_job_timer' \subseteq backup_job_timer
  BY DEF OnBackupJobTimerFired, idleVars, handleVars
<1>2. CASE jobs' = jobs /\ born' = born /\ frame' = frame
  <2>1. ConnInv'
    BY <1>1, <1>2, ConnsUnchanged
  <2> QED BY <1>1, <1>2, <2>1 DEF FrameHasGroup, BackupTimerHasJob
<1>3. CASE /\ UnusedConn # {} /\ AddConnectJob(NewConn, g, FALSE)
           /\ born' = [born EXCEPT ![NewConn] = pool_generation_number]
           /\ frame' \in {Ready, Complete(g, NewConn)}
  <2>1. PICK c : c = NewConn
    OBVIOUS
  <2>2. c \in UnusedConn
    BY <1>3, <2>1, NewConnIsUnused
  <2>3. ConnTypes
    BY DEF ConnInv
  <2>4. /\ c \in Conn
        /\ \A x \in Group : c \notin idle_sockets[x] \union jobs[x]
        /\ \A k \in Handle : socket[k] # c
    BY <2>2, <2>3, UnusedElim
  <2>5. /\ jobs' = [jobs EXCEPT ![g] = @ \union {c}]
        /\ born' = [born EXCEPT ![c] = pool_generation_number]
    BY <1>3, <2>1 DEF AddConnectJob
  <2>6. ConnTypes'
    BY <1>1, <2>3, <2>4, <2>5 DEF ConnTypes
  <2>7. MayBePlaced(c)
    BY <2>2, <2>5 DEF MayBePlaced
  <2>8. \A x \in Group : jobs'[x] = jobs[x] \union (IF x = g THEN {c} ELSE {})
    BY <2>3, <2>5 DEF ConnTypes
  <2>9. Placed(c, g, None, None)
    BY <1>1, <2>4, <2>7, <2>8 DEF Placed, Spared
  <2>10. ConnInv'
    BY <2>4, <2>6, <2>9, PlacedKeeps
  <2>11. BackupTimerHasJob'
    BY <1>1, <2>8 DEF BackupTimerHasJob
  <2> QED BY <1>1, <1>3, <2>1, <2>4, <2>10, <2>11, FrameFacts DEF FrameHasGroup
<1> QED BY <1>2, <1>3 DEF OnBackupJobTimerFired, jobVars

\* A free slot is offered to the next request of its group.
LEMMA AvailableSocketSlotKeeps ==
  ASSUME PoolInv, OnAvailableSocketSlot
  PROVE  PoolInv'
<1> USE DEF PoolInv
<1>1. PICK g : g = frame.group
  OBVIOUS
<1>2. g \in Group
  BY <1>1 DEF OnAvailableSocketSlot, FrameHasGroup
<1>3. frame' \in Frames /\ FrameHasGroup'
  BY FrameFacts DEF OnAvailableSocketSlot, FrameHasGroup
<1>4. CASE ProcessPendingRequest(g)
  <2>1. PICK D, rv :
          /\ RequestSocketInternal(g, NextPendingRequest(g), D, rv)
          /\ backup_job_timer' \subseteq backup_job_timer
    BY <1>4 DEF ProcessPendingRequest, StopTimer
  <2>2. pool_generation_number' = pool_generation_number
        /\ group_map' \subseteq group_map
    BY <1>4 DEF ProcessPendingRequest
  <2>3. ConnInv' /\ \A x \in Group : jobs[x] \subseteq jobs'[x]
    BY <1>2, <2>1, <2>2, RequestKeepsConns
  <2>4. backup_job_timer' \subseteq Group /\ BackupTimerHasJob'
    BY <2>1, <2>3 DEF BackupTimerHasJob
  <2> QED BY <1>3, <2>2, <2>3, <2>4
<1>5. CASE /\ group_map' \subseteq group_map
           /\ UNCHANGED <<requestVars, idleVars, jobVars, activeVars, handleVars,
                          backup_job_timer, pool_generation_number, born>>
  <2>1. /\ jobs' = jobs /\ idle_sockets' = idle_sockets /\ socket' = socket
        /\ pool_id' = pool_id /\ born' = born
        /\ pool_generation_number' = pool_generation_number
        /\ backup_job_timer' = backup_job_timer
    BY <1>5 DEF jobVars, idleVars, handleVars
  <2>2. ConnInv'
    BY <2>1, ConnsUnchanged
  <2> QED BY <1>3, <1>5, <2>1, <2>2 DEF BackupTimerHasJob
<1> QED BY <1>1, <1>4, <1>5 DEF OnAvailableSocketSlot

\* Steps that at most close idle sockets.
LEMMA CloseIdleSocketKeeps ==
  ASSUME PoolInv, NEW c, NEW g, CloseIdleSocket(c, g),
         frame' \in Frames /\ FrameHasGroup'
  PROVE  PoolInv'
<1>1. ConnInv' /\ jobs' = jobs /\ backup_job_timer' = backup_job_timer
  BY IdleGoAway DEF PoolInv, CloseIdleSocket
<1>2. group_map' \subseteq group_map
  BY DEF CloseIdleSocket
<1> QED BY <1>1, <1>2 DEF PoolInv, BackupTimerHasJob

\* An iteration of the loop of CheckForStalledSocketGroups.
LEMMA CheckForStalledSocketGroupsKeeps ==
  ASSUME PoolInv, CheckForStalledSocketGroups
  PROVE  PoolInv'
<1>1. frame' \in Frames /\ FrameHasGroup'
  <2>1. frame' = Ready \/ \E top \in Group : frame' = Slot(top)
    BY DEF CheckForStalledSocketGroups, TopStalledGroups, StalledGroups, PoolInv
  <2> QED BY <2>1, FrameFacts DEF FrameHasGroup
<1>2. CASE \E g \in Group : \E c \in idle_sockets[g] : CloseIdleSocket(c, g)
  BY <1>1, <1>2, CloseIdleSocketKeeps
<1>3. CASE UNCHANGED <<group_map, idleVars>>
  <2>1. /\ jobs' = jobs /\ idle_sockets' = idle_sockets /\ socket' = socket
        /\ pool_id' = pool_id /\ born' = born
        /\ pool_generation_number' = pool_generation_number
        /\ backup_job_timer' = backup_job_timer /\ group_map' = group_map
    BY <1>3 DEF CheckForStalledSocketGroups, OnlyIdleSocketsChange, jobVars,
                idleVars, handleVars
  <2>2. ConnInv'
    BY <2>1, ConnsUnchanged DEF PoolInv
  <2> QED BY <1>1, <2>1, <2>2 DEF PoolInv, BackupTimerHasJob
<1> QED BY <1>2, <1>3 DEF CheckForStalledSocketGroups

\* The calls that close idle sockets.
LEMMA CloseKeeps ==
  ASSUME PoolInv,
         \/ CloseIdleSockets
         \/ \E g \in Group : CloseIdleSocketsInGroup(g)
         \/ CloseOneIdleSocket
  PROVE  PoolInv'
<1>1. frame' = frame
  BY DEF CloseIdleSockets, CloseIdleSocketsInGroup, CloseOneIdleSocket
<1>2. frame' \in Frames /\ FrameHasGroup'
  BY <1>1 DEF PoolInv, FrameHasGroup
<1>3. CASE CloseOneIdleSocket
  BY <1>2, <1>3, CloseIdleSocketKeeps DEF CloseOneIdleSocket
<1>4. CASE CloseIdleSockets \/ \E g \in Group : CloseIdleSocketsInGroup(g)
  <2>1. PICK D, g : UpdateIdle(D, g, {}) /\ OnlyIdleSocketsChange
    <3>1. CASE CloseIdleSockets
      BY <3>1, Zenon DEF CloseIdleSockets
    <3>2. CASE \E g \in Group : CloseIdleSocketsInGroup(g)
      BY <3>2, Zenon DEF CloseIdleSocketsInGroup
    <3> QED BY <1>4, <3>1, <3>2
  <2>2. ConnInv' /\ jobs' = jobs /\ backup_job_timer' = backup_job_timer
    BY <2>1, IdleGoAway DEF PoolInv
  <2>3. group_map' \subseteq group_map
    BY <1>4 DEF CloseIdleSockets, CloseIdleSocketsInGroup
  <2> QED BY <1>2, <2>2, <2>3 DEF PoolInv, BackupTimerHasJob
<1> QED BY <1>3, <1>4

\* FlushWithError: no connection of the pool is left, and no handle has the id
\* of the new generation.
LEMMA FlushKeeps ==
  ASSUME PoolInv, FlushWithError
  PROVE  PoolInv'
<1> USE DEF PoolInv
<1>1. /\ pool_generation_number' = pool_generation_number + 1
      /\ socket' = socket /\ pool_id' = pool_id /\ born' = born
      /\ frame' = frame /\ group_map' \subseteq group_map
  BY DEF FlushWithError, handleVars
<1>2. jobs' = [g \in Group |-> {}] /\ backup_job_timer' = {}
  BY DEF FlushWithError, CancelAllConnectJobs, RemoveAllJobs
<1>3. ConnTypes
  BY DEF ConnInv
<1>4. /\ idle_sockets' \in [Group -> SUBSET Conn]
      /\ \A x \in Group : idle_sockets'[x] = {}
  <2>1. UpdateIdle(AllIdle, None, {})
    BY DEF FlushWithError
  <2>2. \A x \in Group : idle_sockets[x] \subseteq AllIdle
    BY DEF AllIdle
  <2>3. \A x \in Group : idle_sockets'[x] = idle_sockets[x] \ AllIdle
    BY <2>1, <1>3, IdleAfter
  <2>4. idle_sockets' \in [Group -> SUBSET Conn]
    BY <2>1, <1>3, IdleAfter
  <2> QED BY <2>2, <2>3, <2>4
<1>5. ConnTypes'
  BY <1>1, <1>2, <1>3, <1>4 DEF ConnTypes
<1>6. \A h \in Handle : pool_id[h] <= pool_generation_number
                      /\ (socket[h] = None => pool_id[h] = -1)
  BY DEF ConnInv, IdsNotNewer
<1>7. \A h \in Handle : pool_id'[h] < pool_generation_number'
  BY <1>1, <1>3, <1>6 DEF ConnTypes
<1>8. IdsNotNewer'
  BY <1>1, <1>3, <1>6 DEF IdsNotNewer, ConnTypes
<1>9. OnlyCurrentGeneration'
  <2>1. \A g \in Group : idle_sockets'[g] \union jobs'[g] = {}
    BY <1>2, <1>4
  <2>2. \A h \in Handle : pool_id'[h] # pool_generation_number'
    BY <1>5, <1>7 DEF ConnTypes
  <2> QED BY <2>1, <2>2 DEF OnlyCurrentGeneration
<1>10. SocketInOnePlace'
  <2>1. \A g \in Group : idle_sockets'[g] \union jobs'[g] = {}
    BY <1>2, <1>4
  <2>2. \A h, k \in Handle : socket'[h] # None /\ socket'[h] = socket'[k] => h = k
    BY <1>1, <1>3, OnePlaceElim DEF ConnInv
  <2> QED BY <1>5, <2>1, <2>2, OnePlaceIntro
<1> QED
  BY <1>1, <1>2, <1>5, <1>8, <1>9, <1>10
     DEF ConnInv, FrameHasGroup, BackupTimerHasJob

-----------------------------------------------------------------------------
\* The constructor establishes the invariant.
LEMMA InitPoolInv == Init => PoolInv
<1> SUFFICES ASSUME Init PROVE PoolInv
  OBVIOUS
<1> USE DEF Init
<1>1. ConnTypes
  BY DEF ConnTypes
<1>2. IdsNotNewer
  BY DEF IdsNotNewer
<1>3. SocketInOnePlace
  <2>1. AllIdle = {} /\ AllJobs = {}
    BY DEF AllIdle, AllJobs
  <2>2. \A h \in Handle : socket[h] = None
    OBVIOUS
  <2> QED BY <2>1, <2>2 DEF SocketInOnePlace
<1>4. OnlyCurrentGeneration
  BY DEF OnlyCurrentGeneration
<1>5. frame \in Frames /\ FrameHasGroup
  BY FrameFacts DEF FrameHasGroup
<1> QED
  BY <1>1, <1>2, <1>3, <1>4, <1>5 DEF PoolInv, ConnInv, BackupTimerHasJob

\* Every step keeps it.
LEMMA NextPoolInv == PoolInv /\ [Next]_vars => PoolInv'
<1> SUFFICES ASSUME PoolInv, [Next]_vars PROVE PoolInv'
  OBVIOUS
<1>1. CASE \E h \in Handle, g \in Group, p \in Priority : RequestSocket(h, g, p)
  BY <1>1, RequestSocketKeeps
<1>2. CASE \E g \in Group, n \in 1 .. max_sockets_per_group : RequestSockets(g, n)
  BY <1>2, RequestSocketsKeeps
<1>3. CASE PreconnectOne
  BY <1>3, PreconnectOneKeeps
<1>4. CASE PreconnectDone
  BY <1>4, PreconnectDoneKeeps
<1>5. CASE \E h \in Handle : ResetInitialized(h)
  BY <1>5, ReleaseKeeps DEF ResetInitialized
<1>6. CASE \E h \in Handle : CancelCallback(h)
  BY <1>6, CancelCallbackKeeps
<1>7. CASE \E h \in Handle : CancelPending(h)
  BY <1>7, CancelPendingKeeps
<1>8. CASE \E h \in Handle : InvokeUserCallback(h)
  BY <1>8, InvokeUserCallbackKeeps
<1>9. CASE \E h \in Handle : \E p \in Priority : SetPriority(h, p)
  BY <1>9, SetPriorityKeeps
<1>10. CASE \E g \in Group : \E c \in jobs[g] :
              \E result \in Result, with_socket \in BOOLEAN :
                OnConnectJobComplete(g, c, result, with_socket)
  BY <1>10, ConnectJobCompleteKeeps
<1>11. CASE \E g \in Group : OnBackupJobTimerFired(g)
  BY <1>11, BackupJobTimerFiredKeeps
<1>12. CASE OnAvailableSocketSlot
  BY <1>12, AvailableSocketSlotKeeps
<1>13. CASE CheckForStalledSocketGroups
  BY <1>13, CheckForStalledSocketGroupsKeeps
<1>14. CASE FlushWithError
  BY <1>14, FlushKeeps
<1>15. CASE \/ CloseIdleSockets
            \/ \E g \in Group : CloseIdleSocketsInGroup(g)
            \/ CloseOneIdleSocket
  BY <1>15, CloseKeeps
<1>16. CASE UNCHANGED vars
  <2>1. /\ jobs' = jobs /\ idle_sockets' = idle_sockets /\ socket' = socket
        /\ pool_id' = pool_id /\ born' = born
        /\ pool_generation_number' = pool_generation_number
        /\ backup_job_timer' = backup_job_timer /\ group_map' = group_map
        /\ frame' = frame
    BY <1>16 DEF vars, jobVars, idleVars, handleVars
  <2>2. ConnInv'
    BY <2>1, ConnsUnchanged DEF PoolInv
  <2> QED BY <2>1, <2>2 DEF PoolInv, BackupTimerHasJob, FrameHasGroup
<1> QED
  BY <1>1, <1>2, <1>3, <1>4, <1>5, <1>6, <1>7, <1>8, <1>9, <1>10, <1>11,
     <1>12, <1>13, <1>14, <1>15, <1>16 DEF Next

\* The invariant holds in every state of the pool.
THEOREM PoolInvariant == Spec => []PoolInv
BY InitPoolInv, NextPoolInv, PTL DEF Spec

\* In every state of the pool, with any number of groups, handles and flushes,
\* a connection is at one place: connecting or idle in one group, or with one
\* handle.
THEOREM OnePlace == Spec => []SocketInOnePlace
<1>1. PoolInv => SocketInOnePlace
  BY DEF PoolInv, ConnInv
<1> QED BY <1>1, PoolInvariant, PTL

\* After FlushWithError no connection from before it serves a request: not one
\* that was idle, not one whose ConnectJob was running, and not one that a
\* handle returns later.
THEOREM CurrentGeneration == Spec => []OnlyCurrentGeneration
<1>1. PoolInv => OnlyCurrentGeneration
  BY DEF PoolInv, ConnInv
<1> QED BY <1>1, PoolInvariant, PTL

\* The NOTREACHED of OnBackupJobTimerFired is not reached: the timer of a group
\* runs only while the group has a ConnectJob.
THEOREM TimerHasJob == Spec => []BackupTimerHasJob
<1>1. PoolInv => BackupTimerHasJob
  BY DEF PoolInv
<1> QED BY <1>1, PoolInvariant, PTL

-----------------------------------------------------------------------------
(***************************************************************************)
(* The books of ClientSocketPool: the types of its variables, its          *)
(* counters, and where the pool knows a request and a group from.          *)
(*                                                                         *)
(* The three need each other.  A group is removed when its counter of      *)
(* active sockets is 0, so that a handle with a socket finds its group     *)
(* only if the counter is exact; the counter stays exact only if a request *)
(* that is served has no socket yet and belongs to the group that serves   *)
(* it; and that is what the queues are trusted with.                       *)
(***************************************************************************)

\* The handles that have a socket.
Holders == {h \in Handle : socket[h] # None}

HoldersIn(g) == {h \in Handle : socket[h] # None /\ group_name[h] = g}

\* The variables that PoolInv does not speak of.
BookTypes ==
  /\ pending_callback_map \in [Handle -> Result \union {None}]
  /\ tasks \in [Handle -> Nat]
  /\ pool_generation_number \in 0 .. MaxGeneration
  /\ pending_requests \in [Group -> [Priority -> Seq(Handle)]]
  /\ unassigned_job_count \in [Group -> Int]
  /\ active_socket_count \in [Group -> Int]
  /\ group_name \in [Handle -> Group \union {None}]
  /\ is_initialized \in [Handle -> BOOLEAN]

\* CountersAreExact, counter by counter.
IdleCount == idle_socket_count = Cardinality(AllIdle)

JobCount == connecting_socket_count = Cardinality(AllJobs)

HolderCount ==
  /\ handed_out_socket_count = Cardinality(Holders)
  /\ \A g \in Group : active_socket_count[g] = Cardinality(HoldersIn(g))

\* Group::SanityCheck.
UnassignedBound ==
  \A g \in Group : unassigned_job_count[g] \in 0 .. Cardinality(jobs[g])

\* What the pool and the handle h know of the request of h, but for the group.
RequestState(h) ==
  /\ \A g \in Group : h \in Values(pending_requests[g]) =>
       /\ group_name[h] = g
       /\ ~ is_initialized[h]
       /\ pending_callback_map[h] = None
       /\ socket[h] = None
  /\ pending_callback_map[h] # None =>
       group_name[h] # None /\ ~ is_initialized[h] /\ tasks[h] > 0
  /\ pending_callback_map[h] = "ok" => socket[h] # None
  /\ group_name[h] = None => socket[h] = None
  /\ group_name[h] # None /\ is_initialized[h] => socket[h] # None
  /\ group_name[h] # None /\ ~ is_initialized[h] /\ pending_callback_map[h] = None =>
       h \in Values(pending_requests[group_name[h]])

RequestStates == \A h \in Handle : RequestState(h)

\* A request is in the queue of a group once.
QueuesHoldOnce == \A g \in Group : NoDuplicates(pending_requests[g])

\* RemoveGroup is for groups that are empty.
RemovedAreEmpty == \A g \in Group \ group_map : IsEmpty(g)

\* The group of a preconnect stays until the loop of RequestSockets ends.
PreconnectGroupExists == frame.at = "preconnect" => frame.group \in group_map

\* The inductive invariant, over PoolInv.
BookInv ==
  /\ PoolInv
  /\ BookTypes
  /\ IdleCount
  /\ JobCount
  /\ HolderCount
  /\ UnassignedBound
  /\ RequestStates
  /\ QueuesHoldOnce
  /\ RemovedAreEmpty
  /\ PreconnectGroupExists

-----------------------------------------------------------------------------
\* There are finitely many connections in the pool, idle or connecting.
LEMMA ConnsAreFinite ==
  ASSUME ConnTypes
  PROVE  /\ AllIdle \subseteq Conn /\ AllJobs \subseteq Conn
         /\ IsFiniteSet(AllIdle) /\ IsFiniteSet(AllJobs)
         /\ \A g \in Group : /\ IsFiniteSet(idle_sockets[g])
                             /\ IsFiniteSet(jobs[g])
                             /\ idle_sockets[g] \subseteq AllIdle
                             /\ jobs[g] \subseteq AllJobs
<1>1. AllIdle \subseteq Conn /\ AllJobs \subseteq Conn
  BY DEF AllIdle, AllJobs, ConnTypes
<1>2. \A S \in SUBSET Conn : IsFiniteSet(S)
  BY ConstantsAssumption, FS_Subset
<1>3. \A g \in Group : idle_sockets[g] \subseteq Conn /\ jobs[g] \subseteq Conn
  BY DEF ConnTypes
<1>4. \A g \in Group : idle_sockets[g] \subseteq AllIdle /\ jobs[g] \subseteq AllJobs
  BY DEF AllIdle, AllJobs
<1> QED BY <1>1, <1>2, <1>3, <1>4

\* Handles have different sockets, so finitely many have one.
LEMMA HoldersAreFinite ==
  ASSUME ConnTypes, SocketInOnePlace
  PROVE  /\ IsFiniteSet(Holders)
         /\ \A g : IsFiniteSet(HoldersIn(g))
<1> DEFINE f == [h \in Holders |-> socket[h]]
<1>1. \A h \in Holders : h \in Handle /\ socket[h] \in Conn /\ socket[h] # None
  BY DEF Holders, ConnTypes
<1>2. \A h, k \in Handle : socket[h] # None /\ socket[h] = socket[k] => h = k
  BY OnePlaceElim
<1>3. f \in Injection(Holders, Conn)
  BY <1>1, <1>2 DEF Injection, IsInjective
<1>4. IsFiniteSet(Holders)
  BY <1>3, ConstantsAssumption, FS_Injection
<1>5. \A g : HoldersIn(g) \in SUBSET Holders
  BY DEF HoldersIn, Holders
<1> QED BY <1>4, <1>5, FS_Subset

\* The counters are numbers.
LEMMA CountersAreNumbers ==
  ASSUME ConnTypes, SocketInOnePlace, IdleCount, JobCount, HolderCount
  PROVE  /\ idle_socket_count \in Nat /\ connecting_socket_count \in Nat
         /\ handed_out_socket_count \in Nat
         /\ \A g \in Group : /\ active_socket_count[g] \in Nat
                             /\ Cardinality(jobs[g]) \in Nat
                             /\ Cardinality(idle_sockets[g]) \in Nat
<1>1. \A S : IsFiniteSet(S) => Cardinality(S) \in Nat
  BY FS_CardinalityType
<1> QED
  BY <1>1, ConnsAreFinite, HoldersAreFinite DEF IdleCount, JobCount, HolderCount

\* A queue holds finitely many requests.
LEMMA ValuesAreFinite ==
  ASSUME NEW q \in [Priority -> Seq(Handle)]
  PROVE  IsFiniteSet(Values(q)) /\ size(q) \in Nat
<1>1. ASSUME NEW p \in Priority PROVE IsFiniteSet(ToSet(q[p]))
  <2> DEFINE f == [i \in DOMAIN q[p] |-> q[p][i]]
  <2>1. DOMAIN q[p] = 1 .. Len(q[p]) /\ Len(q[p]) \in Nat
    BY LenProperties
  <2>2. IsFiniteSet(DOMAIN q[p])
    BY <2>1, FS_Interval
  <2>3. f \in Surjection(DOMAIN q[p], ToSet(q[p]))
    BY DEF Surjection, ToSet
  <2> QED BY <2>2, <2>3, FS_Surjection
<1> DEFINE T == {ToSet(q[p]) : p \in Priority}
           f == [p \in Priority |-> ToSet(q[p])]
<1>2. NumPriorities \in Nat
  BY ConstantsAssumption
<1>3. IsFiniteSet(Priority)
  BY <1>2, FS_Interval DEF Priority
<1>4. f \in Surjection(Priority, T)
  BY DEF Surjection
<1>5. IsFiniteSet(T)
  BY <1>3, <1>4, FS_Surjection
<1>6. IsFiniteSet(UNION T)
  BY <1>1, <1>5, FS_UNION
<1>7. Values(q) = UNION T
  BY DEF Values
<1> QED BY <1>6, <1>7, FS_CardinalityType DEF size

\* An empty queue holds no request.
LEMMA EmptyHasNoValues ==
  ASSUME NEW q \in [Priority -> Seq(Handle)]
  PROVE  /\ empty(q) <=> Values(q) = {}
         /\ empty(q) <=> size(q) = 0
<1>1. ASSUME empty(q) PROVE Values(q) = {}
  BY <1>1 DEF empty, Values, ToSet
<1>2. ASSUME ~ empty(q) PROVE Values(q) # {}
  <2>1. PICK p \in Priority : q[p] # << >>
    BY <1>2 DEF empty
  <2> QED BY <2>1, HeadInQueue
<1>3. Values(q) = {} <=> size(q) = 0
  BY ValuesAreFinite, FS_EmptySet DEF size
<1> QED BY <1>1, <1>2, <1>3

\* PopNextPendingRequest finds a request, when there is one.
LEMMA NextIsInQueue ==
  ASSUME BookTypes, NEW g \in Group, ~ empty(pending_requests[g])
  PROVE  /\ NextPendingRequest(g) \in Values(pending_requests[g])
         /\ NextPendingRequest(g) \in Handle
<1>1. NumPriorities - 1 \in Nat
  BY ConstantsAssumption
<1>2. pending_requests[g] \in [0 .. NumPriorities - 1 -> Seq(Handle)]
  BY DEF BookTypes, Priority
<1>3. FirstMax(pending_requests[g]) \in Values(pending_requests[g])
  BY <1>1, <1>2, FirstMaxProperties
<1>4. Values(pending_requests[g]) \subseteq Handle
  BY <1>2, ValuesType
<1> QED BY <1>3, <1>4 DEF NextPendingRequest

\* InsertPendingRequest, whether it goes to the front or to the back.
LEMMA InsertedProperties ==
  ASSUME NEW q \in [Priority -> Seq(Handle)], NEW h \in Handle, NEW p \in Priority
  PROVE  /\ InsertPendingRequest(q, h, p) \in [Priority -> Seq(Handle)]
         /\ Values(InsertPendingRequest(q, h, p)) = Values(q) \union {h}
         /\ NoDuplicates(q) /\ h \notin Values(q) =>
              NoDuplicates(InsertPendingRequest(q, h, p))
<1>1. CASE h \in IgnoreLimits
  <2>1. InsertPendingRequest(q, h, p) = InsertAtFront(q, h, p)
    BY <1>1, Zenon DEF InsertPendingRequest
  <2> QED BY <2>1, InsertAtFrontProperties
<1>2. CASE h \notin IgnoreLimits
  <2>1. InsertPendingRequest(q, h, p) = Insert(q, h, p)
    BY <1>2, Zenon DEF InsertPendingRequest
  <2> QED BY <2>1, InsertProperties
<1> QED BY <1>1, <1>2

-----------------------------------------------------------------------------
\* The idle sockets in D are deleted and added becomes idle: the count follows.
LEMMA IdleCountFollows ==
  ASSUME ConnTypes, IdleCount, NEW D \in SUBSET AllIdle, NEW g,
         NEW added \in SUBSET Conn, added \intersect AllIdle = {},
         added = {} \/ g \in Group, UpdateIdle(D, g, added)
  PROVE  /\ IdleCount'
         /\ AllIdle' = (AllIdle \ D) \union added
<1>1. \A x \in Group : idle_sockets'[x] =
        (idle_sockets[x] \ D) \union (IF x = g THEN added ELSE {})
  BY IdleAfter
<1>2. AllIdle' = (AllIdle \ D) \union added
  <2>1. AllIdle' = UNION {idle_sockets'[x] : x \in Group}
    BY DEF AllIdle
  <2>2. \A c : c \in AllIdle' <=> \E x \in Group : c \in idle_sockets'[x]
    BY <2>1
  <2>3. \A c : c \in AllIdle <=> \E x \in Group : c \in idle_sockets[x]
    BY DEF AllIdle
  <2>4. \A c : c \in AllIdle' <=> c \in (AllIdle \ D) \union added
    BY <1>1, <2>2, <2>3
  <2> QED BY <2>4
<1>3. IsFiniteSet(AllIdle) /\ IsFiniteSet(D) /\ IsFiniteSet(added)
  BY ConnsAreFinite, ConstantsAssumption, FS_Subset
<1>4. /\ IsFiniteSet(AllIdle \ D)
      /\ Cardinality(AllIdle \ D) = Cardinality(AllIdle) - Cardinality(D)
  <2>1. AllIdle \intersect D = D
    OBVIOUS
  <2> QED BY <1>3, <2>1, FS_Difference
<1>5. Cardinality(AllIdle') =
        Cardinality(AllIdle) - Cardinality(D) + Cardinality(added)
  <2>1. (AllIdle \ D) \intersect added = {}
    OBVIOUS
  <2>2. Cardinality(AllIdle') =
          Cardinality(AllIdle \ D) + Cardinality(added) - Cardinality({})
    BY <1>2, <1>3, <1>4, <2>1, FS_Union
  <2>3. /\ Cardinality(AllIdle \ D) \in Nat /\ Cardinality(added) \in Nat
        /\ Cardinality({}) = 0
    BY <1>3, <1>4, FS_CardinalityType, FS_EmptySet
  <2> QED BY <1>4, <2>2, <2>3
<1>6. idle_socket_count' =
        idle_socket_count - Cardinality(D) + Cardinality(added)
  BY DEF UpdateIdle
<1> QED BY <1>2, <1>5, <1>6 DEF IdleCount

\* A ConnectJob starts, with a connection that was not in use.
LEMMA JobCountAfterStart ==
  ASSUME ConnTypes, JobCount, NEW g \in Group, NEW c \in UnusedConn,
         jobs' = [jobs EXCEPT ![g] = @ \union {c}],
         connecting_socket_count' = connecting_socket_count + 1
  PROVE  /\ JobCount'
         /\ Cardinality(jobs'[g]) = Cardinality(jobs[g]) + 1
<1>1. c \in Conn /\ \A x \in Group : c \notin jobs[x]
  BY UnusedElim
<1>2. \A x \in Group : jobs'[x] = IF x = g THEN jobs[x] \union {c} ELSE jobs[x]
  BY DEF ConnTypes
<1>3. AllJobs' = UNION {jobs'[x] : x \in Group}
  BY DEF AllJobs
<1>4. AllJobs' = AllJobs \union {c} /\ c \notin AllJobs
  BY <1>1, <1>2, <1>3 DEF AllJobs
<1>5. IsFiniteSet(AllJobs) /\ IsFiniteSet(jobs[g])
  BY ConnsAreFinite
<1>6. Cardinality(AllJobs') = Cardinality(AllJobs) + 1
  BY <1>4, <1>5, FS_AddElement
<1>7. Cardinality(jobs'[g]) = Cardinality(jobs[g]) + 1
  <2>1. jobs'[g] = jobs[g] \union {c}
    BY <1>2
  <2>2. Cardinality(jobs[g] \union {c}) = Cardinality(jobs[g]) + 1
    BY <1>1, <1>5, FS_AddElement
  <2> QED BY <2>1, <2>2
<1> QED BY <1>6, <1>7 DEF JobCount

\* A ConnectJob is removed.
LEMMA JobCountAfterRemoval ==
  ASSUME ConnTypes, SocketInOnePlace, JobCount, NEW g \in Group, NEW c \in jobs[g],
         jobs' = [jobs EXCEPT ![g] = @ \ {c}],
         connecting_socket_count' = connecting_socket_count - 1
  PROVE  /\ JobCount'
         /\ Cardinality(jobs'[g]) = Cardinality(jobs[g]) - 1
         /\ Cardinality(jobs[g]) > 0
<1>1. \A x \in Group : x # g => c \notin jobs[x]
  BY OnePlaceElim
<1>2. \A x \in Group : jobs'[x] = IF x = g THEN jobs[x] \ {c} ELSE jobs[x]
  BY DEF ConnTypes
<1>3. AllJobs' = UNION {jobs'[x] : x \in Group}
  BY DEF AllJobs
<1>4. AllJobs' = AllJobs \ {c} /\ c \in AllJobs
  BY <1>1, <1>2, <1>3 DEF AllJobs
<1>5. IsFiniteSet(AllJobs) /\ IsFiniteSet(jobs[g])
  BY ConnsAreFinite
<1>6. Cardinality(jobs[g]) \in Nat /\ Cardinality(jobs[g]) # 0
  BY <1>5, FS_CardinalityType, FS_EmptySet
<1>7. Cardinality(AllJobs') = Cardinality(AllJobs) - 1
  BY <1>4, <1>5, FS_RemoveElement
<1>8. Cardinality(jobs'[g]) = Cardinality(jobs[g]) - 1
  <2>1. jobs'[g] = jobs[g] \ {c}
    BY <1>2
  <2>2. Cardinality(jobs[g] \ {c}) = Cardinality(jobs[g]) - 1
    BY <1>5, FS_RemoveElement
  <2> QED BY <2>1, <2>2
<1> QED BY <1>6, <1>7, <1>8 DEF JobCount

\* RemoveJob keeps no more unassigned jobs than jobs.
LEMMA UnassignedAfterRemovalBound ==
  ASSUME ConnTypes, UnassignedBound, NEW g \in Group, NEW c
  PROVE  /\ UnassignedAfterRemoval(c, g) \in 0 .. Cardinality(jobs[g] \ {c})
         /\ UnassignedAfterRemoval(c, g) <= unassigned_job_count[g]
<1>1. IsFiniteSet(jobs[g] \ {c}) /\ IsFiniteSet(jobs[g])
  BY ConnsAreFinite, FS_RemoveElement
<1>2. PICK n \in Nat : n = Cardinality(jobs[g] \ {c})
  BY <1>1, FS_CardinalityType
<1>3. PICK m \in Nat : m = unassigned_job_count[g]
  BY <1>1, FS_CardinalityType DEF UnassignedBound
<1>4. \E x \in {m, n} : \A y \in {m, n} : x <= y
  BY <1>2, <1>3
<1>5. Min({m, n}) \in {m, n} /\ \A y \in {m, n} : Min({m, n}) <= y
  BY <1>4 DEF Min
<1> QED BY <1>2, <1>3, <1>5 DEF UnassignedAfterRemoval

\* The handle h, which had none, is given a socket of its group.
LEMMA HolderCountAfterHandOut ==
  ASSUME ConnTypes, SocketInOnePlace, BookTypes, HolderCount,
         NEW g \in Group, NEW h \in Handle, NEW c \in Conn,
         socket[h] = None, HandOutSocket(c, h, g),
         group_name'[h] = g,
         \A k \in Handle : k # h => group_name'[k] = group_name[k]
  PROVE  HolderCount' /\ active_socket_count' \in [Group -> Int]
<1>1. c # None
  BY ConstantsAssumption
<1>2. \A k \in Handle : socket'[k] = IF k = h THEN c ELSE socket[k]
  BY DEF HandOutSocket, ConnTypes
<1>3. Holders' = Holders \union {h} /\ h \notin Holders
  BY <1>1, <1>2 DEF Holders
<1>4. \A x : HoldersIn(x)' = IF x = g THEN HoldersIn(x) \union {h} ELSE HoldersIn(x)
  BY <1>1, <1>2 DEF HoldersIn
<1>5. h \notin HoldersIn(g)
  BY DEF HoldersIn
<1>6. Cardinality(Holders') = Cardinality(Holders) + 1
  BY <1>3, HoldersAreFinite, FS_AddElement
<1>7. Cardinality(HoldersIn(g)') = Cardinality(HoldersIn(g)) + 1
  BY <1>4, <1>5, HoldersAreFinite, FS_AddElement
<1>8. /\ handed_out_socket_count' = handed_out_socket_count + 1
      /\ active_socket_count' = [active_socket_count EXCEPT ![g] = @ + 1]
  BY DEF HandOutSocket
<1>9. active_socket_count \in [Group -> Int]
  BY DEF BookTypes
<1>10. ASSUME NEW x \in Group
       PROVE  active_socket_count'[x] = Cardinality(HoldersIn(x)')
  <2>1. active_socket_count[x] = Cardinality(HoldersIn(x))
    BY DEF HolderCount
  <2>2. CASE x = g
    BY <1>7, <1>8, <1>9, <2>1, <2>2
  <2>3. CASE x # g
    BY <1>4, <1>8, <1>9, <2>1, <2>3
  <2> QED BY <2>2, <2>3
<1>11. handed_out_socket_count' = Cardinality(Holders')
  BY <1>6, <1>8 DEF HolderCount
<1>12. active_socket_count' \in [Group -> Int]
  BY <1>8, <1>9
<1> QED BY <1>10, <1>11, <1>12 DEF HolderCount

\* The handle h gives its socket back.
LEMMA HolderCountAfterRelease ==
  ASSUME ConnTypes, SocketInOnePlace, BookTypes, HolderCount,
         NEW g \in Group, NEW h \in Handle,
         socket[h] # None, group_name[h] = g, ClearHandle(h),
         handed_out_socket_count' = handed_out_socket_count - 1,
         active_socket_count' = [active_socket_count EXCEPT ![g] = @ - 1]
  PROVE  HolderCount' /\ active_socket_count' \in [Group -> Int]
<1>1. /\ \A k \in Handle : socket'[k] = IF k = h THEN None ELSE socket[k]
      /\ \A k \in Handle : k # h => group_name'[k] = group_name[k]
  BY DEF ClearHandle, ConnTypes, BookTypes
<1>2. Holders' = Holders \ {h} /\ h \in Holders
  BY <1>1 DEF Holders
<1>3. \A x : HoldersIn(x)' = IF x = g THEN HoldersIn(x) \ {h} ELSE HoldersIn(x)
  BY <1>1 DEF HoldersIn
<1>4. h \in HoldersIn(g)
  BY DEF HoldersIn
<1>5. Cardinality(Holders') = Cardinality(Holders) - 1
  BY <1>2, HoldersAreFinite, FS_RemoveElement
<1>6. Cardinality(HoldersIn(g)') = Cardinality(HoldersIn(g)) - 1
  BY <1>3, <1>4, HoldersAreFinite, FS_RemoveElement
<1>7. active_socket_count \in [Group -> Int]
  BY DEF BookTypes
<1>8. ASSUME NEW x \in Group
      PROVE  active_socket_count'[x] = Cardinality(HoldersIn(x)')
  <2>1. active_socket_count[x] = Cardinality(HoldersIn(x))
    BY DEF HolderCount
  <2>2. CASE x = g
    BY <1>6, <1>7, <2>1, <2>2
  <2>3. CASE x # g
    BY <1>3, <1>7, <2>1, <2>3
  <2> QED BY <2>2, <2>3
<1>9. handed_out_socket_count' = Cardinality(Holders')
  BY <1>5 DEF HolderCount
<1>10. active_socket_count' \in [Group -> Int]
  BY <1>7
<1> QED BY <1>8, <1>9, <1>10 DEF HolderCount

\* No handle gets or loses a socket.
LEMMA HolderCountUnchanged ==
  ASSUME BookTypes, HolderCount,
         \A k \in Handle : socket'[k] # None <=> socket[k] # None,
         \A k \in Handle : socket[k] # None => group_name'[k] = group_name[k],
         UNCHANGED activeVars
  PROVE  HolderCount' /\ active_socket_count' \in [Group -> Int]
<1>1. Holders' = Holders
  BY DEF Holders
<1>2. \A g : HoldersIn(g)' = HoldersIn(g)
  BY DEF HoldersIn
<1> QED BY <1>1, <1>2 DEF HolderCount, activeVars, BookTypes

-----------------------------------------------------------------------------
\* What RequestSocketInternal may do, for the request of h or for a preconnect:
\* E are the idle sockets it deletes or hands out, c is the connection it hands
\* out, and a new one unless it was idle.
HandsOut(g, h, E, c, rv) ==
  /\ h # None /\ rv # "io_pending"
  /\ HandOutSocket(c, h, g) /\ UpdateIdle(E, g, {})
  /\ UNCHANGED jobVars

StartsJob(g, h, E, c, rv) ==
  /\ rv = "io_pending" /\ (h # None => unassigned_job_count[g] = 0)
  /\ AddConnectJob(c, g, h = None) /\ UpdateIdle(E, g, {})
  /\ NoSocketHandedOut

MakesIdle(g, h, E, c, rv) ==
  /\ rv = "ok" /\ h = None
  /\ UpdateIdle(E, g, {c}) /\ NoSocketHandedOut
  /\ UNCHANGED jobVars

TakesJob(g, h, E, rv) ==
  /\ rv = "io_pending" /\ h # None
  /\ TryToUseUnassignedConnectJob(g)
  /\ UpdateIdle(E, g, {}) /\ NoSocketHandedOut
  /\ UNCHANGED <<jobs, connecting_socket_count>>

GetsNothing(g, h, E, rv) ==
  /\ rv = "ok" => FALSE
  /\ UpdateIdle(E, g, {}) /\ NoSocketHandedOut
  /\ UNCHANGED jobVars

\* Those are the outcomes.
LEMMA RequestOutcomes ==
  ASSUME NEW g \in Group, NEW h, NEW D \in SUBSET AllIdle, NEW rv,
         RequestSocketInternal(g, h, D, rv)
  PROVE  /\ rv = "ok" \/ rv = "error" \/ rv = "io_pending"
         /\ \E E \in SUBSET AllIdle :
              \/ \E c \in idle_sockets[g] : HandsOut(g, h, E, c, rv)
              \/ UnusedConn # {} /\ HandsOut(g, h, E, NewConn, rv)
              \/ UnusedConn # {} /\ StartsJob(g, h, E, NewConn, rv)
              \/ UnusedConn # {} /\ MakesIdle(g, h, E, NewConn, rv)
              \/ TakesJob(g, h, E, rv)
              \/ GetsNothing(g, h, E, rv)
<1> DEFINE usable == idle_sockets[g] \ D
           full == TotalSockets - Cardinality(D) >= max_sockets /\ h \notin IgnoreLimits
           elsewhere == (AllIdle \ D) \ idle_sockets[g]
           victims == IF full THEN {{c} : c \in elsewhere} ELSE {}
           vs == IF victims = {} THEN {{}} ELSE victims
<1>0. idle_sockets[g] \subseteq AllIdle
  BY DEF AllIdle
<1>1. CASE /\ h # None /\ rv = "ok"
           /\ \E c \in usable : AssignIdleSocketToRequest(c, h, g, D)
           /\ UNCHANGED jobVars
  <2>1. PICK c \in usable : AssignIdleSocketToRequest(c, h, g, D)
    BY <1>1
  <2>2. D \union {c} \in SUBSET AllIdle /\ c \in idle_sockets[g]
    BY <1>0, <2>1
  <2>3. HandsOut(g, h, D \union {c}, c, rv)
    BY <1>1, <2>1 DEF HandsOut, AssignIdleSocketToRequest
  <2> QED BY <1>1, <2>2, <2>3
<1>2. CASE /\ h # None /\ rv = "io_pending" /\ TryToUseUnassignedConnectJob(g)
           /\ UpdateIdle(D, g, {}) /\ NoSocketHandedOut
           /\ UNCHANGED <<jobs, connecting_socket_count, born>>
  <2>1. TakesJob(g, h, D, rv)
    BY <1>2 DEF TakesJob
  <2> QED BY <1>2, <2>1
<1>3. CASE /\ rv = "io_pending" \/ rv = "error"
           /\ UpdateIdle(D, g, {}) /\ NoSocketHandedOut /\ UNCHANGED jobVars
  <2>1. GetsNothing(g, h, D, rv)
    BY <1>3 DEF GetsNothing
  <2> QED BY <1>3, <2>1
<1>4. CASE /\ UnusedConn # {} /\ (h # None => unassigned_job_count[g] = 0)
           /\ \E V \in vs :
                \/ /\ rv = "ok" /\ UNCHANGED jobVars
                   /\ \/ h # None /\ HandOutSocket(NewConn, h, g)
                         /\ UpdateIdle(D \union V, g, {})
                      \/ h = None /\ NoSocketHandedOut
                         /\ UpdateIdle(D \union V, g, {NewConn})
                \/ /\ rv = "io_pending"
                   /\ AddConnectJob(NewConn, g, h = None)
                   /\ UpdateIdle(D \union V, g, {}) /\ NoSocketHandedOut
                \/ /\ rv = "error"
                   /\ \/ h # None /\ HandOutSocket(NewConn, h, g)
                      \/ NoSocketHandedOut
                   /\ UpdateIdle(D \union V, g, {}) /\ UNCHANGED jobVars
  <2>1. \A V \in vs : D \union V \in SUBSET AllIdle
    OBVIOUS
  <2>2. PICK c : c = NewConn
    OBVIOUS
  <2>3. PICK E \in SUBSET AllIdle :
                \/ /\ rv = "ok" /\ UNCHANGED jobVars
                   /\ \/ h # None /\ HandOutSocket(c, h, g)
                         /\ UpdateIdle(E, g, {})
                      \/ h = None /\ NoSocketHandedOut
                         /\ UpdateIdle(E, g, {c})
                \/ /\ rv = "io_pending"
                   /\ AddConnectJob(c, g, h = None)
                   /\ UpdateIdle(E, g, {}) /\ NoSocketHandedOut
                \/ /\ rv = "error"
                   /\ \/ h # None /\ HandOutSocket(c, h, g)
                      \/ NoSocketHandedOut
                   /\ UpdateIdle(E, g, {}) /\ UNCHANGED jobVars
    BY <1>4, <2>1, <2>2, Zenon
  <2>4. \/ HandsOut(g, h, E, c, rv)
        \/ StartsJob(g, h, E, c, rv)
        \/ MakesIdle(g, h, E, c, rv)
        \/ GetsNothing(g, h, E, rv)
    BY <1>4, <2>3 DEF HandsOut, StartsJob, MakesIdle, GetsNothing
  <2>5. rv = "ok" \/ rv = "error" \/ rv = "io_pending"
    BY <2>3
  <2> QED BY <1>4, <2>2, <2>4, <2>5, Zenon
<1> QED
  BY <1>1, <1>2, <1>3, <1>4 DEF RequestSocketInternal

\* RequestSocketInternal keeps the counts of what the pool has, and touches the
\* other groups only to close their idle sockets.
LEMMA RequestKeepsCounts ==
  ASSUME PoolInv, BookTypes, IdleCount, JobCount, UnassignedBound,
         NEW g \in Group, NEW h \in Handle \union {None},
         NEW D, D \subseteq AllIdle, NEW rv \in Outcome,
         RequestSocketInternal(g, h, D, rv)
  PROVE  /\ IdleCount' /\ JobCount'
         /\ unassigned_job_count' \in [Group -> Int] /\ UnassignedBound'
         /\ \A x \in Group : x # g => /\ idle_sockets'[x] \subseteq idle_sockets[x]
                                      /\ jobs'[x] = jobs[x]
         /\ \/ h # None /\ rv # "io_pending" /\ \E c \in Conn : HandOutSocket(c, h, g)
            \/ NoSocketHandedOut /\ (rv = "ok" => h = None)
<1>1. PICK c : c = NewConn
  OBVIOUS
<1>2. UnusedConn # {} => c \in UnusedConn
  BY <1>1, NewConnIsUnused
<1>3. PICK E \in SUBSET AllIdle :
         \/ \E d \in idle_sockets[g] : HandsOut(g, h, E, d, rv)
         \/ UnusedConn # {} /\ HandsOut(g, h, E, c, rv)
         \/ UnusedConn # {} /\ StartsJob(g, h, E, c, rv)
         \/ UnusedConn # {} /\ MakesIdle(g, h, E, c, rv)
         \/ TakesJob(g, h, E, rv)
         \/ GetsNothing(g, h, E, rv)
  BY <1>1, RequestOutcomes, Zenon
<1>4. ConnTypes
  BY DEF PoolInv, ConnInv
<1>5. UnusedConn # {} => c \in Conn /\ c \notin AllIdle
  BY <1>2 DEF UnusedConn
<1>6. unassigned_job_count \in [Group -> Int]
  BY DEF BookTypes
<1>7. \A x \in Group : Cardinality(jobs[x]) \in Nat
  BY <1>4, ConnsAreFinite, FS_CardinalityType
<1>8. \A x \in Group : unassigned_job_count[x] \in 0 .. Cardinality(jobs[x])
  BY DEF UnassignedBound
<1>9. ASSUME UpdateIdle(E, g, {})
      PROVE  IdleCount' /\ \A x \in Group : x # g => idle_sockets'[x] \subseteq idle_sockets[x]
  BY <1>4, <1>9, IdleCountFollows, IdleAfter
<1>10. ASSUME UNCHANGED jobVars
       PROVE  /\ JobCount' /\ unassigned_job_count' \in [Group -> Int]
              /\ UnassignedBound' /\ jobs' = jobs
  BY <1>10, <1>6 DEF jobVars, JobCount, AllJobs, UnassignedBound
<1>11. CASE \E d \in Conn : HandsOut(g, h, E, d, rv)
  BY <1>9, <1>10, <1>11 DEF HandsOut
<1>12. CASE UnusedConn # {} /\ StartsJob(g, h, E, c, rv)
  <2>1. /\ jobs' = [jobs EXCEPT ![g] = @ \union {c}]
        /\ connecting_socket_count' = connecting_socket_count + 1
        /\ unassigned_job_count' =
             [unassigned_job_count EXCEPT ![g] = IF h = None THEN @ + 1 ELSE @]
    BY <1>12 DEF StartsJob, AddConnectJob
  <2>2. JobCount' /\ Cardinality(jobs'[g]) = Cardinality(jobs[g]) + 1
    BY <1>2, <1>4, <1>12, <2>1, JobCountAfterStart
  <2>3. \A x \in Group : x # g => jobs'[x] = jobs[x]
    BY <1>4, <2>1 DEF ConnTypes
  <2>4. unassigned_job_count' \in [Group -> Int]
    BY <1>6, <2>1
  <2>5. ASSUME NEW x \in Group
        PROVE  unassigned_job_count'[x] \in 0 .. Cardinality(jobs'[x])
    <3>1. CASE x = g
      <4>1. unassigned_job_count'[g] \in {unassigned_job_count[g], unassigned_job_count[g] + 1}
        BY <1>6, <2>1
      <4> QED BY <1>7, <1>8, <2>2, <3>1, <4>1
    <3>2. CASE x # g
      BY <1>6, <1>8, <2>1, <2>3, <3>2
    <3> QED BY <3>1, <3>2
  <2>6. UnassignedBound'
    BY <2>5 DEF UnassignedBound
  <2> QED BY <1>9, <1>12, <2>2, <2>3, <2>4, <2>6 DEF StartsJob
<1>13. CASE UnusedConn # {} /\ MakesIdle(g, h, E, c, rv)
  <2>1. UpdateIdle(E, g, {c}) /\ {c} \in SUBSET Conn /\ {c} \intersect AllIdle = {}
    BY <1>5, <1>13 DEF MakesIdle
  <2>2. IdleCount' /\ \A x \in Group : x # g => idle_sockets'[x] \subseteq idle_sockets[x]
    BY <1>4, <2>1, IdleCountFollows, IdleAfter
  <2> QED BY <1>10, <1>13, <2>2 DEF MakesIdle
<1>14. CASE TakesJob(g, h, E, rv)
  <2>1. /\ jobs' = jobs /\ connecting_socket_count' = connecting_socket_count
        /\ unassigned_job_count[g] > 0
        /\ unassigned_job_count' = [unassigned_job_count EXCEPT ![g] = @ - 1]
    BY <1>14 DEF TakesJob, TryToUseUnassignedConnectJob
  <2>2. unassigned_job_count' \in [Group -> Int]
    BY <1>6, <2>1
  <2>3. ASSUME NEW x \in Group
        PROVE  unassigned_job_count'[x] \in 0 .. Cardinality(jobs'[x])
    <3>1. CASE x = g
      <4>1. unassigned_job_count'[g] = unassigned_job_count[g] - 1
        BY <1>6, <2>1
      <4> QED BY <1>7, <1>8, <2>1, <3>1, <4>1
    <3>2. CASE x # g
      BY <1>6, <1>8, <2>1, <3>2
    <3> QED BY <3>1, <3>2
  <2>4. JobCount' /\ UnassignedBound'
    BY <2>1, <2>3 DEF JobCount, AllJobs, UnassignedBound
  <2> QED BY <1>9, <1>14, <2>1, <2>2, <2>4 DEF TakesJob
<1>15. CASE GetsNothing(g, h, E, rv)
  BY <1>9, <1>10, <1>15 DEF GetsNothing
<1>16. idle_sockets[g] \subseteq Conn
  BY <1>4 DEF ConnTypes
<1> QED
  BY <1>3, <1>5, <1>11, <1>12, <1>13, <1>14, <1>15, <1>16

-----------------------------------------------------------------------------
\* A step that the request of k does not notice.
SameRequest(k) ==
  /\ group_name'[k] = group_name[k]
  /\ is_initialized'[k] = is_initialized[k]
  /\ socket'[k] = socket[k]
  /\ pending_callback_map'[k] = pending_callback_map[k]
  /\ tasks'[k] = tasks[k]
  /\ \A x \in Group : k \in Values(pending_requests'[x])
                        <=> k \in Values(pending_requests[x])

LEMMA SameRequestKeeps ==
  ASSUME BookTypes, NEW k \in Handle, RequestState(k), SameRequest(k)
  PROVE  RequestState(k)'
<1>1. group_name[k] \in Group \union {None}
  BY DEF BookTypes
<1> QED BY <1>1 DEF RequestState, SameRequest

\* A handle that has not asked is nowhere.
LEMMA NotAsked ==
  ASSUME BookTypes, NEW h \in Handle, RequestState(h), group_name[h] = None
  PROVE  /\ socket[h] = None /\ pending_callback_map[h] = None
         /\ \A x \in Group : h \notin Values(pending_requests[x])
<1>1. None \notin Group
  BY ConstantsAssumption
<1> QED BY <1>1 DEF RequestState

\* A handle in the queue of a group waits there only, and has no socket.
LEMMA Waiting ==
  ASSUME NEW h \in Handle, RequestState(h), NEW g \in Group,
         h \in Values(pending_requests[g])
  PROVE  /\ socket[h] = None /\ pending_callback_map[h] = None
         /\ group_name[h] = g /\ ~ is_initialized[h]
         /\ \A x \in Group : h \in Values(pending_requests[x]) => x = g
BY DEF RequestState

\* ClientSocketHandle::Init: what becomes of the handle.
LEMMA RequestSocketKeepsBooks ==
  ASSUME BookInv, NEW h \in Handle, NEW g \in Group, NEW p \in Priority,
         RequestSocket(h, g, p)
  PROVE  BookInv'
<1> USE DEF BookInv
<1>1. PICK D \in SUBSET AllIdle, rv \in Outcome :
         /\ RequestSocketInternal(g, h, D, rv)
         /\ pending_requests' =
              IF rv = "io_pending"
                THEN [pending_requests EXCEPT ![g] = InsertPendingRequest(@, h, p)]
                ELSE pending_requests
         /\ group_name' =
              [group_name EXCEPT ![h] =
                 IF rv = "error" /\ socket'[h] = None THEN None ELSE g]
         /\ is_initialized' =
              [is_initialized EXCEPT ![h] = rv # "io_pending" /\ socket'[h] # None]
  BY DEF RequestSocket
<1>2. /\ group_name[h] = None /\ group_map' = GroupsAfterCleanup(g)
      /\ UNCHANGED <<pending_callback_map, tasks, pool_generation_number, frame>>
      /\ frame = Ready
  BY DEF RequestSocket
<1>3. PoolInv'
  BY RequestSocketKeeps
<1>4. h # None /\ None \notin Group /\ None \notin Conn /\ None # "ok"
  BY ConstantsAssumption
<1>5. /\ IdleCount' /\ JobCount'
      /\ unassigned_job_count' \in [Group -> Int] /\ UnassignedBound'
      /\ \A x \in Group : x # g => /\ idle_sockets'[x] \subseteq idle_sockets[x]
                                   /\ jobs'[x] = jobs[x]
      /\ \/ rv # "io_pending" /\ \E c \in Conn : HandOutSocket(c, h, g)
         \/ NoSocketHandedOut /\ rv # "ok"
  <2>1. RequestSocketInternal(g, h, D, rv) /\ D \subseteq AllIdle
    BY <1>1
  <2>2. h \in Handle \union {None}
    OBVIOUS
  <2>3. /\ PoolInv /\ BookTypes /\ IdleCount /\ JobCount /\ UnassignedBound
    OBVIOUS
  <2> HIDE DEF BookInv
  <2> QED BY <1>4, <2>1, <2>2, <2>3, RequestKeepsCounts
<1>6. /\ socket[h] = None /\ pending_callback_map[h] = None
      /\ \A x \in Group : h \notin Values(pending_requests[x])
  BY <1>2, NotAsked DEF RequestStates
<1>7. PICK q \in [Priority -> Seq(Handle)] :
        /\ q = InsertPendingRequest(pending_requests[g], h, p)
        /\ Values(q) = Values(pending_requests[g]) \union {h}
        /\ NoDuplicates(q)
  <2>1. pending_requests[g] \in [Priority -> Seq(Handle)]
    BY DEF BookTypes
  <2> QED BY <1>6, <2>1, InsertedProperties DEF QueuesHoldOnce
<1>8. /\ pending_requests' \in [Group -> [Priority -> Seq(Handle)]]
      /\ \A x \in Group : pending_requests'[x] =
           IF x = g /\ rv = "io_pending" THEN q ELSE pending_requests[x]
  BY <1>1, <1>7 DEF BookTypes
<1>9. /\ group_name' \in [Handle -> Group \union {None}]
      /\ \A k \in Handle : k # h => group_name'[k] = group_name[k]
      /\ group_name'[h] = IF rv = "error" /\ socket'[h] = None THEN None ELSE g
  BY <1>1 DEF BookTypes
<1>10. is_initialized' \in [Handle -> BOOLEAN]
  <2>1. is_initialized \in [Handle -> BOOLEAN]
    BY DEF BookTypes
  <2> QED BY <1>1, <2>1, Zenon
<1>11. /\ \A k \in Handle : k # h => is_initialized'[k] = is_initialized[k]
       /\ is_initialized'[h] <=> rv # "io_pending" /\ socket'[h] # None
  BY <1>1 DEF BookTypes
<1>12. /\ HolderCount' /\ active_socket_count' \in [Group -> Int]
       /\ \A k \in Handle : k # h => socket'[k] = socket[k]
       /\ \A x \in Group : x # g => active_socket_count'[x] = active_socket_count[x]
       /\ rv = "io_pending" => socket'[h] = None
       /\ rv = "ok" => socket'[h] # None
  <2>1. ConnTypes /\ SocketInOnePlace
    BY DEF PoolInv, ConnInv
  <2>2. CASE rv # "io_pending" /\ \E c \in Conn : HandOutSocket(c, h, g)
    <3>1. PICK c \in Conn : HandOutSocket(c, h, g)
      BY <2>2
    <3>2. socket'[h] = c /\ \A k \in Handle : k # h => socket'[k] = socket[k]
      BY <2>1, <3>1 DEF HandOutSocket, ConnTypes
    <3>3. c # None
      BY <1>4
    <3>4. group_name'[h] = g
      BY <1>9, <3>2, <3>3
    <3>5. HolderCount' /\ active_socket_count' \in [Group -> Int]
      BY <1>6, <1>9, <2>1, <3>1, <3>4, HolderCountAfterHandOut
    <3>6. \A x \in Group : x # g => active_socket_count'[x] = active_socket_count[x]
      BY <3>1 DEF HandOutSocket, BookTypes
    <3> QED BY <2>2, <3>2, <3>3, <3>5, <3>6
  <2>3. CASE NoSocketHandedOut /\ rv # "ok"
    <3>1. socket' = socket /\ UNCHANGED activeVars
      BY <2>3 DEF NoSocketHandedOut
    <3>2. HolderCount' /\ active_socket_count' \in [Group -> Int]
      BY <1>6, <1>9, <3>1, HolderCountUnchanged
    <3> QED BY <1>6, <2>3, <3>1, <3>2 DEF activeVars
  <2> QED BY <1>5, <2>2, <2>3
<1>13. BookTypes'
  BY <1>2, <1>5, <1>8, <1>9, <1>10, <1>12 DEF BookTypes
<1>14. RequestStates'
  <2>1. ASSUME NEW k \in Handle, k # h PROVE RequestState(k)'
    <3>1. SameRequest(k)
      BY <1>2, <1>7, <1>8, <1>9, <1>11, <1>12, <2>1 DEF SameRequest
    <3> QED BY <3>1, SameRequestKeeps DEF RequestStates
  <2>2. RequestState(h)'
    <3>1. pending_callback_map'[h] = None
      BY <1>2, <1>6
    <3>2. \A x \in Group : h \in Values(pending_requests'[x]) <=> x = g /\ rv = "io_pending"
      BY <1>6, <1>7, <1>8
    <3>3. CASE rv = "io_pending"
      <4>1. group_name'[h] = g /\ socket'[h] = None /\ ~ is_initialized'[h]
        BY <1>9, <1>11, <1>12, <3>3
      <4> QED BY <1>4, <3>1, <3>2, <3>3, <4>1 DEF RequestState
    <3>4. CASE rv # "io_pending" /\ socket'[h] # None
      <4>1. group_name'[h] = g /\ is_initialized'[h]
        BY <1>9, <1>11, <3>4
      <4> QED BY <1>4, <3>1, <3>2, <3>4, <4>1 DEF RequestState
    <3>5. CASE rv # "io_pending" /\ socket'[h] = None
      <4>1. rv = "error"
        BY <1>12, <3>5 DEF Outcome, Result
      <4>2. group_name'[h] = None
        BY <1>9, <3>5, <4>1
      <4> QED BY <1>4, <3>1, <3>2, <3>5, <4>2 DEF RequestState
    <3> QED BY <3>3, <3>4, <3>5
  <2> QED BY <2>1, <2>2 DEF RequestStates
<1>15. QueuesHoldOnce'
  BY <1>7, <1>8 DEF QueuesHoldOnce
<1>16. RemovedAreEmpty'
  <2>1. ASSUME NEW x \in Group, x \notin group_map' PROVE IsEmpty(x)'
    <3>1. CASE x \in group_map \/ x = g
      BY <1>2, <2>1, <3>1 DEF GroupsAfterCleanup
    <3>2. CASE x \notin group_map /\ x # g
      <4>1. IsEmpty(x)
        BY <3>2 DEF RemovedAreEmpty
      <4> QED BY <1>5, <1>8, <1>12, <3>2, <4>1 DEF IsEmpty
    <3> QED BY <3>1, <3>2
  <2> QED BY <2>1 DEF RemovedAreEmpty
<1>17. PreconnectGroupExists'
  BY <1>2, FrameFacts DEF PreconnectGroupExists
<1> QED
  BY <1>3, <1>5, <1>12, <1>13, <1>14, <1>15, <1>16, <1>17

-----------------------------------------------------------------------------
\* A step that touches neither requests nor handles.
LEMMA RequestsUnchanged ==
  ASSUME BookTypes, RequestStates, QueuesHoldOnce,
         UNCHANGED <<pending_requests, pending_callback_map, tasks, group_name,
                     socket, is_initialized>>
  PROVE  RequestStates' /\ QueuesHoldOnce'
<1>1. ASSUME NEW k \in Handle PROVE RequestState(k)'
  <2>1. SameRequest(k)
    BY DEF SameRequest
  <2> QED BY <2>1, SameRequestKeeps DEF RequestStates
<1> QED BY <1>1 DEF RequestStates, QueuesHoldOnce

\* A group that was removed stays empty when nothing is added to it.
LEMMA StaysEmpty ==
  ASSUME RemovedAreEmpty,
         \A x \in Group : x \notin group_map' =>
           \/ IsEmpty(x)'
           \/ /\ x \notin group_map
              /\ idle_sockets'[x] \subseteq idle_sockets[x]
              /\ jobs'[x] \subseteq jobs[x]
              /\ active_socket_count'[x] = active_socket_count[x]
              /\ pending_requests'[x] = pending_requests[x]
  PROVE  RemovedAreEmpty'
BY DEF RemovedAreEmpty, IsEmpty

\* A step that only deletes idle sockets, and groups that are then empty.
LEMMA IdleGoneKeepsBooks ==
  ASSUME BookInv, PoolInv', PreconnectGroupExists',
         NEW D, D \subseteq AllIdle, NEW g, UpdateIdle(D, g, {}),
         OnlyIdleSocketsChange,
         \A x \in group_map : x \notin group_map' => IsEmpty(x)'
  PROVE  BookInv'
<1> USE DEF BookInv
<1>1. /\ UNCHANGED <<pending_requests, pending_callback_map, tasks, group_name,
                     socket, pool_id, is_initialized, jobs, unassigned_job_count,
                     connecting_socket_count, active_socket_count,
                     handed_out_socket_count, pool_generation_number>>
  BY DEF OnlyIdleSocketsChange, requestVars, jobVars, activeVars, handleVars
<1>2. ConnTypes
  BY DEF PoolInv, ConnInv
<1>3. IdleCount' /\ \A x \in Group : idle_sockets'[x] \subseteq idle_sockets[x]
  BY <1>2, IdleCountFollows, IdleAfter
<1>4. JobCount' /\ UnassignedBound'
  BY <1>1 DEF JobCount, AllJobs, UnassignedBound
<1>5. HolderCount'
  BY <1>1, HolderCountUnchanged DEF activeVars
<1>6. RequestStates' /\ QueuesHoldOnce'
  BY <1>1, RequestsUnchanged
<1>7. BookTypes'
  BY <1>1 DEF BookTypes
<1>8. RemovedAreEmpty'
  BY <1>1, <1>3, StaysEmpty
<1> QED BY <1>3, <1>4, <1>5, <1>6, <1>7, <1>8

\* RequestSockets, up to its loop.
LEMMA RequestSocketsKeepsBooks ==
  ASSUME BookInv, NEW g \in Group, NEW n \in 1 .. max_sockets_per_group,
         RequestSockets(g, n)
  PROVE  BookInv'
<1>1. PICK D : D \subseteq AllIdle /\ UpdateIdle(D, g, {})
  BY DEF RequestSockets
<1>2. PoolInv'
  BY RequestSocketsKeeps DEF BookInv
<1>3. OnlyIdleSocketsChange /\ group_map' = {g} \union GroupsAfterCleanup(g)
  BY DEF RequestSockets
<1>4. \A x \in group_map : x \notin group_map' => IsEmpty(x)'
  BY <1>3 DEF GroupsAfterCleanup
<1>5. PreconnectGroupExists'
  <2>1. PICK m : frame' = Preconnect(g, m, m)
    BY DEF RequestSockets
  <2>2. frame'.group = g
    BY <2>1 DEF Preconnect, Ready
  <2> QED BY <1>3, <2>2 DEF PreconnectGroupExists
<1> QED BY <1>1, <1>2, <1>3, <1>4, <1>5, IdleGoneKeepsBooks

\* CloseOneIdleSocketExceptInGroup(NULL).
LEMMA CloseIdleSocketKeepsBooks ==
  ASSUME BookInv, PoolInv', PreconnectGroupExists',
         NEW g \in Group, NEW c, CloseIdleSocket(c, g)
  PROVE  BookInv'
<1>1. UpdateIdle({c}, g, {}) /\ OnlyIdleSocketsChange /\ c \in idle_sockets[g]
  BY DEF CloseIdleSocket
<1>2. {c} \subseteq AllIdle
  BY <1>1 DEF AllIdle
<1>3. \A x \in group_map : x \notin group_map' => IsEmpty(x)'
  BY DEF CloseIdleSocket
<1> QED BY <1>1, <1>2, <1>3, IdleGoneKeepsBooks

\* CloseIdleSockets, CloseIdleSocketsInGroup and CloseOneIdleSocket.
LEMMA CloseKeepsBooks ==
  ASSUME BookInv,
         CloseIdleSockets \/ (\E g \in Group : CloseIdleSocketsInGroup(g))
           \/ CloseOneIdleSocket
  PROVE  BookInv'
<1>1. frame' = frame /\ frame = Ready
  BY DEF CloseIdleSockets, CloseIdleSocketsInGroup, CloseOneIdleSocket
<1>2. PreconnectGroupExists'
  BY <1>1, FrameFacts DEF PreconnectGroupExists
<1>3. PoolInv'
  BY CloseKeeps DEF BookInv
<1>4. CASE CloseOneIdleSocket
  BY <1>2, <1>3, <1>4, CloseIdleSocketKeepsBooks DEF CloseOneIdleSocket
<1>5. CASE CloseIdleSockets
  <2>1. UpdateIdle(AllIdle, None, {}) /\ OnlyIdleSocketsChange
    BY <1>5 DEF CloseIdleSockets
  <2>2. \A x \in group_map : x \notin group_map' => IsEmpty(x)'
    BY <1>5 DEF CloseIdleSockets
  <2> QED BY <1>2, <1>3, <2>1, <2>2, IdleGoneKeepsBooks
<1>6. CASE \E g \in Group : CloseIdleSocketsInGroup(g)
  <2>1. PICK g \in Group : CloseIdleSocketsInGroup(g)
    BY <1>6
  <2>2. UpdateIdle(idle_sockets[g], g, {}) /\ OnlyIdleSocketsChange
    BY <2>1 DEF CloseIdleSocketsInGroup
  <2>3. \A x \in group_map : x \notin group_map' => IsEmpty(x)'
    BY <2>1 DEF CloseIdleSocketsInGroup
  <2>4. idle_sockets[g] \subseteq AllIdle
    BY DEF AllIdle
  <2> QED BY <1>2, <1>3, <2>2, <2>3, <2>4, IdleGoneKeepsBooks
<1> QED BY <1>4, <1>5, <1>6

\* A step that changes the stack and removes empty groups, and nothing else.
LEMMA NothingElseChanges ==
  ASSUME BookInv, PoolInv', PreconnectGroupExists',
         UNCHANGED <<requestVars, idleVars, jobVars, activeVars, handleVars,
                     backup_job_timer, pool_generation_number, born>>,
         \A x \in group_map : x \notin group_map' => IsEmpty(x)
  PROVE  BookInv'
<1> USE DEF BookInv
<1>1. /\ UNCHANGED <<pending_requests, pending_callback_map, tasks, group_name,
                     socket, pool_id, is_initialized, jobs, unassigned_job_count,
                     connecting_socket_count, active_socket_count, idle_sockets,
                     idle_socket_count, handed_out_socket_count,
                     pool_generation_number>>
  BY DEF requestVars, jobVars, activeVars, handleVars, idleVars
<1>2. IdleCount' /\ JobCount' /\ UnassignedBound'
  BY <1>1 DEF IdleCount, AllIdle, JobCount, AllJobs, UnassignedBound
<1>3. HolderCount'
  BY <1>1, HolderCountUnchanged DEF activeVars
<1>4. RequestStates' /\ QueuesHoldOnce'
  BY <1>1, RequestsUnchanged
<1>5. BookTypes'
  BY <1>1 DEF BookTypes
<1>6. RemovedAreEmpty'
  <2>1. \A x \in Group : IsEmpty(x)' <=> IsEmpty(x)
    BY <1>1 DEF IsEmpty
  <2> QED BY <1>1, <2>1, StaysEmpty
<1> QED BY <1>2, <1>3, <1>4, <1>5, <1>6

\* The end of RequestSockets.
LEMMA PreconnectDoneKeepsBooks ==
  ASSUME BookInv, PreconnectDone
  PROVE  BookInv'
<1>1. PoolInv'
  BY PreconnectDoneKeeps DEF BookInv
<1>2. PreconnectGroupExists'
  BY FrameFacts DEF PreconnectDone, PreconnectGroupExists
<1> QED BY <1>1, <1>2, NothingElseChanges DEF PreconnectDone

\* An iteration of the loop of RequestSockets.
LEMMA PreconnectOneKeepsBooks ==
  ASSUME BookInv, PreconnectOne
  PROVE  BookInv'
<1> USE DEF BookInv
<1>1. PICK g : g = frame.group
  OBVIOUS
<1>2. g \in Group /\ g \in group_map /\ frame.at = "preconnect"
  BY <1>1 DEF PreconnectOne, PoolInv, FrameHasGroup, PreconnectGroupExists
<1>3. PICK rv \in Outcome :
        /\ RequestSocketInternal(g, None, {}, rv)
        /\ frame' = IF rv = "error" THEN [frame EXCEPT !.left = 0]
                                    ELSE [frame EXCEPT !.left = @ - 1]
  BY <1>1 DEF PreconnectOne
<1>4. /\ UNCHANGED <<pending_requests, pending_callback_map, tasks, group_name,
                     is_initialized, pool_generation_number>>
      /\ group_map' = {x \in group_map :
            IsEmpty(x)' => x = g \/ idle_sockets'[x] = idle_sockets[x]}
  BY <1>1 DEF PreconnectOne
<1>5. PoolInv'
  BY PreconnectOneKeeps
<1>6. /\ IdleCount' /\ JobCount'
      /\ unassigned_job_count' \in [Group -> Int] /\ UnassignedBound'
      /\ \A x \in Group : x # g => /\ idle_sockets'[x] \subseteq idle_sockets[x]
                                   /\ jobs'[x] = jobs[x]
      /\ NoSocketHandedOut
  <2>1. PoolInv /\ BookTypes /\ IdleCount /\ JobCount /\ UnassignedBound
    OBVIOUS
  <2>2. None \in Handle \union {None} /\ {} \subseteq AllIdle
    OBVIOUS
  <2>3. RequestSocketInternal(g, None, {}, rv)
    BY <1>3
  <2> HIDE DEF BookInv
  <2> QED BY <1>2, <2>1, <2>2, <2>3, RequestKeepsCounts
<1>7. UNCHANGED <<socket, activeVars>>
  BY <1>6 DEF NoSocketHandedOut
<1>8. HolderCount' /\ active_socket_count' \in [Group -> Int]
  BY <1>4, <1>7, HolderCountUnchanged
<1>9. RequestStates' /\ QueuesHoldOnce'
  BY <1>4, <1>7, RequestsUnchanged
<1>10. BookTypes'
  BY <1>4, <1>6, <1>8 DEF BookTypes
<1>11. RemovedAreEmpty'
  BY <1>2, <1>4, <1>6, <1>7, StaysEmpty DEF activeVars
<1>12. PreconnectGroupExists'
  <2>1. frame \in Frames
    BY DEF PoolInv
  <2>2. frame'.group = g
    BY <1>1, <1>3, <2>1 DEF Frames
  <2> QED BY <1>2, <1>4, <2>2 DEF PreconnectGroupExists
<1> QED BY <1>5, <1>6, <1>8, <1>9, <1>10, <1>11, <1>12

\* An iteration of the loop of CheckForStalledSocketGroups.
LEMMA CheckForStalledKeepsBooks ==
  ASSUME BookInv, CheckForStalledSocketGroups
  PROVE  BookInv'
<1>1. PoolInv'
  BY CheckForStalledSocketGroupsKeeps DEF BookInv
<1>2. TopStalledGroups \subseteq Group
  BY DEF TopStalledGroups, StalledGroups, BookInv, PoolInv
<1>3. PreconnectGroupExists'
  <2>1. frame' = Ready \/ \E top \in Group : frame' = Slot(top)
    BY <1>2 DEF CheckForStalledSocketGroups
  <2> QED BY <2>1, FrameFacts DEF PreconnectGroupExists
<1>4. CASE \E g \in Group : \E c \in idle_sockets[g] : CloseIdleSocket(c, g)
  BY <1>1, <1>3, <1>4, CloseIdleSocketKeepsBooks
<1>5. CASE UNCHANGED <<group_map, idleVars>>
  <2>1. UNCHANGED <<requestVars, idleVars, jobVars, activeVars, handleVars,
                     backup_job_timer, pool_generation_number, born>>
    BY <1>5 DEF CheckForStalledSocketGroups, OnlyIdleSocketsChange
  <2> QED BY <1>1, <1>3, <1>5, <2>1, NothingElseChanges
<1> QED BY <1>4, <1>5 DEF CheckForStalledSocketGroups

-----------------------------------------------------------------------------
\* The handle h forgets the pool; it is in no queue, and its callback is not
\* pending any more.
LEMMA ClearedRequest ==
  ASSUME BookTypes, RequestStates, NEW h \in Handle, ClearHandle(h),
         ConnTypes,
         pending_callback_map'[h] = None,
         \A x \in Group : h \notin Values(pending_requests'[x]),
         \A k \in Handle : k # h =>
           /\ pending_callback_map'[k] = pending_callback_map[k]
           /\ tasks'[k] = tasks[k]
           /\ \A x \in Group : k \in Values(pending_requests'[x])
                                 <=> k \in Values(pending_requests[x])
  PROVE  /\ RequestStates'
         /\ group_name' \in [Handle -> Group \union {None}]
         /\ is_initialized' \in [Handle -> BOOLEAN]
<1>1. /\ group_name' = [group_name EXCEPT ![h] = None]
      /\ socket' = [socket EXCEPT ![h] = None]
      /\ is_initialized' = [is_initialized EXCEPT ![h] = FALSE]
  BY DEF ClearHandle
<1>2. /\ group_name' \in [Handle -> Group \union {None}]
      /\ group_name'[h] = None
      /\ \A k \in Handle : k # h => group_name'[k] = group_name[k]
  BY <1>1 DEF BookTypes
<1>3. is_initialized' \in [Handle -> BOOLEAN]
  <2>1. is_initialized \in [Handle -> BOOLEAN]
    BY DEF BookTypes
  <2> QED BY <1>1, <2>1, Zenon
<1>4. \A k \in Handle : k # h => is_initialized'[k] = is_initialized[k]
  BY <1>1 DEF BookTypes
<1>5. socket'[h] = None /\ \A k \in Handle : k # h => socket'[k] = socket[k]
  BY <1>1 DEF ConnTypes
<1>6. ASSUME NEW k \in Handle, k # h PROVE RequestState(k)'
  <2>1. SameRequest(k)
    BY <1>2, <1>4, <1>5, <1>6 DEF SameRequest
  <2> QED BY <2>1, SameRequestKeeps DEF RequestStates
<1>7. RequestState(h)'
  BY <1>2, <1>5, ConstantsAssumption DEF RequestState
<1> QED BY <1>2, <1>3, <1>6, <1>7 DEF RequestStates

\* ReleaseSocket, and the handle forgets the socket.
LEMMA ReleaseKeepsBooks ==
  ASSUME BookInv, NEW h \in Handle, NEW connected \in BOOLEAN,
         ReleaseSocket(h, connected), ClearHandle(h), socket[h] # None,
         \A x \in Group : h \notin Values(pending_requests[x]),
         pending_callback_map' = [pending_callback_map EXCEPT ![h] = None]
  PROVE  BookInv'
<1> USE DEF BookInv
<1>1. PICK g : g = group_name[h]
  OBVIOUS
<1>2. g \in Group /\ g \in group_map
  BY <1>1 DEF ReleaseSocket, PoolInv
<1>3. /\ handed_out_socket_count' = handed_out_socket_count - 1
      /\ active_socket_count' = [active_socket_count EXCEPT ![g] = @ - 1]
      /\ UpdateIdle({}, g, IF CanReuseSocket(h, connected) THEN {socket[h]} ELSE {})
      /\ frame' \in {Slot(g), Check}
      /\ UNCHANGED <<group_map, pending_requests, tasks, jobs, unassigned_job_count,
                     connecting_socket_count, pool_generation_number>>
  BY <1>1 DEF ReleaseSocket, AfterRelease, jobVars
<1>4. ConnTypes /\ SocketInOnePlace
  BY DEF PoolInv, ConnInv
<1>5. PoolInv'
  BY ReleaseKeeps
<1>6. /\ socket[h] \in Conn
      /\ \A x \in Group : socket[h] \notin idle_sockets[x]
  BY <1>4, OnePlaceElim DEF ConnTypes
<1>7. PICK A : /\ A = {} \/ A = {socket[h]}
               /\ UpdateIdle({}, g, A)
  BY <1>3
<1>8. A \subseteq Conn /\ A \intersect AllIdle = {}
  BY <1>6, <1>7 DEF AllIdle
<1>9. /\ IdleCount'
      /\ \A x \in Group : x # g => idle_sockets'[x] \subseteq idle_sockets[x]
  BY <1>2, <1>4, <1>7, <1>8, IdleCountFollows, IdleAfter
<1>10. JobCount' /\ UnassignedBound' /\ QueuesHoldOnce'
  BY <1>3 DEF JobCount, AllJobs, UnassignedBound, QueuesHoldOnce
<1>11. HolderCount' /\ active_socket_count' \in [Group -> Int]
  BY <1>1, <1>2, <1>3, <1>4, HolderCountAfterRelease
<1>12. /\ pending_callback_map' \in [Handle -> Result \union {None}]
       /\ pending_callback_map'[h] = None
       /\ \A k \in Handle : k # h => pending_callback_map'[k] = pending_callback_map[k]
  BY DEF BookTypes
<1>13. /\ RequestStates'
       /\ group_name' \in [Handle -> Group \union {None}]
       /\ is_initialized' \in [Handle -> BOOLEAN]
  BY <1>3, <1>4, <1>12, ClearedRequest
<1>14. BookTypes'
  BY <1>3, <1>11, <1>12, <1>13 DEF BookTypes
<1>15. RemovedAreEmpty'
  <2>1. \A x \in Group : x # g => active_socket_count'[x] = active_socket_count[x]
    BY <1>3 DEF BookTypes
  <2> QED BY <1>2, <1>3, <1>9, <2>1, StaysEmpty
<1>16. PreconnectGroupExists'
  BY <1>2, <1>3, FrameFacts DEF PreconnectGroupExists
<1> QED BY <1>5, <1>9, <1>10, <1>11, <1>13, <1>14, <1>15, <1>16

\* Reset of a handle that has a socket and was told so.
LEMMA ResetInitializedKeepsBooks ==
  ASSUME BookInv, NEW h \in Handle, ResetInitialized(h)
  PROVE  BookInv'
<1> USE DEF BookInv
<1>1. PICK connected \in BOOLEAN : ReleaseSocket(h, connected)
  BY DEF ResetInitialized
<1>2. ClearHandle(h) /\ pending_callback_map' = pending_callback_map /\ is_initialized[h]
  BY DEF ResetInitialized
<1>3. group_name[h] # None
  BY <1>1, ConstantsAssumption DEF ReleaseSocket, PoolInv
<1>4. /\ socket[h] # None /\ pending_callback_map[h] = None
      /\ \A x \in Group : h \notin Values(pending_requests[x])
  BY <1>2, <1>3 DEF RequestStates, RequestState
<1>5. pending_callback_map' = [pending_callback_map EXCEPT ![h] = None]
  BY <1>2, <1>4 DEF BookTypes
<1> QED BY <1>1, <1>2, <1>4, <1>5, ReleaseKeepsBooks

\* CancelRequest of a handle whose result is on its way.
LEMMA CancelCallbackKeepsBooks ==
  ASSUME BookInv, NEW h \in Handle, CancelCallback(h)
  PROVE  BookInv'
<1> USE DEF BookInv
<1>1. /\ ClearHandle(h) /\ pending_callback_map[h] # None /\ frame = Ready
      /\ pending_callback_map' = [pending_callback_map EXCEPT ![h] = None]
  BY DEF CancelCallback
<1>2. \A x \in Group : h \notin Values(pending_requests[x])
  BY <1>1 DEF RequestStates, RequestState
<1>3. CASE socket[h] # None
  <2>1. PICK connected \in BOOLEAN : ReleaseSocket(h, connected)
    BY <1>3 DEF CancelCallback
  <2> QED BY <1>1, <1>2, <1>3, <2>1, ReleaseKeepsBooks
<1>4. CASE socket[h] = None
  <2>1. UNCHANGED <<group_map, pending_requests, tasks, idle_sockets,
                    idle_socket_count, jobs, unassigned_job_count,
                    connecting_socket_count, active_socket_count,
                    handed_out_socket_count, pool_generation_number, frame>>
    BY <1>4 DEF CancelCallback, idleVars, jobVars, activeVars
  <2>2. PoolInv'
    BY CancelCallbackKeeps
  <2>3. ConnTypes
    BY DEF PoolInv, ConnInv
  <2>4. IdleCount' /\ JobCount' /\ UnassignedBound' /\ QueuesHoldOnce'
    BY <2>1 DEF IdleCount, AllIdle, JobCount, AllJobs, UnassignedBound, QueuesHoldOnce
  <2>5. /\ pending_callback_map' \in [Handle -> Result \union {None}]
        /\ pending_callback_map'[h] = None
        /\ \A k \in Handle : k # h => pending_callback_map'[k] = pending_callback_map[k]
    BY <1>1 DEF BookTypes
  <2>6. /\ RequestStates'
        /\ group_name' \in [Handle -> Group \union {None}]
        /\ is_initialized' \in [Handle -> BOOLEAN]
    BY <1>1, <1>2, <2>1, <2>3, <2>5, ClearedRequest
  <2>7. HolderCount'
    <3>1. /\ socket' = [socket EXCEPT ![h] = None]
          /\ group_name' = [group_name EXCEPT ![h] = None]
      BY <1>1 DEF ClearHandle
    <3>2. /\ \A k \in Handle : socket'[k] # None <=> socket[k] # None
          /\ \A k \in Handle : socket[k] # None => group_name'[k] = group_name[k]
      BY <1>4, <2>3, <3>1 DEF ConnTypes, BookTypes
    <3> QED BY <2>1, <3>2, HolderCountUnchanged DEF activeVars
  <2>8. BookTypes'
    BY <2>1, <2>5, <2>6 DEF BookTypes
  <2>9. RemovedAreEmpty'
    BY <2>1, StaysEmpty
  <2>10. PreconnectGroupExists'
    BY <2>1 DEF PreconnectGroupExists
  <2> QED BY <2>2, <2>4, <2>6, <2>7, <2>8, <2>9, <2>10
<1> QED BY <1>3, <1>4

\* A request is taken off the queue of its group.
LEMMA ErasedFromQueue ==
  ASSUME BookTypes, QueuesHoldOnce, NEW g \in Group, NEW h,
         h \in Values(pending_requests[g]),
         pending_requests' = [pending_requests EXCEPT ![g] = Erase(pending_requests[g], h)]
  PROVE  /\ pending_requests' \in [Group -> [Priority -> Seq(Handle)]]
         /\ QueuesHoldOnce'
         /\ h \notin Values(pending_requests'[g])
         /\ \A k, x : x \in Group /\ k # h =>
              (k \in Values(pending_requests'[x]) <=> k \in Values(pending_requests[x]))
         /\ \A x \in Group : x # g => pending_requests'[x] = pending_requests[x]
         /\ size(pending_requests'[g]) = size(pending_requests[g]) - 1
<1>1. pending_requests[g] \in [Priority -> Seq(Handle)] /\ NoDuplicates(pending_requests[g])
  BY DEF BookTypes, QueuesHoldOnce
<1>2. PICK q \in [Priority -> Seq(Handle)] :
        /\ q = Erase(pending_requests[g], h)
        /\ Values(pending_requests[g]) = Values(q) \union {h}
        /\ NoDuplicates(q) /\ h \notin Values(q)
  <2>1. PICK r \in [Priority -> Seq(Handle)] :
          r = pending_requests[g] /\ NoDuplicates(r) /\ h \in Values(r)
    BY <1>1
  <2>2. /\ Erase(r, h) \in [Priority -> Seq(Handle)]
        /\ Values(r) = Values(Erase(r, h)) \union {h}
        /\ NoDuplicates(r) => NoDuplicates(Erase(r, h)) /\ h \notin Values(Erase(r, h))
    BY <2>1, EraseProperties
  <2> QED BY <2>1, <2>2
<1>3. /\ pending_requests' \in [Group -> [Priority -> Seq(Handle)]]
      /\ \A x \in Group : pending_requests'[x] = IF x = g THEN q ELSE pending_requests[x]
  BY <1>2 DEF BookTypes
<1>4. QueuesHoldOnce'
  BY <1>2, <1>3 DEF QueuesHoldOnce
<1>5. size(q) = size(pending_requests[g]) - 1
  <2>1. Values(q) = Values(pending_requests[g]) \ {h}
    BY <1>2
  <2>2. IsFiniteSet(Values(pending_requests[g]))
    BY <1>1, ValuesAreFinite
  <2>3. Cardinality(Values(pending_requests[g]) \ {h})
          = Cardinality(Values(pending_requests[g])) - 1
    BY <1>1, <2>2, FS_RemoveElement
  <2> QED BY <2>1, <2>3 DEF size
<1> QED BY <1>2, <1>3, <1>4, <1>5

\* RemoveConnectJob keeps the counts of jobs.
LEMMA RemovedJobKeepsCounts ==
  ASSUME ConnTypes, SocketInOnePlace, BookTypes, JobCount, UnassignedBound,
         NEW g \in Group, NEW c \in jobs[g], RemoveConnectJob(c, g)
  PROVE  /\ JobCount' /\ UnassignedBound'
         /\ unassigned_job_count' \in [Group -> Int]
         /\ \A x \in Group : jobs'[x] \subseteq jobs[x]
         /\ \A x \in Group : x # g => jobs'[x] = jobs[x]
<1>1. /\ connecting_socket_count' = connecting_socket_count - 1
      /\ jobs' = [jobs EXCEPT ![g] = @ \ {c}]
      /\ unassigned_job_count' =
           [unassigned_job_count EXCEPT ![g] = UnassignedAfterRemoval(c, g)]
  BY DEF RemoveConnectJob, RemoveJob
<1>2. JobCount'
  BY <1>1, JobCountAfterRemoval
<1>3. \A x \in Group : jobs'[x] = IF x = g THEN jobs[x] \ {c} ELSE jobs[x]
  BY <1>1 DEF ConnTypes
<1>4. PICK u : /\ u = UnassignedAfterRemoval(c, g)
               /\ u \in 0 .. Cardinality(jobs[g] \ {c})
  BY UnassignedAfterRemovalBound
<1>5. unassigned_job_count \in [Group -> Int]
  BY DEF BookTypes
<1>6. unassigned_job_count' \in [Group -> Int]
  BY <1>1, <1>4, <1>5
<1>7. ASSUME NEW x \in Group
      PROVE  unassigned_job_count'[x] \in 0 .. Cardinality(jobs'[x])
  <2>1. CASE x = g
    BY <1>1, <1>3, <1>4, <1>5, <2>1
  <2>2. CASE x # g
    BY <1>1, <1>3, <1>5, <2>2 DEF UnassignedBound
  <2> QED BY <2>1, <2>2
<1> QED BY <1>2, <1>3, <1>6, <1>7 DEF UnassignedBound

\* CancelRequest of a handle that waits.
LEMMA CancelPendingKeepsBooks ==
  ASSUME BookInv, NEW h \in Handle, CancelPending(h)
  PROVE  BookInv'
<1> USE DEF BookInv
<1>1. PICK g : g = group_name[h]
  OBVIOUS
<1>2. /\ g \in Group /\ g \in group_map /\ frame = Ready
      /\ h \in Values(pending_requests[g])
      /\ pending_callback_map[h] = None
      /\ pending_requests' =
           [pending_requests EXCEPT ![g] = Erase(pending_requests[g], h)]
      /\ frame' \in {frame, Check}
      /\ ClearHandle(h)
      /\ UNCHANGED <<group_map, pending_callback_map, tasks, idle_sockets,
                     idle_socket_count, active_socket_count,
                     handed_out_socket_count, pool_generation_number>>
  BY <1>1 DEF CancelPending, PoolInv, idleVars, activeVars
<1>3. \/ \E c \in jobs[g] : RemoveConnectJob(c, g)
      \/ UNCHANGED jobVars
  BY <1>1 DEF CancelPending
<1>4. PoolInv'
  BY CancelPendingKeeps
<1>5. ConnTypes /\ SocketInOnePlace
  BY DEF PoolInv, ConnInv
<1>6. /\ pending_requests' \in [Group -> [Priority -> Seq(Handle)]]
      /\ QueuesHoldOnce'
      /\ h \notin Values(pending_requests'[g])
      /\ \A k, x : x \in Group /\ k # h =>
           (k \in Values(pending_requests'[x]) <=> k \in Values(pending_requests[x]))
      /\ \A x \in Group : x # g => pending_requests'[x] = pending_requests[x]
  BY <1>2, ErasedFromQueue
<1>7. socket[h] = None /\ \A x \in Group : h \in Values(pending_requests[x]) => x = g
  BY <1>2, Waiting DEF RequestStates
<1>8. /\ RequestStates'
      /\ group_name' \in [Handle -> Group \union {None}]
      /\ is_initialized' \in [Handle -> BOOLEAN]
  <2>1. \A x \in Group : h \notin Values(pending_requests'[x])
    BY <1>6, <1>7
  <2>2. pending_callback_map' = pending_callback_map /\ tasks' = tasks
    BY <1>2
  <2> QED BY <1>2, <1>5, <1>6, <2>1, <2>2, ClearedRequest
<1>9. HolderCount'
  <2>1. /\ socket' = [socket EXCEPT ![h] = None]
        /\ group_name' = [group_name EXCEPT ![h] = None]
    BY <1>2 DEF ClearHandle
  <2>2. /\ \A k \in Handle : socket'[k] # None <=> socket[k] # None
        /\ \A k \in Handle : socket[k] # None => group_name'[k] = group_name[k]
    BY <1>5, <1>7, <2>1 DEF ConnTypes, BookTypes
  <2> QED BY <1>2, <2>2, HolderCountUnchanged DEF activeVars
<1>10. /\ JobCount' /\ UnassignedBound'
       /\ unassigned_job_count' \in [Group -> Int]
       /\ \A x \in Group : jobs'[x] \subseteq jobs[x]
  <2>1. CASE \E c \in jobs[g] : RemoveConnectJob(c, g)
    BY <1>2, <1>5, <2>1, RemovedJobKeepsCounts
  <2>2. CASE UNCHANGED jobVars
    BY <2>2 DEF jobVars, JobCount, AllJobs, UnassignedBound, BookTypes
  <2> QED BY <1>3, <2>1, <2>2
<1>11. IdleCount'
  BY <1>2 DEF IdleCount, AllIdle
<1>12. BookTypes'
  BY <1>2, <1>6, <1>8, <1>10 DEF BookTypes
<1>13. RemovedAreEmpty'
  BY <1>2, <1>6, <1>10, StaysEmpty
<1>14. PreconnectGroupExists'
  BY <1>2, FrameFacts DEF PreconnectGroupExists
<1> QED
  BY <1>4, <1>6, <1>8, <1>9, <1>10, <1>11, <1>12, <1>13, <1>14

\* SetPriority moves a request within the queue of its group.
LEMMA SetPriorityKeepsBooks ==
  ASSUME BookInv, NEW h \in Handle, NEW p \in Priority, SetPriority(h, p)
  PROVE  BookInv'
<1> USE DEF BookInv
<1>1. PICK g : g = group_name[h]
  OBVIOUS
<1>2. /\ g \in Group /\ h \in Values(pending_requests[g])
      /\ pending_requests' =
           [pending_requests EXCEPT
              ![g] = InsertPendingRequest(Erase(pending_requests[g], h), h, p)]
      /\ UNCHANGED <<group_map, pending_callback_map, tasks, idle_sockets,
                     idle_socket_count, jobs, unassigned_job_count,
                     connecting_socket_count, activeVars, group_name, socket,
                     is_initialized, pool_generation_number, frame>>
  BY <1>1 DEF SetPriority, PoolInv, idleVars, jobVars, handleVars
<1>3. PICK r \in [Priority -> Seq(Handle)] :
        r = pending_requests[g] /\ NoDuplicates(r) /\ h \in Values(r)
  BY <1>2 DEF BookTypes, QueuesHoldOnce
<1>4. PICK q \in [Priority -> Seq(Handle)] :
        /\ q = Erase(r, h)
        /\ Values(r) = Values(q) \union {h}
        /\ NoDuplicates(q) /\ h \notin Values(q)
  <2>1. /\ Erase(r, h) \in [Priority -> Seq(Handle)]
        /\ Values(r) = Values(Erase(r, h)) \union {h}
        /\ NoDuplicates(r) => NoDuplicates(Erase(r, h)) /\ h \notin Values(Erase(r, h))
    BY <1>3, EraseProperties
  <2> QED BY <1>3, <2>1
<1>5. PICK n \in [Priority -> Seq(Handle)] :
        /\ n = InsertPendingRequest(q, h, p)
        /\ Values(n) = Values(r) /\ NoDuplicates(n)
  BY <1>4, InsertedProperties
<1>6. /\ pending_requests' \in [Group -> [Priority -> Seq(Handle)]]
      /\ \A x \in Group : pending_requests'[x] = IF x = g THEN n ELSE pending_requests[x]
  BY <1>2, <1>3, <1>4, <1>5 DEF BookTypes
<1>7. \A x \in Group : Values(pending_requests'[x]) = Values(pending_requests[x])
  BY <1>3, <1>5, <1>6
<1>8. PoolInv'
  BY SetPriorityKeeps
<1>9. IdleCount' /\ JobCount' /\ UnassignedBound' /\ PreconnectGroupExists'
  BY <1>2 DEF IdleCount, AllIdle, JobCount, AllJobs, UnassignedBound, PreconnectGroupExists
<1>10. HolderCount'
  BY <1>2, HolderCountUnchanged
<1>11. RequestStates'
  <2>1. ASSUME NEW k \in Handle PROVE RequestState(k)'
    <3>1. SameRequest(k)
      BY <1>2, <1>7 DEF SameRequest
    <3> QED BY <3>1, SameRequestKeeps DEF RequestStates
  <2> QED BY <2>1 DEF RequestStates
<1>12. QueuesHoldOnce'
  BY <1>5, <1>6 DEF QueuesHoldOnce
<1>13. BookTypes'
  BY <1>2, <1>6 DEF BookTypes, activeVars
<1>14. RemovedAreEmpty'
  <2>1. g \in group_map
    <3>1. pending_requests[g] \in [Priority -> Seq(Handle)]
      BY <1>2 DEF BookTypes
    <3>2. ~ empty(pending_requests[g])
      BY <1>2, <3>1, EmptyHasNoValues
    <3> QED BY <1>2, <3>2 DEF RemovedAreEmpty, IsEmpty
  <2> QED BY <1>2, <1>6, <2>1, StaysEmpty DEF activeVars
<1> QED
  BY <1>8, <1>9, <1>10, <1>11, <1>12, <1>13, <1>14

\* The task that reports the result of a request.
LEMMA InvokeUserCallbackKeepsBooks ==
  ASSUME BookInv, NEW h \in Handle, InvokeUserCallback(h)
  PROVE  BookInv'
<1> USE DEF BookInv
<1>1. /\ tasks[h] > 0
      /\ tasks' = [tasks EXCEPT ![h] = @ - 1]
      /\ pending_callback_map' = [pending_callback_map EXCEPT ![h] = None]
      /\ UNCHANGED <<group_map, pending_requests, idle_sockets, idle_socket_count,
                     jobs, unassigned_job_count, connecting_socket_count,
                     activeVars, pool_generation_number, frame>>
  BY DEF InvokeUserCallback, idleVars, jobVars
<1>2. PoolInv'
  BY InvokeUserCallbackKeeps
<1>3. ConnTypes
  BY DEF PoolInv, ConnInv
<1>4. /\ IdleCount' /\ JobCount' /\ UnassignedBound' /\ QueuesHoldOnce'
      /\ PreconnectGroupExists'
  BY <1>1 DEF IdleCount, AllIdle, JobCount, AllJobs, UnassignedBound, QueuesHoldOnce,
              PreconnectGroupExists
<1>5. /\ pending_callback_map' \in [Handle -> Result \union {None}]
      /\ pending_callback_map'[h] = None
      /\ \A k \in Handle : k # h => pending_callback_map'[k] = pending_callback_map[k]
  BY <1>1 DEF BookTypes
<1>6. /\ tasks' \in [Handle -> Nat]
      /\ \A k \in Handle : k # h => tasks'[k] = tasks[k]
  BY <1>1 DEF BookTypes
<1>7. RemovedAreEmpty'
  BY <1>1, StaysEmpty DEF activeVars
<1>8. ASSUME /\ RequestStates' /\ HolderCount'
             /\ group_name' \in [Handle -> Group \union {None}]
             /\ is_initialized' \in [Handle -> BOOLEAN]
      PROVE  BookInv'
  <2>1. BookTypes'
    BY <1>1, <1>5, <1>6, <1>8 DEF BookTypes, activeVars
  <2> QED BY <1>2, <1>4, <1>7, <1>8, <2>1
<1>9. None # "ok" /\ None \notin Group
  BY ConstantsAssumption
<1>10. RequestState(h)
  BY DEF RequestStates
<1>11. CASE pending_callback_map[h] = None /\ UNCHANGED handleVars
  <2>1. UNCHANGED <<group_name, socket, is_initialized>>
    BY <1>11 DEF handleVars
  <2>2. ASSUME NEW k \in Handle, k # h PROVE RequestState(k)'
    <3>1. SameRequest(k)
      BY <1>1, <1>5, <1>6, <2>1, <2>2 DEF SameRequest
    <3> QED BY <3>1, SameRequestKeeps DEF RequestStates
  <2>3. RequestState(h)'
    BY <1>1, <1>5, <1>9, <1>10, <1>11, <2>1 DEF RequestState
  <2>4. HolderCount'
    BY <1>1, <2>1, HolderCountUnchanged
  <2> QED BY <1>8, <2>1, <2>2, <2>3, <2>4 DEF RequestStates, BookTypes
<1>12. CASE pending_callback_map[h] # None /\ ClearHandle(h) /\ socket[h] = None
  <2>1. \A x \in Group : h \notin Values(pending_requests'[x])
    BY <1>1, <1>10, <1>12 DEF RequestState
  <2>2. /\ RequestStates'
        /\ group_name' \in [Handle -> Group \union {None}]
        /\ is_initialized' \in [Handle -> BOOLEAN]
    BY <1>1, <1>3, <1>5, <1>6, <1>12, <2>1, ClearedRequest
  <2>3. HolderCount'
    <3>1. /\ socket' = [socket EXCEPT ![h] = None]
          /\ group_name' = [group_name EXCEPT ![h] = None]
      BY <1>12 DEF ClearHandle
    <3>2. /\ \A k \in Handle : socket'[k] # None <=> socket[k] # None
          /\ \A k \in Handle : socket[k] # None => group_name'[k] = group_name[k]
      BY <1>3, <1>12, <3>1 DEF ConnTypes, BookTypes
    <3> QED BY <1>1, <3>2, HolderCountUnchanged
  <2> QED BY <1>8, <2>2, <2>3
<1>13. CASE /\ pending_callback_map[h] # None
            /\ pending_callback_map[h] = "ok" \/ socket[h] # None
            /\ is_initialized' = [is_initialized EXCEPT ![h] = TRUE]
            /\ UNCHANGED <<group_name, socket, pool_id>>
  <2>1. is_initialized' \in [Handle -> BOOLEAN]
    <3>1. is_initialized \in [Handle -> BOOLEAN]
      BY DEF BookTypes
    <3> QED BY <1>13, <3>1, Zenon
  <2>2. is_initialized'[h] /\ \A k \in Handle : k # h => is_initialized'[k] = is_initialized[k]
    BY <1>13 DEF BookTypes
  <2>3. ASSUME NEW k \in Handle, k # h PROVE RequestState(k)'
    <3>1. SameRequest(k)
      BY <1>1, <1>5, <1>6, <1>13, <2>2, <2>3 DEF SameRequest
    <3> QED BY <3>1, SameRequestKeeps DEF RequestStates
  <2>4. socket[h] # None /\ group_name[h] # None
    BY <1>10, <1>13 DEF RequestState
  <2>5. \A x \in Group : h \notin Values(pending_requests[x])
    BY <1>10, <1>13 DEF RequestState
  <2>6. RequestState(h)'
    BY <1>1, <1>5, <1>9, <1>13, <2>2, <2>4, <2>5 DEF RequestState
  <2>7. HolderCount'
    BY <1>1, <1>13, HolderCountUnchanged
  <2> QED BY <1>8, <1>13, <2>1, <2>3, <2>6, <2>7 DEF RequestStates, BookTypes
<1> QED
  BY <1>11, <1>12, <1>13 DEF InvokeUserCallback, HandleInitCompletion

\* A request that waited is served: it leaves the queue, is given a socket or
\* fails without one, and its callback is posted.
LEMMA ServedRequest ==
  ASSUME ConnTypes, SocketInOnePlace, BookTypes, HolderCount, RequestStates,
         QueuesHoldOnce,
         NEW g \in Group, NEW h \in Handle, h \in Values(pending_requests[g]),
         NEW result \in Result, InvokeUserCallbackLater(h, result),
         pending_requests' = [pending_requests EXCEPT ![g] = Erase(pending_requests[g], h)],
         UNCHANGED <<group_name, is_initialized>>,
         \/ \E c \in Conn : HandOutSocket(c, h, g)
         \/ NoSocketHandedOut /\ result # "ok"
  PROVE  /\ RequestStates' /\ QueuesHoldOnce' /\ HolderCount'
         /\ active_socket_count' \in [Group -> Int]
         /\ pending_requests' \in [Group -> [Priority -> Seq(Handle)]]
         /\ pending_callback_map' \in [Handle -> Result \union {None}]
         /\ tasks' \in [Handle -> Nat]
         /\ \A x \in Group : x # g => /\ active_socket_count'[x] = active_socket_count[x]
                                      /\ pending_requests'[x] = pending_requests[x]
<1>1. /\ pending_requests' \in [Group -> [Priority -> Seq(Handle)]]
      /\ QueuesHoldOnce'
      /\ h \notin Values(pending_requests'[g])
      /\ \A k, x : x \in Group /\ k # h =>
           (k \in Values(pending_requests'[x]) <=> k \in Values(pending_requests[x]))
      /\ \A x \in Group : x # g => pending_requests'[x] = pending_requests[x]
  BY ErasedFromQueue
<1>2. /\ socket[h] = None /\ group_name[h] = g /\ ~ is_initialized[h]
      /\ \A x \in Group : h \in Values(pending_requests[x]) => x = g
  BY Waiting DEF RequestStates
<1>3. /\ pending_callback_map' = [pending_callback_map EXCEPT ![h] = result]
      /\ tasks' = [tasks EXCEPT ![h] = @ + 1]
  BY DEF InvokeUserCallbackLater
<1>4. /\ pending_callback_map' \in [Handle -> Result \union {None}]
      /\ pending_callback_map'[h] = result
      /\ \A k \in Handle : k # h => pending_callback_map'[k] = pending_callback_map[k]
  BY <1>3 DEF BookTypes
<1>5. /\ tasks' \in [Handle -> Nat] /\ tasks'[h] > 0
      /\ \A k \in Handle : k # h => tasks'[k] = tasks[k]
  BY <1>3 DEF BookTypes
<1>6. None \notin Group /\ None \notin Conn /\ result # None
  BY ConstantsAssumption DEF Result
<1>7. /\ HolderCount' /\ active_socket_count' \in [Group -> Int]
      /\ \A x \in Group : x # g => active_socket_count'[x] = active_socket_count[x]
      /\ \A k \in Handle : k # h => socket'[k] = socket[k]
      /\ result = "ok" => socket'[h] # None
  <2>1. CASE \E c \in Conn : HandOutSocket(c, h, g)
    <3>1. PICK c \in Conn : HandOutSocket(c, h, g)
      BY <2>1
    <3>2. HolderCount' /\ active_socket_count' \in [Group -> Int]
      BY <1>2, <3>1, HolderCountAfterHandOut
    <3>3. /\ \A k \in Handle : k # h => socket'[k] = socket[k]
          /\ socket'[h] = c
      BY <3>1 DEF HandOutSocket, ConnTypes
    <3>4. \A x \in Group : x # g => active_socket_count'[x] = active_socket_count[x]
      BY <3>1 DEF HandOutSocket, BookTypes
    <3> QED BY <1>6, <3>2, <3>3, <3>4
  <2>2. CASE NoSocketHandedOut /\ result # "ok"
    <3>1. UNCHANGED <<activeVars, socket>>
      BY <2>2 DEF NoSocketHandedOut
    <3>2. HolderCount' /\ active_socket_count' \in [Group -> Int]
      BY <3>1, HolderCountUnchanged
    <3> QED BY <2>2, <3>1, <3>2 DEF activeVars
  <2> QED BY <2>1, <2>2
<1>8. ASSUME NEW k \in Handle, k # h PROVE RequestState(k)'
  <2>1. SameRequest(k)
    BY <1>1, <1>4, <1>5, <1>7, <1>8 DEF SameRequest
  <2> QED BY <2>1, SameRequestKeeps DEF RequestStates
<1>9. RequestState(h)'
  <2>1. \A x \in Group : h \notin Values(pending_requests'[x])
    BY <1>1, <1>2
  <2> QED BY <1>2, <1>4, <1>5, <1>6, <1>7, <2>1 DEF RequestState
<1> QED BY <1>1, <1>4, <1>5, <1>7, <1>8, <1>9 DEF RequestStates

-----------------------------------------------------------------------------
\* A ConnectJob ends.
LEMMA ConnectJobCompleteKeepsBooks ==
  ASSUME BookInv, NEW g \in Group, NEW c \in jobs[g], NEW result \in Result,
         NEW with_socket \in BOOLEAN,
         OnConnectJobComplete(g, c, result, with_socket)
  PROVE  BookInv'
<1> USE DEF BookInv
<1>1. PICK h : h = NextPendingRequest(g)
  OBVIOUS
<1>2. /\ RemoveConnectJob(c, g) /\ frame' \in {Ready, Slot(g)}
      /\ result = "ok" => with_socket
      /\ UNCHANGED <<group_map, group_name, is_initialized, pool_generation_number>>
  BY DEF OnConnectJobComplete
<1>3. \/ /\ ~ empty(pending_requests[g])
         /\ pending_requests' =
              [pending_requests EXCEPT ![g] = Erase(pending_requests[g], h)]
         /\ InvokeUserCallbackLater(h, result)
         /\ UpdateIdle({}, g, {})
         /\ \/ with_socket /\ HandOutSocket(c, h, g)
            \/ ~ with_socket /\ NoSocketHandedOut
      \/ /\ empty(pending_requests[g])
         /\ UpdateIdle({}, g, IF result = "ok" THEN {c} ELSE {})
         /\ NoSocketHandedOut
         /\ UNCHANGED requestVars
  <2>1. CASE ~ empty(pending_requests[g])
    <3>1. /\ pending_requests' =
               [pending_requests EXCEPT ![g] = Erase(pending_requests[g], h)]
          /\ InvokeUserCallbackLater(h, result)
          /\ UpdateIdle({}, g, {})
      BY <1>1, <2>1 DEF OnConnectJobComplete
    <3>2. \/ with_socket /\ HandOutSocket(c, NextPendingRequest(g), g)
          \/ ~ with_socket /\ NoSocketHandedOut
      BY <2>1, Zenon DEF OnConnectJobComplete
    <3>3. CASE with_socket
      <4>1. HandOutSocket(c, h, g)
        BY <1>1, <3>2, <3>3
      <4> QED BY <2>1, <3>1, <3>3, <4>1
    <3>4. CASE ~ with_socket
      <4>1. NoSocketHandedOut
        BY <3>2, <3>4
      <4> QED BY <2>1, <3>1, <3>4, <4>1
    <3> QED BY <3>3, <3>4
  <2>2. CASE empty(pending_requests[g])
    BY <2>2 DEF OnConnectJobComplete
  <2> QED BY <2>1, <2>2
<1>4. PoolInv'
  BY ConnectJobCompleteKeeps
<1>5. ConnTypes /\ SocketInOnePlace
  BY DEF PoolInv, ConnInv
<1>6. c \in Conn /\ c \notin AllIdle
  BY <1>5, OnePlaceElim DEF AllIdle, ConnTypes
<1>7. /\ JobCount' /\ UnassignedBound'
      /\ unassigned_job_count' \in [Group -> Int]
      /\ \A x \in Group : jobs'[x] \subseteq jobs[x]
  BY <1>2, <1>5, RemovedJobKeepsCounts
<1>8. g \in group_map
  BY DEF RemovedAreEmpty, IsEmpty
<1>9. PICK A : /\ A \subseteq Conn /\ A \intersect AllIdle = {}
               /\ UpdateIdle({}, g, A)
  <2>1. {c} \subseteq Conn /\ {c} \intersect AllIdle = {}
    BY <1>6
  <2> QED BY <1>3, <2>1
<1>10. /\ IdleCount'
       /\ \A x \in Group : x # g => idle_sockets'[x] \subseteq idle_sockets[x]
  BY <1>5, <1>9, IdleCountFollows, IdleAfter
<1>11. PreconnectGroupExists'
  BY <1>2, FrameFacts DEF PreconnectGroupExists
<1>12. /\ RequestStates' /\ QueuesHoldOnce' /\ HolderCount'
       /\ active_socket_count' \in [Group -> Int]
       /\ pending_requests' \in [Group -> [Priority -> Seq(Handle)]]
       /\ pending_callback_map' \in [Handle -> Result \union {None}]
       /\ tasks' \in [Handle -> Nat]
       /\ \A x \in Group : x # g => /\ active_socket_count'[x] = active_socket_count[x]
                                    /\ pending_requests'[x] = pending_requests[x]
  <2>1. CASE /\ ~ empty(pending_requests[g])
             /\ pending_requests' =
                  [pending_requests EXCEPT ![g] = Erase(pending_requests[g], h)]
             /\ InvokeUserCallbackLater(h, result)
             /\ \/ with_socket /\ HandOutSocket(c, h, g)
                \/ ~ with_socket /\ NoSocketHandedOut
    <3>1. h \in Handle /\ h \in Values(pending_requests[g])
      BY <1>1, <2>1, NextIsInQueue
    <3>2. \/ \E d \in Conn : HandOutSocket(d, h, g)
          \/ NoSocketHandedOut /\ result # "ok"
      BY <1>2, <1>6, <2>1
    <3> QED BY <1>2, <1>5, <2>1, <3>1, <3>2, ServedRequest
  <2>2. CASE NoSocketHandedOut /\ UNCHANGED requestVars
    <3>1. UNCHANGED <<activeVars, socket, pending_requests, pending_callback_map,
                      tasks, active_socket_count>>
      BY <2>2 DEF NoSocketHandedOut, requestVars, activeVars
    <3>2. RequestStates' /\ QueuesHoldOnce'
      BY <1>2, <3>1, RequestsUnchanged
    <3>3. HolderCount'
      BY <1>2, <3>1, HolderCountUnchanged
    <3> QED BY <3>1, <3>2, <3>3 DEF BookTypes
  <2> QED BY <1>3, <2>1, <2>2
<1>13. BookTypes'
  BY <1>2, <1>7, <1>12 DEF BookTypes
<1>14. RemovedAreEmpty'
  BY <1>2, <1>7, <1>8, <1>10, <1>12, StaysEmpty
<1> QED BY <1>4, <1>7, <1>10, <1>11, <1>12, <1>13, <1>14

\* The backup job timer fires.
LEMMA BackupJobTimerFiredKeepsBooks ==
  ASSUME BookInv, NEW g \in Group, OnBackupJobTimerFired(g)
  PROVE  BookInv'
<1> USE DEF BookInv
<1>1. UNCHANGED <<group_map, pending_requests, pending_callback_map, tasks,
                  idle_sockets, idle_socket_count, activeVars, group_name, socket,
                  is_initialized, pool_generation_number>>
  BY DEF OnBackupJobTimerFired, requestVars, idleVars, handleVars
<1>2. PoolInv'
  BY BackupJobTimerFiredKeeps
<1>3. ConnTypes
  BY DEF PoolInv, ConnInv
<1>4. RequestStates' /\ QueuesHoldOnce'
  BY <1>1, RequestsUnchanged
<1>5. HolderCount'
  BY <1>1, HolderCountUnchanged
<1>6. IdleCount'
  BY <1>1 DEF IdleCount, AllIdle
<1>7. g \in group_map
  <2>1. jobs[g] # {}
    BY DEF OnBackupJobTimerFired, PoolInv, BackupTimerHasJob
  <2> QED BY <2>1 DEF RemovedAreEmpty, IsEmpty
<1>8. /\ JobCount' /\ UnassignedBound'
      /\ unassigned_job_count' \in [Group -> Int]
      /\ \A x \in Group : x # g => jobs'[x] = jobs[x]
  <2>1. CASE UNCHANGED jobVars
    BY <2>1 DEF jobVars, JobCount, AllJobs, UnassignedBound, BookTypes
  <2>2. CASE UnusedConn # {} /\ AddConnectJob(NewConn, g, FALSE)
    <3>1. PICK c \in UnusedConn : AddConnectJob(c, g, FALSE)
      BY <2>2, NewConnIsUnused
    <3>2. /\ jobs' = [jobs EXCEPT ![g] = @ \union {c}]
          /\ connecting_socket_count' = connecting_socket_count + 1
          /\ unassigned_job_count' = [unassigned_job_count EXCEPT ![g] = @]
      BY <3>1 DEF AddConnectJob
    <3>3. JobCount' /\ Cardinality(jobs'[g]) = Cardinality(jobs[g]) + 1
      BY <1>3, <3>2, JobCountAfterStart
    <3>4. \A x \in Group : x # g => jobs'[x] = jobs[x]
      BY <1>3, <3>2 DEF ConnTypes
    <3>5. unassigned_job_count' = unassigned_job_count
      BY <3>2 DEF BookTypes
    <3>6. Cardinality(jobs[g]) \in Nat
      BY <1>3, ConnsAreFinite, FS_CardinalityType
    <3>7. UnassignedBound'
      BY <3>3, <3>4, <3>5, <3>6 DEF UnassignedBound
    <3> QED BY <3>3, <3>4, <3>5, <3>7 DEF BookTypes
  <2> QED BY <2>1, <2>2 DEF OnBackupJobTimerFired
<1>9. BookTypes'
  BY <1>1, <1>8 DEF BookTypes, activeVars
<1>10. RemovedAreEmpty'
  BY <1>1, <1>7, <1>8, StaysEmpty DEF activeVars
<1>11. PreconnectGroupExists'
  <2>1. frame' = frame \/ frame' = Ready \/ \E c \in Conn : frame' = Complete(g, c)
    <3>1. UnusedConn # {} => NewConn \in Conn
      BY NewConnIsUnused DEF UnusedConn
    <3> QED BY <3>1 DEF OnBackupJobTimerFired
  <2> QED BY <1>1, <2>1, FrameFacts DEF PreconnectGroupExists
<1> QED
  BY <1>2, <1>4, <1>5, <1>6, <1>8, <1>9, <1>10, <1>11

\* OnAvailableSocketSlot: the group that has a slot serves a request, or goes
\* away if it is empty.
LEMMA AvailableSocketSlotKeepsBooks ==
  ASSUME BookInv, OnAvailableSocketSlot
  PROVE  BookInv'
<1> USE DEF BookInv
<1>1. PICK g : g = frame.group
  OBVIOUS
<1>2. g \in Group /\ frame' = Check
  BY <1>1 DEF OnAvailableSocketSlot, PoolInv, FrameHasGroup
<1>3. PoolInv' /\ PreconnectGroupExists'
  BY <1>2, AvailableSocketSlotKeeps, FrameFacts DEF PreconnectGroupExists
<1>4. CASE /\ group_map' = {x \in group_map : ~ (x = g /\ IsEmpty(g))}
           /\ UNCHANGED <<requestVars, idleVars, jobVars, activeVars, handleVars,
                          backup_job_timer, pool_generation_number, born>>
  BY <1>3, <1>4, NothingElseChanges
<1>5. CASE ~ empty(pending_requests[g]) /\ ProcessPendingRequest(g)
  <2>1. PICK h : h = NextPendingRequest(g)
    OBVIOUS
  <2>2. PICK D, rv :
          /\ D \in SUBSET idle_sockets[g] /\ rv \in Outcome
          /\ RequestSocketInternal(g, h, D, rv)
          /\ IF rv = "io_pending"
               THEN UNCHANGED requestVars
               ELSE /\ pending_requests' =
                         [pending_requests EXCEPT ![g] = Erase(pending_requests[g], h)]
                    /\ InvokeUserCallbackLater(h, rv)
    BY <1>5, <2>1 DEF ProcessPendingRequest
  <2>3. /\ UNCHANGED <<group_name, is_initialized, pool_generation_number>>
        /\ group_map' = {x \in group_map :
              IsEmpty(x)' => x # g /\ idle_sockets'[x] = idle_sockets[x]}
    BY <1>5 DEF ProcessPendingRequest
  <2>4. h \in Handle /\ h \in Values(pending_requests[g]) /\ h # None
    BY <1>2, <1>5, <2>1, NextIsInQueue, ConstantsAssumption
  <2>5. g \in group_map
    BY <1>2, <1>5 DEF RemovedAreEmpty, IsEmpty
  <2>6. ConnTypes /\ SocketInOnePlace
    BY DEF PoolInv, ConnInv
  <2>7. /\ IdleCount' /\ JobCount'
        /\ unassigned_job_count' \in [Group -> Int] /\ UnassignedBound'
        /\ \A x \in Group : x # g => /\ idle_sockets'[x] \subseteq idle_sockets[x]
                                     /\ jobs'[x] = jobs[x]
        /\ \/ rv # "io_pending" /\ \E c \in Conn : HandOutSocket(c, h, g)
           \/ NoSocketHandedOut /\ rv # "ok"
    <3>1. D \subseteq AllIdle
      BY <1>2, <2>2 DEF AllIdle
    <3>2. PoolInv /\ BookTypes /\ IdleCount /\ JobCount /\ UnassignedBound
      OBVIOUS
    <3>3. h \in Handle \union {None}
      BY <2>4
    <3>4. rv \in Outcome /\ RequestSocketInternal(g, h, D, rv)
      BY <2>2
    <3> HIDE DEF BookInv
    <3> QED BY <1>2, <2>4, <3>1, <3>2, <3>3, <3>4, RequestKeepsCounts
  <2>8. /\ RequestStates' /\ QueuesHoldOnce' /\ HolderCount'
        /\ active_socket_count' \in [Group -> Int]
        /\ pending_requests' \in [Group -> [Priority -> Seq(Handle)]]
        /\ pending_callback_map' \in [Handle -> Result \union {None}]
        /\ tasks' \in [Handle -> Nat]
        /\ \A x \in Group : x # g => /\ active_socket_count'[x] = active_socket_count[x]
                                     /\ pending_requests'[x] = pending_requests[x]
    <3>1. CASE rv = "io_pending"
      <4>1. UNCHANGED <<activeVars, socket, pending_requests, pending_callback_map,
                        tasks, active_socket_count>>
        BY <2>2, <2>7, <3>1 DEF NoSocketHandedOut, requestVars, activeVars
      <4>2. RequestStates' /\ QueuesHoldOnce'
        BY <2>3, <4>1, RequestsUnchanged
      <4>3. HolderCount'
        BY <2>3, <4>1, HolderCountUnchanged
      <4> QED BY <4>1, <4>2, <4>3 DEF BookTypes
    <3>2. CASE rv # "io_pending"
      <4>1. rv \in Result /\ InvokeUserCallbackLater(h, rv)
        BY <2>2, <3>2 DEF Outcome
      <4>2. \/ \E d \in Conn : HandOutSocket(d, h, g)
            \/ NoSocketHandedOut /\ rv # "ok"
        BY <2>7
      <4>3. pending_requests' =
              [pending_requests EXCEPT ![g] = Erase(pending_requests[g], h)]
        BY <2>2, <3>2
      <4> QED BY <1>2, <2>3, <2>4, <2>6, <4>1, <4>2, <4>3, ServedRequest
    <3> QED BY <3>1, <3>2
  <2>9. BookTypes'
    BY <2>3, <2>7, <2>8 DEF BookTypes
  <2>10. RemovedAreEmpty'
    BY <2>3, <2>5, <2>7, <2>8, StaysEmpty
  <2> QED BY <1>3, <2>7, <2>8, <2>9, <2>10
<1> QED BY <1>1, <1>4, <1>5 DEF OnAvailableSocketSlot

\* FlushWithError: every request that waits is told the error, and no socket is
\* idle or connecting.
LEMMA FlushKeepsBooks ==
  ASSUME BookInv, FlushWithError
  PROVE  BookInv'
<1> USE DEF BookInv
<1>1. /\ pool_generation_number < MaxGeneration
      /\ pool_generation_number' = pool_generation_number + 1
      /\ UNCHANGED <<activeVars, group_name, socket, is_initialized, frame>>
      /\ group_map' = {g \in group_map : ~ IsEmpty(g)'}
      /\ frame = Ready
  BY DEF FlushWithError, activeVars, handleVars
<1>2. PoolInv'
  BY FlushKeeps
<1>3. ConnTypes
  BY DEF PoolInv, ConnInv
<1>4. /\ jobs' = [g \in Group |-> {}]
      /\ unassigned_job_count' = [g \in Group |-> 0]
      /\ connecting_socket_count' = connecting_socket_count - Cardinality(AllJobs)
  BY DEF FlushWithError, CancelAllConnectJobs, RemoveAllJobs
<1>5. JobCount' /\ UnassignedBound'
  <2>1. AllJobs' = {}
    BY <1>4 DEF AllJobs
  <2>2. Cardinality({}) = 0 /\ Cardinality(AllJobs) \in Nat
    BY <1>3, ConnsAreFinite, FS_EmptySet, FS_CardinalityType
  <2>3. connecting_socket_count' = 0
    BY <1>4, <2>2 DEF JobCount
  <2>4. \A g \in Group : unassigned_job_count'[g] = 0 /\ jobs'[g] = {}
    BY <1>4
  <2> QED BY <2>1, <2>2, <2>3, <2>4 DEF JobCount, UnassignedBound
<1>6. IdleCount' /\ \A x \in Group : idle_sockets'[x] \subseteq idle_sockets[x]
  <2>1. UpdateIdle(AllIdle, None, {})
    BY DEF FlushWithError
  <2> QED BY <1>3, <2>1, IdleCountFollows, IdleAfter
<1>7. HolderCount'
  BY <1>1, HolderCountUnchanged
<1>8. PICK failed :
        /\ failed = {h \in Handle : \E g \in group_map : h \in Values(pending_requests[g])}
        /\ pending_callback_map' =
             [h \in Handle |-> IF h \in failed THEN "error" ELSE pending_callback_map[h]]
        /\ tasks' = [h \in Handle |-> IF h \in failed THEN tasks[h] + 1 ELSE tasks[h]]
        /\ pending_requests' = [g \in Group |-> EmptyQueue(Priority)]
  BY DEF FlushWithError, CancelAllRequestsWithError
<1>9. /\ EmptyQueue(Priority) \in [Priority -> Seq(Handle)]
      /\ Values(EmptyQueue(Priority)) = {} /\ NoDuplicates(EmptyQueue(Priority))
      /\ empty(EmptyQueue(Priority))
  <2>1. /\ EmptyQueue(Priority) \in [Priority -> Seq(Handle)]
        /\ Values(EmptyQueue(Priority)) = {} /\ NoDuplicates(EmptyQueue(Priority))
    BY EmptyQueueProperties
  <2> QED BY <2>1, EmptyHasNoValues
<1>10. \A g \in Group : pending_requests'[g] = EmptyQueue(Priority)
  BY <1>8
<1>11. QueuesHoldOnce'
  BY <1>9, <1>10 DEF QueuesHoldOnce
<1>12. BookTypes'
  <2>1. pending_requests' \in [Group -> [Priority -> Seq(Handle)]]
    BY <1>8, <1>9
  <2>2. pending_callback_map' \in [Handle -> Result \union {None}]
    BY <1>8 DEF BookTypes, Result
  <2>3. tasks' \in [Handle -> Nat]
    BY <1>8 DEF BookTypes
  <2>4. unassigned_job_count' \in [Group -> Int]
    BY <1>4
  <2>5. pool_generation_number' \in 0 .. MaxGeneration
    BY <1>1, ConstantsAssumption DEF BookTypes
  <2> QED BY <1>1, <2>1, <2>2, <2>3, <2>4, <2>5 DEF BookTypes, activeVars
<1>13. \A h \in Handle, g \in Group : h \in Values(pending_requests[g]) => g \in group_map
  <2>1. \A g \in Group : empty(pending_requests[g]) <=> Values(pending_requests[g]) = {}
    BY EmptyHasNoValues DEF BookTypes
  <2> QED BY <2>1 DEF RemovedAreEmpty, IsEmpty
<1>14. ASSUME NEW h \in Handle PROVE RequestState(h)'
  <2>1. \A g \in Group : h \notin Values(pending_requests'[g])
    BY <1>9, <1>10
  <2>2. RequestState(h)
    BY DEF RequestStates
  <2>3. None # "error" /\ None # "ok" /\ None \notin Group
    BY ConstantsAssumption
  <2>4. CASE h \in failed
    <3>1. PICK g \in Group : h \in Values(pending_requests[g])
      BY <1>8, <2>4 DEF PoolInv
    <3>2. /\ group_name[h] = g /\ ~ is_initialized[h] /\ socket[h] = None
      BY <2>2, <3>1 DEF RequestState
    <3>3. pending_callback_map'[h] = "error" /\ tasks'[h] > 0
      BY <1>8, <2>4 DEF BookTypes
    <3> QED BY <1>1, <2>1, <2>3, <3>2, <3>3 DEF RequestState
  <2>5. CASE h \notin failed
    <3>1. pending_callback_map'[h] = pending_callback_map[h] /\ tasks'[h] = tasks[h]
      BY <1>8, <2>5
    <3>2. \A g \in Group : h \notin Values(pending_requests[g])
      BY <1>8, <1>13, <2>5
    <3>3. group_name[h] \in Group \union {None}
      BY DEF BookTypes
    <3> QED BY <1>1, <2>1, <2>2, <3>1, <3>2, <3>3 DEF RequestState
  <2> QED BY <2>4, <2>5
<1>15. RemovedAreEmpty'
  <2>1. \A x \in Group : jobs'[x] = {}
    BY <1>4
  <2>2. ASSUME NEW x \in Group, x \notin group_map' PROVE IsEmpty(x)'
    <3>1. CASE x \in group_map
      BY <1>1, <2>2, <3>1
    <3>2. CASE x \notin group_map
      <4>1. IsEmpty(x)
        BY <3>2 DEF RemovedAreEmpty
      <4> QED BY <1>1, <1>6, <1>9, <1>10, <2>1, <4>1 DEF IsEmpty, activeVars
    <3> QED BY <3>1, <3>2
  <2> QED BY <2>2 DEF RemovedAreEmpty
<1>16. PreconnectGroupExists'
  BY <1>1, FrameFacts DEF PreconnectGroupExists
<1> QED
  BY <1>2, <1>5, <1>6, <1>7, <1>11, <1>12, <1>14, <1>15, <1>16 DEF RequestStates

-----------------------------------------------------------------------------
\* The constructor establishes the invariant.
LEMMA InitBookInv == Init => BookInv
<1> SUFFICES ASSUME Init PROVE BookInv
  OBVIOUS
<1>1. PoolInv
  BY InitPoolInv
<1>2. /\ EmptyQueue(Priority) \in [Priority -> Seq(Handle)]
      /\ Values(EmptyQueue(Priority)) = {} /\ NoDuplicates(EmptyQueue(Priority))
      /\ empty(EmptyQueue(Priority))
  <2>1. /\ EmptyQueue(Priority) \in [Priority -> Seq(Handle)]
        /\ Values(EmptyQueue(Priority)) = {} /\ NoDuplicates(EmptyQueue(Priority))
    BY EmptyQueueProperties
  <2> QED BY <2>1, EmptyHasNoValues
<1>3. BookTypes
  BY <1>2, ConstantsAssumption DEF Init, BookTypes
<1>4. Cardinality({}) = 0
  BY FS_EmptySet
<1>5. IdleCount /\ JobCount
  <2>1. AllIdle = {} /\ AllJobs = {}
    BY DEF Init, AllIdle, AllJobs
  <2> QED BY <1>4, <2>1 DEF Init, IdleCount, JobCount
<1>6. HolderCount
  <2>1. Holders = {} /\ \A g : HoldersIn(g) = {}
    BY DEF Init, Holders, HoldersIn
  <2> QED BY <1>4, <2>1 DEF Init, HolderCount
<1>7. UnassignedBound
  BY <1>4 DEF Init, UnassignedBound
<1>8. RequestStates
  BY <1>2, ConstantsAssumption DEF Init, RequestStates, RequestState
<1>9. QueuesHoldOnce /\ RemovedAreEmpty
  BY <1>2 DEF Init, QueuesHoldOnce, RemovedAreEmpty, IsEmpty
<1>10. PreconnectGroupExists
  BY FrameFacts DEF Init, PreconnectGroupExists
<1> QED
  BY <1>1, <1>3, <1>5, <1>6, <1>7, <1>8, <1>9, <1>10 DEF BookInv

\* Every step keeps it.
LEMMA NextBookInv == BookInv /\ [Next]_vars => BookInv'
<1> SUFFICES ASSUME BookInv, [Next]_vars PROVE BookInv'
  OBVIOUS
<1>1. CASE \E h \in Handle, g \in Group, p \in Priority : RequestSocket(h, g, p)
  BY <1>1, RequestSocketKeepsBooks
<1>2. CASE \E g \in Group, n \in 1 .. max_sockets_per_group : RequestSockets(g, n)
  BY <1>2, RequestSocketsKeepsBooks
<1>3. CASE PreconnectOne
  BY <1>3, PreconnectOneKeepsBooks
<1>4. CASE PreconnectDone
  BY <1>4, PreconnectDoneKeepsBooks
<1>5. CASE \E h \in Handle : ResetInitialized(h)
  BY <1>5, ResetInitializedKeepsBooks
<1>6. CASE \E h \in Handle : CancelCallback(h)
  BY <1>6, CancelCallbackKeepsBooks
<1>7. CASE \E h \in Handle : CancelPending(h)
  BY <1>7, CancelPendingKeepsBooks
<1>8. CASE \E h \in Handle : InvokeUserCallback(h)
  BY <1>8, InvokeUserCallbackKeepsBooks
<1>9. CASE \E h \in Handle : \E p \in Priority : SetPriority(h, p)
  BY <1>9, SetPriorityKeepsBooks
<1>10. CASE \E g \in Group : \E c \in jobs[g] :
              \E result \in Result, with_socket \in BOOLEAN :
                OnConnectJobComplete(g, c, result, with_socket)
  BY <1>10, ConnectJobCompleteKeepsBooks
<1>11. CASE \E g \in Group : OnBackupJobTimerFired(g)
  BY <1>11, BackupJobTimerFiredKeepsBooks
<1>12. CASE OnAvailableSocketSlot
  BY <1>12, AvailableSocketSlotKeepsBooks
<1>13. CASE CheckForStalledSocketGroups
  BY <1>13, CheckForStalledKeepsBooks
<1>14. CASE FlushWithError
  BY <1>14, FlushKeepsBooks
<1>15. CASE \/ CloseIdleSockets
            \/ \E g \in Group : CloseIdleSocketsInGroup(g)
            \/ CloseOneIdleSocket
  BY <1>15, CloseKeepsBooks
<1>16. CASE UNCHANGED vars
  <2>1. /\ UNCHANGED <<requestVars, idleVars, jobVars, activeVars, handleVars,
                       backup_job_timer, pool_generation_number, born>>
        /\ group_map' = group_map /\ frame' = frame
    BY <1>16 DEF vars
  <2>2. PoolInv'
    BY NextPoolInv DEF BookInv
  <2>3. PreconnectGroupExists'
    BY <2>1 DEF BookInv, PreconnectGroupExists
  <2> QED BY <2>1, <2>2, <2>3, NothingElseChanges
<1> QED
  BY <1>1, <1>2, <1>3, <1>4, <1>5, <1>6, <1>7, <1>8, <1>9, <1>10, <1>11,
     <1>12, <1>13, <1>14, <1>15, <1>16 DEF Next

\* The invariant holds in every state of the pool.
THEOREM BookInvariant == Spec => []BookInv
BY InitBookInv, NextBookInv, PTL DEF Spec

\* Every variable of the pool keeps its type: no counter of posted tasks goes
\* below zero, no queue gets a handle that does not exist, and the stack is one
\* of the frames the code can be in.
THEOREM PoolTypes == Spec => []TypeOK
<1>1. BookInv => TypeOK
  <2> SUFFICES ASSUME BookInv PROVE TypeOK
    OBVIOUS
  <2>1. ConnTypes /\ SocketInOnePlace
    BY DEF BookInv, PoolInv, ConnInv
  <2>2. /\ idle_socket_count \in Nat /\ connecting_socket_count \in Nat
        /\ handed_out_socket_count \in Nat
    BY <2>1, CountersAreNumbers DEF BookInv
  <2>3. group_map \subseteq Group /\ backup_job_timer \subseteq Group /\ frame \in Frames
    BY DEF BookInv, PoolInv
  <2>4. BookTypes
    BY DEF BookInv
  <2> QED BY <2>1, <2>2, <2>3, <2>4 DEF TypeOK, ConnTypes, BookTypes
<1> QED BY <1>1, BookInvariant, PTL

\* The counters that the limits rest on count what is there, in every state of
\* the pool and in the middle of its calls.
THEOREM ExactCounters == Spec => []CountersAreExact
<1>1. BookInv => CountersAreExact
  BY DEF BookInv, IdleCount, JobCount, HolderCount, Holders, HoldersIn, CountersAreExact
<1> QED BY <1>1, BookInvariant, PTL

\* A request that was not answered is known to the pool in one place, and a
\* group that was removed owns nothing: for any number of groups, handles and
\* connections, whatever is cancelled, flushed or closed in between.
THEOREM TrackedGroups == Spec => []GroupsAreTracked
<1>1. BookInv => RemovedGroupsHaveNothing
  <2> SUFFICES ASSUME BookInv, NEW g \in Group \ group_map
               PROVE  /\ active_socket_count[g] = 0
                      /\ idle_sockets[g] \union jobs[g] = {}
                      /\ Values(pending_requests[g]) = {}
                      /\ unassigned_job_count[g] = 0
                      /\ g \notin backup_job_timer
    BY DEF RemovedGroupsHaveNothing
  <2>1. IsEmpty(g)
    BY DEF BookInv, RemovedAreEmpty
  <2>2. Values(pending_requests[g]) = {}
    BY <2>1, EmptyHasNoValues DEF IsEmpty, BookInv, BookTypes
  <2>3. unassigned_job_count[g] = 0
    BY <2>1, FS_EmptySet DEF IsEmpty, BookInv, UnassignedBound
  <2>4. g \notin backup_job_timer
    BY <2>1 DEF IsEmpty, BookInv, PoolInv, BackupTimerHasJob
  <2> QED BY <2>1, <2>2, <2>3, <2>4 DEF IsEmpty
<1>2. BookInv => RequestIsTracked
  <2> SUFFICES ASSUME BookInv, NEW h \in Handle
               PROVE  LET g == group_name[h]
                          queued == {x \in Group : h \in Values(pending_requests[x])}
                          reported == pending_callback_map[h] # None
                      IN  /\ g = None => queued = {} /\ ~ reported /\ socket[h] = None
                          /\ g # None /\ is_initialized[h] =>
                               /\ queued = {} /\ ~ reported /\ socket[h] # None
                               /\ g \in group_map
                          /\ g # None /\ ~ is_initialized[h] =>
                               \/ /\ queued = {g} /\ g \in group_map /\ ~ reported
                                  /\ socket[h] = None
                               \/ /\ queued = {} /\ reported /\ tasks[h] > 0
                                  /\ socket[h] # None => g \in group_map
    BY DEF RequestIsTracked
  <2>1. RequestState(h) /\ None \notin Group
    BY ConstantsAssumption DEF BookInv, RequestStates
  <2>2. group_name[h] \in Group \union {None}
    BY DEF BookInv, BookTypes
  <2>3. ASSUME socket[h] # None, group_name[h] # None PROVE group_name[h] \in group_map
    <3>1. PICK g \in Group : g = group_name[h]
      BY <2>2, <2>3
    <3>2. ConnTypes /\ SocketInOnePlace
      BY DEF BookInv, PoolInv, ConnInv
    <3>3. IsFiniteSet(HoldersIn(g)) /\ h \in HoldersIn(g)
      BY <2>3, <3>1, <3>2, HoldersAreFinite DEF HoldersIn
    <3>4. active_socket_count[g] # 0
      BY <3>3, FS_EmptySet DEF BookInv, HolderCount
    <3> QED BY <3>1, <3>4 DEF BookInv, RemovedAreEmpty, IsEmpty
  <2>4. ASSUME NEW g \in Group, h \in Values(pending_requests[g]) PROVE g \in group_map
    <3>1. pending_requests[g] \in [Priority -> Seq(Handle)]
      BY DEF BookInv, BookTypes
    <3>2. ~ empty(pending_requests[g])
      BY <2>4, <3>1, EmptyHasNoValues
    <3> QED BY <3>2 DEF BookInv, RemovedAreEmpty, IsEmpty
  <2>5. CASE group_name[h] = None
    BY <2>1, <2>5 DEF RequestState
  <2>6. CASE group_name[h] # None /\ is_initialized[h]
    BY <2>1, <2>3, <2>6 DEF RequestState
  <2>7. CASE group_name[h] # None /\ ~ is_initialized[h] /\ pending_callback_map[h] = None
    BY <2>1, <2>2, <2>4, <2>7 DEF RequestState
  <2>8. CASE group_name[h] # None /\ ~ is_initialized[h] /\ pending_callback_map[h] # None
    BY <2>1, <2>3, <2>8 DEF RequestState
  <2> QED BY <2>5, <2>6, <2>7, <2>8
<1> QED BY <1>1, <1>2, BookInvariant, PTL DEF GroupsAreTracked

=============================================================================
