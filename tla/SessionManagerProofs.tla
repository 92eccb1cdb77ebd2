------------------------ MODULE SessionManagerProofs ------------------------
(***************************************************************************)
(* The registry of SessionManager and its buffer of early candidates, for  *)
(* any number of ids, session objects, suspended coroutines and candidates *)
(* and for any cap of the buffer.                                          *)
(***************************************************************************)
EXTENDS SessionManager, OperatorProofs

(* A suspended coroutine belongs to a session that was created. *)
Suspended(c) ==
    c.slot \in Slots /\ c.run \in Runs /\ c.at # "none" /\ cid[c.slot] # {}
CoroInv == \A k \in Coros : coros[k] = NoCoro \/ Suspended(coros[k])

(* Where coroutine c of session t, or a new one, may be after a step. *)
EndsOrBelongs(c, t) == c = NoCoro \/ (Suspended(c) /\ c.slot = t)
EndsOrBegins(c) == c = NoCoro \/ (Suspended(c) /\ c.at = "set_remote")

(* The registry holds sessions that never called on_close. *)
RegistryInv ==
    \A id \in Ids : registry[id] # NoSlot =>
        /\ cid[registry[id]] = {id} /\ sessions[registry[id]].state # "CLOSED"
        /\ sessions[registry[id]].closes = 0

(* Only close() schedules the teardown of the peer connection. *)
PcInv == \A t \in Slots : sessions[t].pc = "closed" => sessions[t].closes > 0

(* Candidates wait for an id that has a session only until the coroutine that  *)
(* created the session pops them, or for ever if that coroutine raised.        *)
WillFlush(c) == c.run = "create" /\ c.at # "deliver"
Flusher(t) == \E k \in Coros : WillFlush(coros[k]) /\ coros[k].slot = t
BufferInv ==
    \A id \in Ids : waiting[id] # <<>> =>
        /\ arrived[id] # {}
        /\ registry[id] # NoSlot =>
             /\ ~sessions[registry[id]].is_dialer
             /\ registry[id] \in raised \/ Flusher(registry[id])

ManagerInv == TypeOK /\ CoroInv /\ RegistryInv /\ PcInv /\ BufferInv

-----------------------------------------------------------------------------
(* Parts that several actions share. *)

(* A session object changes; with its on_close it leaves the registry. *)
LEMMA UpdateKeeps ==
    ASSUME ManagerInv, NEW t \in Slots, NEW s, Succeeds(sessions[t], s), Update(t, s),
           UNCHANGED cid
    PROVE  /\ sessions' \in [Slots -> Sessions] /\ registry' \in [Ids -> Slots \cup {NoSlot}]
           /\ \A u \in Slots : sessions'[u].is_dialer = sessions[u].is_dialer
           /\ \A id \in Ids : registry'[id] = registry[id] \/ registry'[id] = NoSlot
           /\ RegistryInv' /\ PcInv'
<1>0. TypeOK /\ RegistryInv /\ PcInv
  BY DEF ManagerInv
<1>1. /\ sessions \in [Slots -> Sessions] /\ registry \in [Ids -> Slots \cup {NoSlot}]
      /\ s \in Sessions /\ sessions[t] \in Sessions
      /\ sessions[t].closes \in Nat /\ s.closes \in Nat
  BY <1>0 DEF TypeOK, Succeeds, Sessions
<1>2. /\ sessions' = [sessions EXCEPT ![t] = s]
      /\ s.closes = sessions[t].closes => registry' = registry
      /\ s.closes # sessions[t].closes =>
           registry' = [id \in Ids |-> IF id \in cid[t] THEN NoSlot ELSE registry[id]]
  BY DEF Update, Unregistered
<1>3. \A u \in Slots : sessions'[u] = IF u = t THEN s ELSE sessions[u]
  BY <1>1, <1>2
<1>4. sessions' \in [Slots -> Sessions] /\ registry' \in [Ids -> Slots \cup {NoSlot}]
  BY <1>1, <1>2
<1>5. \A u \in Slots : sessions'[u].is_dialer = sessions[u].is_dialer
  BY <1>3 DEF Succeeds
<1>6. \A id \in Ids : registry'[id] = registry[id] \/ registry'[id] = NoSlot
  BY <1>1, <1>2
<1>7. RegistryInv'
  <2>. SUFFICES ASSUME NEW id \in Ids, registry'[id] # NoSlot
                PROVE  /\ cid[registry'[id]] = {id} /\ sessions'[registry'[id]].state # "CLOSED"
                       /\ sessions'[registry'[id]].closes = 0
    BY DEF RegistryInv
  <2>1. /\ registry'[id] = registry[id] /\ registry[id] \in Slots /\ cid[registry[id]] = {id}
        /\ sessions[registry[id]].state # "CLOSED" /\ sessions[registry[id]].closes = 0
    BY <1>0, <1>1, <1>6 DEF RegistryInv
  <2>2. CASE registry[id] # t
    BY <1>3, <2>1, <2>2
  <2>3. CASE registry[id] = t
    <3>1. s.closes = sessions[t].closes
      BY <1>2, <2>1, <2>3
    <3>2. s.state # "CLOSED"
      BY <1>1, <2>1, <2>3, <3>1 DEF Succeeds
    <3>. QED  BY <1>3, <2>1, <2>3, <3>1, <3>2
  <2>. QED  BY <2>2, <2>3
<1>8. PcInv'
  <2>. SUFFICES ASSUME NEW u \in Slots, sessions'[u].pc = "closed"
                PROVE  sessions'[u].closes > 0
    BY DEF PcInv
  <2>1. CASE u # t
    BY <1>0, <1>3, <2>1 DEF PcInv
  <2>2. CASE u = t
    <3>1. s.pc = "closed" /\ s.closes >= sessions[t].closes
      BY <1>3, <2>2 DEF Succeeds
    <3>2. sessions[t].closes > 0
      BY <1>0, <3>1 DEF Succeeds, PcInv
    <3>. QED  BY <1>1, <1>3, <2>2, <3>1, <3>2
  <2>. QED  BY <2>1, <2>2
<1>. QED  BY <1>4, <1>5, <1>6, <1>7, <1>8

(* One coroutine moves to another await, or ends. *)
LEMMA CoroKeeps ==
    ASSUME ManagerInv, NEW k \in Coros, NEW c \in CoroType, coros' = [coros EXCEPT ![k] = c],
           UNCHANGED cid, c = NoCoro \/ Suspended(c)
    PROVE  /\ coros' \in [Coros -> CoroType] /\ CoroInv'
           /\ coros'[k] = c /\ \A j \in Coros \ {k} : coros'[j] = coros[j]
<1>1. coros \in [Coros -> CoroType] /\ CoroInv
  BY DEF ManagerInv, TypeOK
<1>2. \A j \in Coros : coros'[j] = IF j = k THEN c ELSE coros[j]
  BY <1>1
<1>3. CoroInv'
  BY <1>1, <1>2 DEF CoroInv, Suspended
<1>. QED  BY <1>1, <1>2, <1>3

(* The rest of the invariant, for a step that creates no session: no buffer     *)
(* grows under a registered id, and a coroutine that would flush goes on or has *)
(* flushed.                                                                     *)
LEMMA BufferKeeps ==
    ASSUME ManagerInv, UNCHANGED cid, raised \subseteq raised',
           sessions' \in [Slots -> Sessions], registry' \in [Ids -> Slots \cup {NoSlot}],
           \A u \in Slots : sessions'[u].is_dialer = sessions[u].is_dialer,
           \A id \in Ids : registry'[id] = registry[id] \/ registry'[id] = NoSlot,
           \A id \in Ids : waiting'[id] # <<>> =>
               arrived'[id] # {} /\ (waiting[id] # <<>> \/ registry'[id] = NoSlot),
           \A k \in Coros : WillFlush(coros[k]) =>
               \/ WillFlush(coros'[k]) /\ coros'[k].slot = coros[k].slot
               \/ \A id \in Ids : registry'[id] = coros[k].slot =>
                      waiting'[id] = <<>> \/ coros[k].slot \in raised'
    PROVE  BufferInv'
<1>0. BufferInv
  BY DEF ManagerInv
<1>. SUFFICES ASSUME NEW id \in Ids, waiting'[id] # <<>>
              PROVE  /\ arrived'[id] # {}
                     /\ registry'[id] # NoSlot =>
                          /\ ~sessions'[registry'[id]].is_dialer
                          /\ registry'[id] \in raised' \/ Flusher(registry[id])'
  BY DEF BufferInv
<1>1. arrived'[id] # {}
  OBVIOUS
<1>2. ASSUME registry'[id] # NoSlot
      PROVE  /\ ~sessions'[registry'[id]].is_dialer
             /\ registry'[id] \in raised' \/ Flusher(registry[id])'
  <2>1. /\ registry'[id] = registry[id] /\ waiting[id] # <<>> /\ registry[id] # NoSlot
        /\ registry[id] \in Slots
    BY <1>2
  <2>2. /\ ~sessions[registry[id]].is_dialer
        /\ registry[id] \in raised \/ Flusher(registry[id])
    BY <1>0, <2>1 DEF BufferInv
  <2>3. ~sessions'[registry'[id]].is_dialer
    BY <2>1, <2>2
  <2>4. ASSUME NEW k \in Coros, WillFlush(coros[k]), coros[k].slot = registry[id]
        PROVE  registry'[id] \in raised' \/ Flusher(registry[id])'
    BY <1>2, <2>1, <2>4 DEF Flusher
  <2>. QED  BY <2>1, <2>2, <2>3, <2>4 DEF Flusher
<1>. QED  BY <1>1, <1>2

ShutdownType == [phase : {"open", "closing", "closed", "off"},
                 left : SUBSET Slots, now : Slots \cup {NoSlot}]

(* A step on one session object that concerns no coroutine and no buffer. *)
LEMMA EventStep ==
    ASSUME ManagerInv, NEW t \in Slots, NEW s, Succeeds(sessions[t], s), Update(t, s),
           UNCHANGED <<cid, waiting, coros, raised>>,
           arrived' \in [Ids -> SUBSET Candidates], \A id \in Ids : arrived[id] \subseteq arrived'[id],
           shutdown' \in ShutdownType
    PROVE  ManagerInv'
<1>1. TypeOK /\ CoroInv /\ BufferInv
  BY DEF ManagerInv
<1>2. /\ sessions' \in [Slots -> Sessions] /\ registry' \in [Ids -> Slots \cup {NoSlot}]
      /\ \A u \in Slots : sessions'[u].is_dialer = sessions[u].is_dialer
      /\ \A id \in Ids : registry'[id] = registry[id] \/ registry'[id] = NoSlot
      /\ RegistryInv' /\ PcInv'
  BY UpdateKeeps
<1>4. \A id \in Ids : waiting'[id] # <<>> =>
          arrived'[id] # {} /\ (waiting[id] # <<>> \/ registry'[id] = NoSlot)
  BY <1>1 DEF BufferInv
<1>5. BufferInv'
  BY <1>2, <1>4, BufferKeeps
<1>6. TypeOK'
  BY <1>1, <1>2 DEF TypeOK, ShutdownType
<1>7. CoroInv'
  BY <1>1 DEF CoroInv, Suspended
<1>. QED  BY <1>2, <1>5, <1>6, <1>7 DEF ManagerInv

(* A step on one session object by a coroutine that moves on. *)
LEMMA ResumeStep ==
    ASSUME ManagerInv, NEW t \in Slots, NEW s, Succeeds(sessions[t], s), Update(t, s),
           UNCHANGED <<cid, arrived, shutdown>>, raised \subseteq raised', raised' \subseteq Slots,
           NEW k \in Coros, NEW c \in CoroType, coros' = [coros EXCEPT ![k] = c],
           EndsOrBelongs(c, t),
           \/ UNCHANGED waiting
           \/ \E id \in Ids : waiting' = [waiting EXCEPT ![id] = <<>>],
           WillFlush(coros[k]) =>
               \/ WillFlush(c) /\ c.slot = coros[k].slot
               \/ \A id \in Ids : registry'[id] = coros[k].slot => waiting'[id] = <<>>
    PROVE  ManagerInv'
<1>1. TypeOK /\ BufferInv
  BY DEF ManagerInv
<1>2. /\ sessions' \in [Slots -> Sessions] /\ registry' \in [Ids -> Slots \cup {NoSlot}]
      /\ \A u \in Slots : sessions'[u].is_dialer = sessions[u].is_dialer
      /\ \A id \in Ids : registry'[id] = registry[id] \/ registry'[id] = NoSlot
      /\ RegistryInv' /\ PcInv'
  BY UpdateKeeps
<1>3. /\ coros' \in [Coros -> CoroType] /\ CoroInv'
      /\ coros'[k] = c /\ \A j \in Coros \ {k} : coros'[j] = coros[j]
  BY CoroKeeps DEF EndsOrBelongs
<1>5. /\ waiting' \in [Ids -> Seq(Candidates)] /\ \A id \in Ids : Len(waiting'[id]) <= MaxPending
      /\ \A id \in Ids : waiting'[id] # <<>> => waiting[id] # <<>>
  <2>1. waiting \in [Ids -> Seq(Candidates)] /\ \A id \in Ids : Len(waiting[id]) <= MaxPending
    BY <1>1 DEF TypeOK
  <2>2. CASE UNCHANGED waiting
    BY <2>1, <2>2
  <2>3. ASSUME NEW id \in Ids, waiting' = [waiting EXCEPT ![id] = <<>>]
        PROVE  /\ waiting' \in [Ids -> Seq(Candidates)]
               /\ \A d \in Ids : Len(waiting'[d]) <= MaxPending
               /\ \A d \in Ids : waiting'[d] # <<>> => waiting[d] # <<>>
    <3>1. <<>> \in Seq(Candidates) /\ Len(<<>>) = 0 /\ 0 <= MaxPending
      BY ManagerAssumption
    <3>2. \A d \in Ids : waiting'[d] = IF d = id THEN <<>> ELSE waiting[d]
      BY <2>1, <2>3
    <3>3. waiting' \in [Ids -> Seq(Candidates)]
      BY <2>1, <2>3, <3>1
    <3>. QED  BY <2>1, <3>1, <3>2, <3>3
  <2>. QED  BY <2>2, <2>3
<1>6. \A id \in Ids : waiting'[id] # <<>> =>
          arrived'[id] # {} /\ (waiting[id] # <<>> \/ registry'[id] = NoSlot)
  BY <1>1, <1>5 DEF BufferInv
<1>7. \A j \in Coros : WillFlush(coros[j]) =>
          \/ WillFlush(coros'[j]) /\ coros'[j].slot = coros[j].slot
          \/ \A id \in Ids : registry'[id] = coros[j].slot =>
                 waiting'[id] = <<>> \/ coros[j].slot \in raised'
  <2>. TAKE j \in Coros
  <2>1. CASE j = k
    BY <1>3, <2>1
  <2>2. CASE j # k
    BY <1>3, <2>2
  <2>. QED  BY <2>1, <2>2
<1>8. BufferInv'
  BY <1>2, <1>6, <1>7, BufferKeeps
<1>9. TypeOK'
  BY <1>1, <1>2, <1>3, <1>5 DEF TypeOK
<1>. QED  BY <1>2, <1>3, <1>8, <1>9 DEF ManagerInv

-----------------------------------------------------------------------------
(* One lemma per action. *)

LEMMA NewSessionType ==
    ASSUME NEW d \in BOOLEAN
    PROVE  NewSession(d) \in Sessions
<1>1. <<>> \in Seq(MessageKinds) /\ <<>> \in Seq(Candidates)
  OBVIOUS
<1>. QED  BY <1>1 DEF NewSession, Sessions, SessionState, NoTimer, NONE

(* _create_session replaces what is registered under the id.  A dialer's id is  *)
(* fresh, a listener is created by the coroutine that will flush for it.        *)
LEMMA CreateStep ==
    ASSUME ManagerInv, NEW k \in Coros, NEW t \in Slots, NEW id \in Ids, NEW d \in BOOLEAN,
           CreateSession(k, t, id, d), UNCHANGED <<waiting, arrived, raised, shutdown>>,
           d => arrived[id] = {}
    PROVE  ManagerInv'
<1>. DEFINE c == Coro(FirstRun(d), IF d THEN "set_local" ELSE "set_remote", t)
            n == NewSession(d)
<1>0. TypeOK /\ CoroInv /\ RegistryInv /\ PcInv /\ BufferInv
  BY DEF ManagerInv
<1>1. /\ cid[t] = {} /\ coros[k] = NoCoro
      /\ sessions' = [sessions EXCEPT ![t] = n] /\ cid' = [cid EXCEPT ![t] = {id}]
      /\ registry' = [registry EXCEPT ![id] = t] /\ coros' = [coros EXCEPT ![k] = c]
  BY DEF CreateSession
<1>2. /\ n \in Sessions /\ n.state = "IDLE" /\ n.closes = 0 /\ n.pc = "new" /\ n.is_dialer = d
  BY NewSessionType DEF NewSession
<1>3. /\ c \in CoroType /\ c.slot = t /\ c.run \in Runs /\ c.at # "none" /\ c # NoCoro
      /\ ~d => c.at = "set_remote" /\ c.run = "create"
  <2>1. <<>> \in Seq(Candidates) /\ t # NoSlot
    BY ManagerAssumption
  <2>. QED  BY <2>1 DEF Coro, FirstRun, CoroType, Runs, NoCoro
<1>. HIDE DEF c, n
<1>4. /\ sessions \in [Slots -> Sessions] /\ registry \in [Ids -> Slots \cup {NoSlot}]
      /\ cid \in [Slots -> {{}} \cup {{e} : e \in Ids}] /\ coros \in [Coros -> CoroType]
  BY <1>0 DEF TypeOK
<1>5. /\ \A u \in Slots : sessions'[u] = IF u = t THEN n ELSE sessions[u]
      /\ \A u \in Slots : cid'[u] = IF u = t THEN {id} ELSE cid[u]
      /\ \A e \in Ids : registry'[e] = IF e = id THEN t ELSE registry[e]
      /\ \A j \in Coros : coros'[j] = IF j = k THEN c ELSE coros[j]
  BY <1>1, <1>4
<1>6. /\ sessions' \in [Slots -> Sessions] /\ registry' \in [Ids -> Slots \cup {NoSlot}]
      /\ cid' \in [Slots -> {{}} \cup {{e} : e \in Ids}] /\ coros' \in [Coros -> CoroType]
  BY <1>1, <1>2, <1>3, <1>4
<1>7. TypeOK'
  BY <1>0, <1>6 DEF TypeOK
<1>8. CoroInv'
  <2>. SUFFICES ASSUME NEW j \in Coros PROVE (coros[j] = NoCoro \/ Suspended(coros[j]))'
    BY DEF CoroInv
  <2>1. CASE j = k
    BY <1>3, <1>5, <2>1 DEF Suspended
  <2>2. CASE j # k
    <3>1. coros'[j] = coros[j] /\ (coros[j] = NoCoro \/ Suspended(coros[j]))
      BY <1>0, <1>5, <2>2 DEF CoroInv
    <3>. QED  BY <1>5, <3>1 DEF Suspended
  <2>. QED  BY <2>1, <2>2
<1>9. \A e \in Ids : registry[e] # t
  BY <1>0, <1>1, ManagerAssumption DEF RegistryInv
<1>10. RegistryInv'
  <2>. SUFFICES ASSUME NEW e \in Ids, registry'[e] # NoSlot
                PROVE  /\ cid'[registry'[e]] = {e} /\ sessions'[registry'[e]].state # "CLOSED"
                       /\ sessions'[registry'[e]].closes = 0
    BY DEF RegistryInv
  <2>1. CASE e = id
    BY <1>2, <1>5, <2>1
  <2>2. CASE e # id
    <3>1. registry'[e] = registry[e] /\ registry[e] \in Slots /\ registry[e] # t
      BY <1>4, <1>5, <1>9, <2>2
    <3>. QED  BY <1>0, <1>5, <3>1 DEF RegistryInv
  <2>. QED  BY <2>1, <2>2
<1>11. PcInv'
  BY <1>0, <1>2, <1>5 DEF PcInv
<1>12. BufferInv'
  <2>. SUFFICES ASSUME NEW e \in Ids, waiting[e] # <<>>
                PROVE  /\ arrived[e] # {}
                       /\ registry'[e] # NoSlot =>
                            /\ ~sessions'[registry'[e]].is_dialer
                            /\ registry'[e] \in raised \/ Flusher(registry[e])'
    BY DEF BufferInv
  <2>1. arrived[e] # {}
    BY <1>0 DEF BufferInv
  <2>2. CASE e = id
    <3>1. ~d /\ registry'[e] = t /\ sessions'[t] = n
      BY <1>5, <2>1, <2>2
    <3>2. WillFlush(coros'[k]) /\ coros'[k].slot = t
      BY <1>3, <1>5, <3>1 DEF WillFlush
    <3>. QED  BY <1>2, <2>1, <3>1, <3>2 DEF Flusher
  <2>3. CASE e # id
    <3>. SUFFICES ASSUME registry'[e] # NoSlot
                  PROVE  /\ ~sessions'[registry'[e]].is_dialer
                         /\ registry'[e] \in raised \/ Flusher(registry[e])'
      BY <2>1
    <3>1. registry'[e] = registry[e] /\ registry[e] \in Slots /\ registry[e] # t
      BY <1>4, <1>5, <1>9, <2>3
    <3>2. /\ ~sessions[registry[e]].is_dialer
          /\ registry[e] \in raised \/ Flusher(registry[e])
      BY <1>0, <3>1 DEF BufferInv
    <3>3. ~sessions'[registry'[e]].is_dialer
      BY <1>5, <3>1, <3>2
    <3>4. ASSUME NEW j \in Coros, WillFlush(coros[j])  PROVE j # k
      BY <1>1, <3>4 DEF WillFlush, NoCoro
    <3>5. \A j \in Coros : WillFlush(coros[j]) => coros'[j] = coros[j]
      BY <1>5, <3>4
    <3>. QED  BY <3>1, <3>2, <3>3, <3>5 DEF Flusher
  <2>. QED  BY <2>2, <2>3
<1>. QED  BY <1>7, <1>8, <1>10, <1>11, <1>12 DEF ManagerInv

(* A step that changes coroutine k alone: another copy of a CONNECTREQUEST, or  *)
(* an exception that ends a task.                                               *)
LEMMA CoroOnlyStep ==
    ASSUME ManagerInv, UNCHANGED <<sessions, cid, registry, waiting, arrived, shutdown>>,
           raised \subseteq raised', raised' \subseteq Slots,
           NEW k \in Coros, NEW c \in CoroType, coros' = [coros EXCEPT ![k] = c],
           EndsOrBegins(c), WillFlush(coros[k]) => coros[k].slot \in raised'
    PROVE  ManagerInv'
<1>1. TypeOK /\ RegistryInv /\ PcInv /\ BufferInv
  BY DEF ManagerInv
<1>2. /\ coros' \in [Coros -> CoroType] /\ CoroInv'
      /\ coros'[k] = c /\ \A j \in Coros \ {k} : coros'[j] = coros[j]
  BY CoroKeeps DEF EndsOrBegins
<1>3. \A j \in Coros : WillFlush(coros[j]) =>
          \/ WillFlush(coros'[j]) /\ coros'[j].slot = coros[j].slot
          \/ \A id \in Ids : registry'[id] = coros[j].slot =>
                 waiting'[id] = <<>> \/ coros[j].slot \in raised'
  <2>. TAKE j \in Coros
  <2>1. CASE j = k
    BY <2>1
  <2>2. CASE j # k
    BY <1>2, <2>2
  <2>. QED  BY <2>1, <2>2
<1>4. /\ sessions' \in [Slots -> Sessions] /\ registry' \in [Ids -> Slots \cup {NoSlot}]
      /\ \A id \in Ids : waiting'[id] # <<>> =>
             arrived'[id] # {} /\ (waiting[id] # <<>> \/ registry'[id] = NoSlot)
  BY <1>1 DEF TypeOK, BufferInv
<1>5. BufferInv'
  BY <1>3, <1>4, BufferKeeps
<1>6. TypeOK' /\ RegistryInv' /\ PcInv'
  BY <1>1, <1>2 DEF TypeOK, RegistryInv, PcInv
<1>. QED  BY <1>2, <1>5, <1>6 DEF ManagerInv

(* The session that handle_signal finds. *)
LEMMA Found ==
    ASSUME ManagerInv, NEW id \in Ids, registry[id] # NoSlot
    PROVE  /\ registry[id] \in Slots /\ sessions[registry[id]] \in Sessions
           /\ cid[registry[id]] = {id} /\ sessions[registry[id]].closes = 0
BY DEF ManagerInv, TypeOK, RegistryInv

LEMMA RequestAgainStep ==
    ASSUME ManagerInv, NEW k \in Coros, NEW id \in Ids,
           RecvRequestAgain(k, id)
    PROVE  ManagerInv'
<1>. DEFINE c == Coro("request", "set_remote", registry[id])
<1>1. /\ registry[id] # NoSlot /\ coros[k] = NoCoro /\ coros' = [coros EXCEPT ![k] = c]
      /\ UNCHANGED <<sessions, cid, registry, waiting, arrived, raised, shutdown>>
  BY DEF RecvRequestAgain
<1>2. registry[id] \in Slots /\ cid[registry[id]] = {id}
  BY <1>1, Found
<1>3. c \in CoroType /\ EndsOrBegins(c)
  BY <1>2 DEF Coro, CoroType, Runs, Suspended, EndsOrBegins
<1>4. ~WillFlush(coros[k]) /\ raised' = raised /\ raised \subseteq Slots
  BY <1>1 DEF WillFlush, NoCoro, ManagerInv, TypeOK
<1>. HIDE DEF c
<1>. QED  BY <1>1, <1>3, <1>4, CoroOnlyStep

LEMMA RaiseStep ==
    ASSUME ManagerInv, NEW k \in Coros, Raise(k)
    PROVE  ManagerInv'
<1>1. /\ coros[k] # NoCoro /\ coros' = [coros EXCEPT ![k] = NoCoro]
      /\ raised' = raised \cup Creators(k)
      /\ UNCHANGED <<sessions, cid, registry, waiting, arrived, shutdown>>
  BY DEF Raise, Busy
<1>2. NoCoro \in CoroType
  BY DEF NoCoro, CoroType
<1>3. coros[k].slot \in Slots /\ raised \subseteq Slots
  BY <1>1 DEF ManagerInv, CoroInv, Suspended, TypeOK
<1>4. /\ raised \subseteq raised' /\ raised' \subseteq Slots
      /\ WillFlush(coros[k]) => coros[k].slot \in raised'
  BY <1>1, <1>3 DEF Creators, WillFlush
<1>. DEFINE c == NoCoro
<1>5. c \in CoroType /\ coros' = [coros EXCEPT ![k] = c] /\ EndsOrBegins(c)
  BY <1>1, <1>2 DEF EndsOrBegins
<1>. HIDE DEF c
<1>. QED  BY <1>1, <1>4, <1>5, CoroOnlyStep

LEMMA ResponseStep ==
    ASSUME ManagerInv, NEW k \in Coros, NEW id \in Ids, RecvResponse(k, id)
    PROVE  ManagerInv'
<1>. DEFINE t == registry[id]
            c == Coro("response", "set_remote", t)
<1>1. /\ t # NoSlot /\ coros[k] = NoCoro /\ sessions[t].is_dialer
      /\ Update(t, ResponseReceived(sessions[t])) /\ coros' = [coros EXCEPT ![k] = c]
      /\ UNCHANGED <<cid, waiting, arrived, raised, shutdown>>
  BY DEF RecvResponse
<1>2. t \in Slots /\ cid[t] = {id} /\ sessions[t] \in Sessions
  BY <1>1, Found
<1>3. c \in CoroType /\ EndsOrBelongs(c, t)
  BY <1>2 DEF Coro, CoroType, Runs, Suspended, EndsOrBelongs
<1>4. ~WillFlush(coros[k]) /\ raised' = raised /\ raised \subseteq Slots
  BY <1>1 DEF WillFlush, NoCoro, ManagerInv, TypeOK
<1>5. Succeeds(sessions[t], ResponseReceived(sessions[t]))
  BY <1>2, EntrySucceeds
<1>. HIDE DEF c, t
<1>. QED  BY <1>1, <1>2, <1>3, <1>4, <1>5, ResumeStep

LEMMA ErrorStep ==
    ASSUME ManagerInv, NEW id \in Ids, NEW err \in Errors, RecvError(id, err)
    PROVE  ManagerInv'
<1>. DEFINE t == registry[id]
            s == HandleConnectError(sessions[t], err)
<1>1. /\ t # NoSlot /\ Update(t, s) /\ UNCHANGED <<cid, waiting, coros, arrived, raised, shutdown>>
  BY DEF RecvError
<1>2. t \in Slots /\ sessions[t] \in Sessions
  BY <1>1, Found
<1>3. err \in Int
  BY ManagerAssumption
<1>4. s = sessions[t] \/ s = Close(sessions[t], err)
  BY DEF HandleConnectError
<1>5. arrived \in [Ids -> SUBSET Candidates] /\ shutdown \in ShutdownType
  BY DEF ManagerInv, TypeOK, ShutdownType
<1>. HIDE DEF s, t
<1>7. Succeeds(sessions[t], s)
  <2>1. CASE s = sessions[t]
    BY <1>2, <2>1, SucceedsItself
  <2>2. CASE s = Close(sessions[t], err)
    BY <1>2, <1>3, <2>2, CloseSucceeds
  <2>. QED  BY <1>4, <2>1, <2>2
<1>. QED  BY <1>1, <1>2, <1>5, <1>7, EventStep

(* handle_signal: a candidate is buffered only while nobody is registered. *)
LEMMA CandidateStep ==
    ASSUME ManagerInv, NEW id \in Ids, NEW c \in Candidates,
           RecvCandidate(id, c)
    PROVE  ManagerInv'
<1>0. TypeOK /\ CoroInv /\ RegistryInv /\ PcInv /\ BufferInv
  BY DEF ManagerInv
<1>1. /\ arrived' = [arrived EXCEPT ![id] = arrived[id] \cup {c}]
      /\ UNCHANGED <<cid, coros, raised, shutdown>>
      /\ arrived \in [Ids -> SUBSET Candidates] /\ shutdown \in ShutdownType
  BY <1>0 DEF RecvCandidate, TypeOK, ShutdownType
<1>2. /\ arrived' \in [Ids -> SUBSET Candidates] /\ arrived'[id] # {}
      /\ \A e \in Ids : arrived[e] \subseteq arrived'[e]
  BY <1>1
<1>3. CASE registry[id] # NoSlot
  <2>. DEFINE t == registry[id]
              s == AddRemoteCandidate(sessions[t], c)
  <2>1. Update(t, s) /\ UNCHANGED waiting
    BY <1>3 DEF RecvCandidate
  <2>2. t \in Slots /\ sessions[t] \in Sessions
    BY <1>3, Found
  <2>3. Succeeds(sessions[t], s)
    BY <2>2, CandidateSucceeds
  <2>. HIDE DEF s, t
  <2>. QED  BY <1>1, <1>2, <2>1, <2>2, <2>3, EventStep
<1>4. CASE registry[id] = NoSlot
  <2>1. UNCHANGED <<sessions, registry>> /\ BufferPendingCandidate(id, c)
    BY <1>4 DEF RecvCandidate
  <2>2. waiting \in [Ids -> Seq(Candidates)] /\ \A e \in Ids : Len(waiting[e]) <= MaxPending
    BY <1>0 DEF TypeOK
  <2>3. /\ waiting' \in [Ids -> Seq(Candidates)] /\ \A e \in Ids : Len(waiting'[e]) <= MaxPending
        /\ \A e \in Ids : e # id => waiting'[e] = waiting[e]
    <3>1. CASE Room(id)
      <4>. DEFINE w == Append(waiting[id], c)
      <4>1. waiting' = [waiting EXCEPT ![id] = w]
        BY <2>1, <3>1 DEF BufferPendingCandidate
      <4>2. w \in Seq(Candidates) /\ Len(w) <= MaxPending
        <5>1. w \in Seq(Candidates) /\ Len(w) = Len(waiting[id]) + 1 /\ Len(waiting[id]) \in Nat
          BY <2>2
        <5>. QED  BY <3>1, <5>1, ManagerAssumption DEF Room
      <4>. HIDE DEF w
      <4>3. \A e \in Ids : waiting'[e] = IF e = id THEN w ELSE waiting[e]
        BY <2>2, <4>1
      <4>. QED  BY <2>2, <4>1, <4>2, <4>3
    <3>2. CASE ~Room(id)
      <4>1. waiting' = waiting
        BY <2>1, <3>2 DEF BufferPendingCandidate
      <4>. QED  BY <2>2, <4>1
    <3>. QED  BY <3>1, <3>2
  <2>4. TypeOK'
    BY <1>0, <1>1, <1>2, <2>1, <2>3 DEF TypeOK, ShutdownType
  <2>5. \A e \in Ids : waiting'[e] # <<>> =>
            arrived'[e] # {} /\ (waiting[e] # <<>> \/ registry'[e] = NoSlot)
    <3>. TAKE e \in Ids
    <3>1. CASE e = id
      BY <1>2, <1>4, <2>1, <3>1
    <3>2. CASE e # id
      BY <1>0, <1>2, <2>3, <3>2 DEF BufferInv
    <3>. QED  BY <3>1, <3>2
  <2>6. BufferInv'
    <3>1. sessions' \in [Slots -> Sessions] /\ registry' \in [Ids -> Slots \cup {NoSlot}]
      BY <1>0, <2>1 DEF TypeOK
    <3>. QED  BY <1>1, <2>1, <2>5, <3>1, BufferKeeps
  <2>7. CoroInv' /\ RegistryInv' /\ PcInv'
    BY <1>0, <1>1, <2>1 DEF CoroInv, Suspended, RegistryInv, PcInv
  <2>. QED  BY <2>4, <2>6, <2>7 DEF ManagerInv
<1>. QED  BY <1>3, <1>4

LEMMA NoCoroType == NoCoro \in CoroType
BY DEF NoCoro, CoroType

(* _flush_remote_candidates: one more element, or the end of the loop. *)
LEMMA FlushStep ==
    ASSUME ManagerInv, NEW k \in Coros, Suspended(coros[k]),
           coros[k].at # "deliver", NEW s,
           Succeeds(sessions[coros[k].slot], s), NEW i \in Nat, FlushFrom(k, s, i)
    PROVE  ManagerInv'
<1>. DEFINE t == coros[k].slot
            b == coros[k]
<1>1. /\ t \in Slots /\ b.run \in Runs /\ cid[t] # {} /\ sessions[t] \in Sessions /\ s \in Sessions
      /\ b \in CoroType
  BY DEF Suspended, Succeeds, ManagerInv, TypeOK
<1>2. UNCHANGED <<cid, waiting, arrived, raised, shutdown>> /\ raised \subseteq Slots
  BY DEF FlushFrom, ManagerInv, TypeOK
<1>3. CASE i < Len(s.pending)
  <2>. DEFINE c == [b EXCEPT !.at = "flush", !.i = i + 1]
  <2>1. Update(t, FlushOne(s, i)) /\ coros' = [coros EXCEPT ![k] = c]
    BY <1>3 DEF FlushFrom
  <2>2. Succeeds(s, FlushOne(s, i)) /\ FlushOne(s, i).pc = s.pc
    BY <1>1, <1>3, CandidateSucceeds
  <2>3. Succeeds(sessions[t], FlushOne(s, i))
    BY <1>1, <2>2, SucceedsTransitive
  <2>4. c \in CoroType /\ c.slot = t /\ c.run = b.run /\ c.at = "flush"
    <3>1. i + 1 \in Nat
      OBVIOUS
    <3>2. ASSUME NEW n \in Nat
          PROVE  LET d == [b EXCEPT !.at = "flush", !.i = n]
                 IN  d \in CoroType /\ d.slot = t /\ d.run = b.run /\ d.at = "flush"
      BY <1>1 DEF CoroType
    <3>. QED  BY <3>1, <3>2, Zenon
  <2>. HIDE DEF c
  <2>5. EndsOrBelongs(c, t) /\ (WillFlush(b) => WillFlush(c))
    BY <1>1, <2>4 DEF Suspended, WillFlush, EndsOrBelongs
  <2>. HIDE DEF t, b
  <2>6. WillFlush(coros[k]) => WillFlush(c) /\ c.slot = coros[k].slot
    BY <2>4, <2>5 DEF b, t
  <2>. QED  BY <1>1, <1>2, <2>1, <2>3, <2>4, <2>5, <2>6, ResumeStep
<1>4. CASE ~(i < Len(s.pending))
  <2>. DEFINE c == AfterFlush(b)
  <2>1. Update(t, FlushDone(s)) /\ coros' = [coros EXCEPT ![k] = c]
    BY <1>4 DEF FlushFrom
  <2>2. Succeeds(s, FlushDone(s)) /\ FlushDone(s).pc = s.pc
    BY <1>1, CandidateSucceeds
  <2>3. Succeeds(sessions[t], FlushDone(s))
    BY <1>1, <2>2, SucceedsTransitive
  <2>4. \/ b.run = "response" /\ c = NoCoro
        \/ c \in CoroType /\ c.slot = t /\ c.run = b.run /\ c.at = "set_local"
    BY <1>1 DEF AfterFlush, CoroType
  <2>. HIDE DEF c
  <2>5. /\ c \in CoroType /\ EndsOrBelongs(c, t)
        /\ WillFlush(b) => WillFlush(c) /\ c.slot = t
    <3>1. CASE b.run = "response" /\ c = NoCoro
      BY <3>1, NoCoroType DEF EndsOrBelongs, WillFlush
    <3>2. CASE c \in CoroType /\ c.slot = t /\ c.run = b.run /\ c.at = "set_local"
      BY <1>1, <3>2 DEF Suspended, EndsOrBelongs, WillFlush
    <3>. QED  BY <2>4, <3>1, <3>2
  <2>. HIDE DEF t, b
  <2>6. WillFlush(coros[k]) => WillFlush(c) /\ c.slot = coros[k].slot
    BY <2>5 DEF b, t
  <2>. QED  BY <1>1, <1>2, <2>1, <2>3, <2>5, <2>6, ResumeStep
<1>. QED  BY <1>3, <1>4

(* _flush_pending_candidates, for what is left of the popped list. *)
LEMMA DeliverStep ==
    ASSUME ManagerInv, UNCHANGED <<cid, arrived, shutdown>>, NEW k \in Coros,
           Suspended(coros[k]), NEW s,
           Succeeds(sessions[coros[k].slot], s), NEW todo \in Seq(Candidates),
           DeliverFrom(k, s, todo),
           \/ UNCHANGED waiting
           \/ \E id \in Ids : waiting' = [waiting EXCEPT ![id] = <<>>],
           WillFlush(coros[k]) =>
               \A id \in Ids : registry'[id] = coros[k].slot => waiting'[id] = <<>>
    PROVE  ManagerInv'
<1>. DEFINE t == coros[k].slot
            b == coros[k]
<1>1. /\ t \in Slots /\ b.run \in Runs /\ cid[t] # {} /\ sessions[t] \in Sessions /\ s \in Sessions
      /\ b \in CoroType /\ raised \subseteq Slots
  BY DEF Suspended, Succeeds, ManagerInv, TypeOK
<1>2. CASE /\ Update(t, s) /\ coros' = [coros EXCEPT ![k] = NoCoro]
           /\ raised' = raised \/ raised' = raised \cup {t}
  <2>. DEFINE c == NoCoro
  <2>1. /\ Update(t, s) /\ coros' = [coros EXCEPT ![k] = c]
        /\ raised \subseteq raised' /\ raised' \subseteq Slots
    BY <1>1, <1>2
  <2>2. c \in CoroType /\ EndsOrBelongs(c, t)
    BY NoCoroType DEF EndsOrBelongs
  <2>. HIDE DEF c, t
  <2>3. Succeeds(sessions[t], s)
    BY DEF t
  <2>. QED  BY <1>1, <2>1, <2>2, <2>3, ResumeStep
<1>. DEFINE d == [b EXCEPT !.at = "deliver", !.todo = Tail(todo)]
            u == IF s.state = "CLOSED" THEN s ELSE AddRemoteCandidate(s, Head(todo))
<1>3. CASE /\ todo # <<>> /\ Update(t, u) /\ coros' = [coros EXCEPT ![k] = d]
           /\ raised' = raised
  <2>1. /\ Update(t, u) /\ coros' = [coros EXCEPT ![k] = d]
        /\ raised \subseteq raised' /\ raised' \subseteq Slots
    BY <1>1, <1>3
  <2>2. Head(todo) \in Candidates /\ Tail(todo) \in Seq(Candidates)
    BY <1>3, HeadTailProperties
  <2>3. Succeeds(s, u) /\ u.pc = s.pc
    BY <1>1, <2>2, CandidateSucceeds, SucceedsItself
  <2>. HIDE DEF u
  <2>4. Succeeds(sessions[t], u)
    BY <1>1, <2>3, SucceedsTransitive
  <2>5. d \in CoroType /\ d.slot = t /\ d.run = b.run /\ d.at = "deliver"
    BY <1>1, <2>2 DEF CoroType
  <2>. HIDE DEF d
  <2>6. EndsOrBelongs(d, t)
    BY <1>1, <2>5 DEF Suspended, EndsOrBelongs
  <2>. HIDE DEF t
  <2>. QED  BY <1>1, <2>1, <2>4, <2>5, <2>6, ResumeStep
<1>. QED  BY <1>2, <1>3 DEF DeliverFrom

(* A suspended coroutine and its session. *)
LEMMA Resumes ==
    ASSUME ManagerInv, NEW k \in Coros, coros[k].at # "none"
    PROVE  /\ Suspended(coros[k]) /\ raised \subseteq Slots
           /\ coros[k] \in CoroType /\ sessions[coros[k].slot] \in Sessions
<1>1. Suspended(coros[k])
  BY DEF ManagerInv, CoroInv, NoCoro
<1>. QED  BY <1>1 DEF Suspended, ManagerInv, TypeOK

LEMMA ResumeAny ==
    ASSUME ManagerInv, NEW k \in Coros, Resume(k)
    PROVE  ManagerInv'
<1>1. CASE ResumeSetRemote(k)
  <2>1. coros[k].at = "set_remote"
    BY <1>1 DEF ResumeSetRemote
  <2>2. Suspended(coros[k]) /\ sessions[coros[k].slot] \in Sessions
    BY <2>1, Resumes
  <2>. DEFINE s == RemoteDescriptionSet(sessions[coros[k].slot])
  <2>3. Succeeds(sessions[coros[k].slot], s) /\ FlushFrom(k, s, 0)
    BY <1>1, <2>2, CandidateSucceeds DEF ResumeSetRemote, Of
  <2>. HIDE DEF s
  <2>4. 0 \in Nat /\ coros[k].at # "deliver"
    BY <2>1
  <2>. QED  BY <2>2, <2>3, <2>4, FlushStep
<1>2. CASE ResumeFlush(k)
  <2>1. coros[k].at = "flush"
    BY <1>2 DEF ResumeFlush
  <2>2. /\ Suspended(coros[k])
        /\ coros[k] \in CoroType /\ sessions[coros[k].slot] \in Sessions
    BY <2>1, Resumes
  <2>3. coros[k].i \in Nat
    BY <2>2 DEF CoroType
  <2>. DEFINE s == sessions[coros[k].slot]
              i == coros[k].i
  <2>4. Succeeds(sessions[coros[k].slot], s) /\ FlushFrom(k, s, i)
    BY <1>2, <2>2, SucceedsItself DEF ResumeFlush, Of
  <2>. HIDE DEF s, i
  <2>5. i \in Nat /\ coros[k].at # "deliver"
    BY <2>1, <2>3 DEF i
  <2>. QED  BY <2>2, <2>4, <2>5, FlushStep
<1>3. CASE ResumeSetLocal(k)
  <2>. DEFINE t == coros[k].slot
  <2>1. coros[k].at = "set_local" /\ UNCHANGED <<cid, arrived, shutdown>>
    BY <1>3 DEF ResumeSetLocal
  <2>2. Suspended(coros[k]) /\ t \in Slots /\ sessions[t] \in Sessions /\ raised \subseteq Slots
    BY <2>1, Resumes DEF Suspended
  <2>3. CASE coros[k].run = "create"
    <3>. DEFINE id == CHOOSE d \in Ids : d \in cid[t]
                s == RequestResumed(sessions[t])
                todo == waiting[id]
    <3>1. DeliverFrom(k, s, todo) /\ waiting' = [waiting EXCEPT ![id] = <<>>]
      BY <1>3, <2>3 DEF ResumeSetLocal, Of
    <3>2. Succeeds(sessions[t], s)
      BY <2>2, EntrySucceeds
    <3>3. id \in Ids /\ id \in cid[t]
      <4>1. cid[t] # {} /\ cid[t] \in {{}} \cup {{d} : d \in Ids}
        BY <2>2 DEF Suspended, ManagerInv, TypeOK
      <4>2. \E d \in Ids : d \in cid[t]
        BY <4>1
      <4>. QED  BY <4>2
    <3>. HIDE DEF id, s
    <3>4. todo \in Seq(Candidates) /\ waiting \in [Ids -> Seq(Candidates)]
      BY <3>3 DEF ManagerInv, TypeOK
    <3>5. ASSUME NEW e \in Ids, registry'[e] = coros[k].slot PROVE waiting'[e] = <<>>
      <4>1. registry'[e] = registry[e] \/ registry'[e] = NoSlot
        <5>1. PICK u : Update(t, u)
          BY <3>1 DEF DeliverFrom
        <5>. QED  BY <5>1 DEF Update, Unregistered, ManagerInv, TypeOK
      <4>2. registry[e] = t /\ t # NoSlot
        BY <2>2, <3>5, <4>1, ManagerAssumption
      <4>3. cid[t] = {e}
        BY <4>2, Found
      <4>. QED  BY <3>1, <3>3, <3>4, <4>3
    <3>. HIDE DEF todo
    <3>6. \E d \in Ids : waiting' = [waiting EXCEPT ![d] = <<>>]
      BY <3>1, <3>3
    <3>. QED  BY <2>1, <2>2, <3>1, <3>2, <3>4, <3>5, <3>6, DeliverStep
  <2>4. CASE coros[k].run # "create"
    <3>. DEFINE s == IF coros[k].run = "start" THEN StartResumed(sessions[t])
                     ELSE RequestResumed(sessions[t])
                c == NoCoro
    <3>1. Update(t, s) /\ coros' = [coros EXCEPT ![k] = c] /\ UNCHANGED <<waiting, raised>>
      BY <1>3, <2>4 DEF ResumeSetLocal, Of
    <3>2. Succeeds(sessions[t], s)
      BY <2>2, EntrySucceeds
    <3>3. c \in CoroType /\ EndsOrBelongs(c, t) /\ ~WillFlush(coros[k])
      BY <2>4, NoCoroType DEF WillFlush, EndsOrBelongs
    <3>. HIDE DEF s, c, t
    <3>. QED  BY <2>1, <2>2, <3>1, <3>2, <3>3, ResumeStep
  <2>. QED  BY <2>3, <2>4
<1>4. CASE ResumeDeliver(k)
  <2>1. /\ coros[k].at = "deliver" /\ UNCHANGED <<cid, waiting, arrived, shutdown>>
        /\ DeliverFrom(k, sessions[coros[k].slot], coros[k].todo)
    BY <1>4 DEF ResumeDeliver, Of
  <2>2. /\ Suspended(coros[k])
        /\ coros[k] \in CoroType /\ sessions[coros[k].slot] \in Sessions
    BY <2>1, Resumes
  <2>. DEFINE s == sessions[coros[k].slot]
              todo == coros[k].todo
  <2>3. todo \in Seq(Candidates) /\ Succeeds(sessions[coros[k].slot], s) /\ DeliverFrom(k, s, todo)
    BY <2>1, <2>2, SucceedsItself DEF CoroType
  <2>4. ~WillFlush(coros[k])
    BY <2>1 DEF WillFlush
  <2>. HIDE DEF s, todo
  <2>. QED  BY <2>1, <2>2, <2>3, <2>4, DeliverStep
<1>5. CASE Raise(k)
  BY <1>5, RaiseStep
<1>. QED  BY <1>1, <1>2, <1>3, <1>4, <1>5 DEF Resume, Proceed

(* Timers and the callbacks of the peer connection. *)
LEMMA TransportStep ==
    ASSUME ManagerInv, NEW t \in Slots,
           Timeout(t) \/ ChannelsOpen(t) \/ ConnectionFails(t) \/ PcClosed(t)
    PROVE  ManagerInv'
<1>. DEFINE o == sessions[t]
<1>1. /\ o \in Sessions
      /\ arrived \in [Ids -> SUBSET Candidates] /\ shutdown \in ShutdownType
  BY DEF ManagerInv, TypeOK, ShutdownType
<1>2. ASSUME NEW s, SessionEvent(t, s), Succeeds(o, s)
      PROVE  ManagerInv'
  BY <1>1, <1>2, EventStep DEF SessionEvent
<1>. HIDE DEF o
<1>3. CASE Timeout(t)
  <2>1. SessionEvent(t, Close(o, o.timeout))
    BY <1>3 DEF Timeout, TimeoutExpires, o
  <2>2. o.timeout \in Int
    BY <1>1 DEF Sessions, NoTimer, WAITING_FOR_RESPONSE, WAITING_FOR_ACCEPT
  <2>3. Succeeds(o, Close(o, o.timeout))
    BY <1>1, <2>2, CloseSucceeds
  <2>. QED  BY <1>2, <2>1, <2>3
<1>4. CASE ChannelsOpen(t)
  <2>. DEFINE u == HandleChannelOpen(o, TRUE)
              s == HandleChannelOpen(u, FALSE)
  <2>1. SessionEvent(t, s)
    BY <1>4 DEF ChannelsOpen, o
  <2>2. Succeeds(o, u) /\ u \in Sessions
    BY <1>1, ChannelSucceeds DEF Succeeds
  <2>. HIDE DEF u
  <2>3. Succeeds(u, s) /\ s.pc = u.pc
    BY <2>2, ChannelSucceeds
  <2>. HIDE DEF s
  <2>4. Succeeds(o, s)
    BY <1>1, <2>2, <2>3, SucceedsTransitive
  <2>. QED  BY <1>2, <2>1, <2>4
<1>5. CASE ConnectionFails(t)
  <2>1. SessionEvent(t, PcChanges(o, "failed"))
    BY <1>5 DEF ConnectionFails, o
  <2>2. Succeeds(o, PcChanges(o, "failed"))
    BY <1>1, PcSucceeds
  <2>. QED  BY <1>2, <2>1, <2>2
<1>6. CASE PcClosed(t)
  <2>1. SessionEvent(t, PcChanges(o, "closed")) /\ o.closes > 0
    BY <1>6 DEF PcClosed, o
  <2>2. Succeeds(o, PcChanges(o, "closed"))
    BY <1>1, <2>1, PcSucceeds
  <2>. QED  BY <1>2, <2>1, <2>2
<1>. QED  BY <1>3, <1>4, <1>5, <1>6

(* SessionManager.aclose: another session of the snapshot, or clear(). *)
LEMMA AcloseStep ==
    ASSUME ManagerInv, UNCHANGED <<cid, waiting, coros, arrived, raised>>,
           NEW left \in SUBSET Slots, AcloseLoop(left)
    PROVE  ManagerInv'
<1>0. TypeOK /\ CoroInv /\ RegistryInv /\ PcInv /\ BufferInv
  BY DEF ManagerInv
<1>1. CASE left = {}
  <2>1. /\ registry' = [id \in Ids |-> NoSlot] /\ sessions' = sessions
        /\ shutdown' = [phase |-> "closed", left |-> {}, now |-> NoSlot]
    BY <1>1 DEF AcloseLoop
  <2>2. TypeOK'
    BY <1>0, <2>1 DEF TypeOK
  <2>3. CoroInv' /\ RegistryInv' /\ PcInv'
    BY <1>0, <2>1 DEF CoroInv, Suspended, RegistryInv, PcInv
  <2>4. BufferInv'
    BY <1>0, <2>1 DEF BufferInv
  <2>. QED  BY <2>2, <2>3, <2>4 DEF ManagerInv
<1>2. CASE left # {}
  <2>1. PICK t \in left : /\ Update(t, Close(sessions[t], NONE))
                          /\ shutdown' = [phase |-> "closing", left |-> left \ {t}, now |-> t]
    BY <1>2 DEF AcloseLoop, ClosedByLoop
  <2>2. t \in Slots /\ sessions[t] \in Sessions /\ arrived' \in [Ids -> SUBSET Candidates]
    BY <1>0 DEF TypeOK
  <2>3. NONE \in Int
    BY DEF NONE
  <2>4. shutdown' \in ShutdownType
    BY <2>1, <2>2 DEF ShutdownType
  <2>. DEFINE s == Close(sessions[t], NONE)
  <2>5. Update(t, s) /\ Succeeds(sessions[t], s)
    BY <2>1, <2>2, <2>3, CloseSucceeds
  <2>. HIDE DEF s
  <2>. QED  BY <2>2, <2>4, <2>5, EventStep
<1>. QED  BY <1>1, <1>2

-----------------------------------------------------------------------------
(* Results. *)

LEMMA ManagerInit == Init => ManagerInv
<1>. SUFFICES ASSUME Init PROVE ManagerInv
  OBVIOUS
<1>1. /\ sessions = [t \in Slots |-> NewSession(FALSE)] /\ cid = [t \in Slots |-> {}]
      /\ registry = [id \in Ids |-> NoSlot] /\ waiting = [id \in Ids |-> <<>>]
      /\ coros = [k \in Coros |-> NoCoro] /\ arrived = [id \in Ids |-> {}]
      /\ raised = {} /\ shutdown = [phase |-> "open", left |-> {}, now |-> NoSlot]
  BY DEF Init
<1>2. NewSession(FALSE) \in Sessions /\ <<>> \in Seq(Candidates) /\ NoCoro \in CoroType
  <2>1. <<>> \in Seq(Candidates)
    OBVIOUS
  <2>2. \A d \in BOOLEAN : NewSession(d) \in Sessions
    BY NewSessionType
  <2>3. NewSession(FALSE) \in Sessions
    BY <2>2, Zenon
  <2>. QED  BY <2>1, <2>3, NoCoroType
<1>3. Len(<<>>) = 0 /\ 0 <= MaxPending
  BY ManagerAssumption
<1>4. TypeOK
  BY <1>1, <1>2, <1>3 DEF TypeOK
<1>5. CoroInv /\ RegistryInv /\ BufferInv
  BY <1>1 DEF CoroInv, RegistryInv, BufferInv
<1>6. PcInv
  BY <1>1 DEF PcInv, NewSession
<1>. QED  BY <1>4, <1>5, <1>6 DEF ManagerInv

LEMMA ManagerStep == ManagerInv /\ [Next]_vars => ManagerInv'
<1>. SUFFICES ASSUME ManagerInv, [Next]_vars PROVE ManagerInv'
  OBVIOUS
<1>1. CASE UNCHANGED vars
  <2>1. TypeOK' /\ CoroInv' /\ RegistryInv' /\ PcInv'
    BY <1>1 DEF vars, ManagerInv, TypeOK, CoroInv, Suspended, RegistryInv, PcInv
  <2>2. BufferInv'
    BY <1>1 DEF vars, ManagerInv, BufferInv, Flusher
  <2>. QED  BY <2>1, <2>2 DEF ManagerInv
<1>2. CASE Next
  <2>1. ASSUME NEW k \in Coros, NEW id \in Ids, NEW t \in Slots, Connect(k, t, id)
        PROVE  ManagerInv'
    BY <1>2, <2>1, CreateStep DEF Connect
  <2>2. ASSUME NEW k \in Coros, NEW id \in Ids, NEW t \in Slots, RecvNewRequest(k, t, id)
        PROVE  ManagerInv'
    BY <1>2, <2>2, CreateStep DEF RecvNewRequest
  <2>3. ASSUME NEW k \in Coros, NEW id \in Ids, RecvRequestAgain(k, id) \/ RecvResponse(k, id)
        PROVE  ManagerInv'
    BY <1>2, <2>3, RequestAgainStep, ResponseStep
  <2>4. ASSUME NEW id \in Ids, NEW c \in Candidates, RecvCandidate(id, c)
        PROVE  ManagerInv'
    BY <1>2, <2>4, CandidateStep
  <2>5. ASSUME NEW id \in Ids, NEW err \in Errors, RecvError(id, err)
        PROVE  ManagerInv'
    BY <1>2, <2>5, ErrorStep
  <2>6. ASSUME NEW k \in Coros, Resume(k)
        PROVE  ManagerInv'
    BY <1>2, <2>6, ResumeAny
  <2>7. ASSUME NEW t \in Slots, Timeout(t) \/ ChannelsOpen(t) \/ ConnectionFails(t) \/ PcClosed(t)
        PROVE  ManagerInv'
    BY <1>2, <2>7, TransportStep
  <2>8. CASE AcloseBegin
    <3>1. Registered \in SUBSET Slots
      BY DEF Registered, ManagerInv, TypeOK
    <3>. QED  BY <1>2, <2>8, <3>1, AcloseStep DEF AcloseBegin
  <2>9. CASE AcloseNext
    <3>1. shutdown.left \in SUBSET Slots
      BY DEF ManagerInv, TypeOK
    <3>. QED  BY <1>2, <2>9, <3>1, AcloseStep DEF AcloseNext
  <2>10. CASE LanClose
    <3>1. /\ UNCHANGED <<sessions, cid, registry, waiting, coros, arrived, raised>>
          /\ shutdown' = [shutdown EXCEPT !.phase = "off"]
      BY <1>2, <2>10 DEF LanClose
    <3>2. TypeOK'
      BY <3>1 DEF ManagerInv, TypeOK
    <3>3. CoroInv' /\ RegistryInv' /\ PcInv'
      BY <3>1 DEF ManagerInv, CoroInv, Suspended, RegistryInv, PcInv
    <3>4. BufferInv'
      BY <3>1 DEF ManagerInv, BufferInv, Flusher
    <3>. QED  BY <3>2, <3>3, <3>4 DEF ManagerInv
  <2>. QED
    BY <1>2, <2>1, <2>2, <2>3, <2>4, <2>5, <2>6, <2>7, <2>8, <2>9, <2>10 DEF Next
<1>. QED  BY <1>1, <1>2

LEMMA ManagerAlways == Spec => []ManagerInv
BY ManagerInit, ManagerStep, PTL DEF Spec

(* The state of SessionManager keeps its types; above all, the candidates of  *)
(* an id never exceed the cap of _buffer_pending_candidate.                   *)
THEOREM ManagerTypeCorrect == Spec => []TypeOK
<1>1. ManagerInv => TypeOK
  BY DEF ManagerInv
<1>. QED  BY <1>1, ManagerAlways, PTL

(* handle_signal never finds a closed session, nor one of another id.         *)
THEOREM RegistryIsLive == Spec => []RegisteredIsLive
<1>1. ManagerInv => RegisteredIsLive
  BY DEF ManagerInv, RegistryInv, RegisteredIsLive
<1>. QED  BY <1>1, ManagerAlways, PTL

(* _flush_pending_candidates leaves no early candidate of a session that has  *)
(* answered in the buffer, unless the coroutine that created the session      *)
(* raised, whatever the other coroutines, timers and closes do.               *)
THEOREM EarlyCandidatesAreFlushed == Spec => []NoCandidateStranded
<1>1. ASSUME ManagerInv PROVE NoCandidateStranded
  <2>. SUFFICES ASSUME NEW id \in Ids, Stranded(id)
                PROVE  registry[id] \in raised
    BY DEF NoCandidateStranded
  <2>1. ~Flusher(registry[id])
    BY DEF Stranded, Flusher, WillFlush
  <2>. QED  BY <1>1, <2>1 DEF Stranded, ManagerInv, BufferInv
<1>2. ManagerInv => NoCandidateStranded
  BY <1>1
<1>. QED  BY <1>2, ManagerAlways, PTL
=============================================================================
