-------------------------- MODULE ThriftServer_proofs --------------------------
(***************************************************************************)
(* Theorems about ThriftServer, for every set of connections and every     *)
(* number of goroutines that call Stop.                                    *)
(***************************************************************************)
EXTENDS ThriftServer, FiniteSetTheorems, TLAPS

------------------------------------------------------------------------------
(* The inductive invariant: wg counts the goroutines, the lock and closed  *)
(* say where Stop is, and each connection goes through its states once.    *)
Runs    == {c \in Conns : worker[c] \in WorkerRuns}
Watches == {c \in Conns : watcher[c] = "waiting"}

Counted == wg = Cardinality(Runs) + Cardinality(Watches)

StopInv(s) ==
    /\ stop[s] \in InsideStop <=> mu = s
    /\ stop[s] \in InsideStop \cup {"returned"} => closed
    /\ stop[s] \in {"cut", "drain"} => limited
    /\ stop[s] = "returned" => wg = 0

ConnInv(c) ==
    /\ worker[c] = "none" <=> watcher[c] = "none"
    /\ c \in backlog => client[c] # "away"
    /\ serve = "lock" /\ got = c => client[c] # "away" /\ c \notin backlog /\ c \in open
    /\ client[c] = "away" \/ c \in backlog \/ (serve = "lock" /\ got = c) => worker[c] = "none"
    /\ c \in open => worker[c] \notin {"leaving", "done"}
    /\ worker[c] \in WorkerRuns \ {"leaving"} => c \in open \/ limited

IndInv ==
    /\ TypeOK /\ Counted
    /\ cut => limited
    /\ closed /\ mu = Nobody => wg = 0
    /\ \A s \in Stoppers : StopInv(s)
    /\ \A c \in Conns : ConnInv(c)
    /\ AnsweredUnlessCut
------------------------------------------------------------------------------
(* What wg says of the goroutines.                                         *)
LEMMA FiniteGoroutines ==
    ASSUME NEW P \in SUBSET Conns
    PROVE  IsFiniteSet(P) /\ Cardinality(P) \in Nat
  BY ServerAssumption, FS_Subset, FS_CardinalityType

LEMMA SomebodyCounts ==
    ASSUME TypeOK, Counted, NEW c \in Runs \cup Watches
    PROVE  wg - 1 \in Nat
  <1>1. /\ IsFiniteSet(Runs) /\ Cardinality(Runs) \in Nat
        /\ IsFiniteSet(Watches) /\ Cardinality(Watches) \in Nat
    BY FiniteGoroutines DEF Runs, Watches
  <1>2. Cardinality(Runs) # 0 \/ Cardinality(Watches) # 0
    BY <1>1, FS_EmptySet
  <1> QED BY <1>1, <1>2 DEF Counted

LEMMA NobodyIsCounted ==
    ASSUME Counted, wg = 0
    PROVE  Runs = {} /\ Watches = {}
  <1>1. /\ IsFiniteSet(Runs) /\ Cardinality(Runs) \in Nat
        /\ IsFiniteSet(Watches) /\ Cardinality(Watches) \in Nat
    BY FiniteGoroutines DEF Runs, Watches
  <1>2. Cardinality(Runs) = 0 /\ Cardinality(Watches) = 0
    BY <1>1 DEF Counted
  <1> QED BY <1>1, <1>2, FS_EmptySet
------------------------------------------------------------------------------
(* wg keeps counting.  Only three kinds of step touch it.                  *)
LEMMA CountKept ==
    ASSUME Counted, Runs' = Runs, Watches' = Watches, wg' = wg
    PROVE  Counted'
  BY DEF Counted

LEMMA CountStep ==
    ASSUME IndInv, [Next]_vars
    PROVE  Counted' /\ wg' \in Nat
  <1> USE DEF IndInv
  <1>1. /\ IsFiniteSet(Runs) /\ Cardinality(Runs) \in Nat
        /\ IsFiniteSet(Watches) /\ Cardinality(Watches) \in Nat
    BY FiniteGoroutines DEF Runs, Watches
  <1>2. ASSUME NEW c \in Conns, Connect(c) PROVE Counted' /\ wg' \in Nat
    BY <1>2, CountKept DEF Connect, TypeOK, Runs, Watches, serverVars, connVars
  <1>3. ASSUME NEW c \in Conns, Send(c) PROVE Counted' /\ wg' \in Nat
    BY <1>3, CountKept DEF Send, TypeOK, Runs, Watches, serverVars, connVars
  <1>4. ASSUME NEW c \in Conns, Leave(c) PROVE Counted' /\ wg' \in Nat
    BY <1>4, CountKept DEF Leave, TypeOK, Runs, Watches, serverVars, connVars
  <1>5. ASSUME Listen PROVE Counted' /\ wg' \in Nat
    BY <1>5, CountKept DEF Listen, TypeOK, Runs, Watches, serverVars, connVars
  <1>6. ASSUME AcceptReads PROVE Counted' /\ wg' \in Nat
    BY <1>6, CountKept DEF AcceptReads, TypeOK, Runs, Watches, serverVars, connVars
  <1>7. ASSUME NEW c \in Conns, AcceptTakes(c) PROVE Counted' /\ wg' \in Nat
    BY <1>7, CountKept DEF AcceptTakes, TypeOK, Runs, Watches, serverVars, connVars
  <1>8. ASSUME AcceptFails PROVE Counted' /\ wg' \in Nat
    BY <1>8, CountKept DEF AcceptFails, TypeOK, Runs, Watches, serverVars, connVars
  <1>9. ASSUME NEW s \in Stoppers, CallStop(s) PROVE Counted' /\ wg' \in Nat
    BY <1>9, CountKept DEF CallStop, TypeOK, Runs, Watches, serverVars, connVars
  <1>10. ASSUME NEW s \in Stoppers, StopLocks(s) PROVE Counted' /\ wg' \in Nat
    BY <1>10, CountKept DEF StopLocks, TypeOK, Runs, Watches, serverVars, connVars
  <1>11. ASSUME NEW s \in Stoppers, SetInterrupted(s) PROVE Counted' /\ wg' \in Nat
    BY <1>11, CountKept DEF SetInterrupted, TypeOK, Runs, Watches, serverVars, connVars
  <1>12. ASSUME NEW s \in Stoppers, CloseListener(s) PROVE Counted' /\ wg' \in Nat
    BY <1>12, CountKept DEF CloseListener, TypeOK, Runs, Watches, serverVars, connVars
  <1>13. ASSUME NEW s \in Stoppers, Waited(s) PROVE Counted' /\ wg' \in Nat
    BY <1>13, CountKept DEF Waited, TypeOK, Runs, Watches, serverVars, connVars
  <1>14. ASSUME NEW s \in Stoppers, CloseStopChan(s) PROVE Counted' /\ wg' \in Nat
    BY <1>14, CountKept DEF CloseStopChan, TypeOK, Runs, Watches, serverVars, connVars
  <1>15. ASSUME NEW s \in Stoppers, StopReturnsNow(s) PROVE Counted' /\ wg' \in Nat
    BY <1>15, CountKept DEF StopReturnsNow, TypeOK, Runs, Watches, serverVars, connVars
  <1>16. ASSUME NEW c \in Conns, Check(c) PROVE Counted' /\ wg' \in Nat
    <2>1. Runs' = Runs /\ Watches' = Watches /\ wg' = wg
      BY <1>16 DEF Check, Go, TypeOK, Runs, Watches, WorkerRuns, serverVars
    <2> QED BY <2>1, CountKept DEF TypeOK
  <1>17. ASSUME NEW c \in Conns, ReadRequest(c) PROVE Counted' /\ wg' \in Nat
    <2>1. Runs' = Runs /\ Watches' = Watches /\ wg' = wg
      BY <1>17 DEF ReadRequest, Go, TypeOK, Runs, Watches, WorkerRuns, serverVars
    <2> QED BY <2>1, CountKept DEF TypeOK
  <1>18. ASSUME NEW c \in Conns, ReadEnds(c) PROVE Counted' /\ wg' \in Nat
    <2>1. Runs' = Runs /\ Watches' = Watches /\ wg' = wg
      BY <1>18 DEF ReadEnds, Go, TypeOK, Runs, Watches, WorkerRuns, serverVars
    <2> QED BY <2>1, CountKept DEF TypeOK
  <1>19. ASSUME NEW c \in Conns, Handle(c) PROVE Counted' /\ wg' \in Nat
    <2>1. Runs' = Runs /\ Watches' = Watches /\ wg' = wg
      BY <1>19 DEF Handle, Go, TypeOK, Runs, Watches, WorkerRuns, serverVars
    <2> QED BY <2>1, CountKept DEF TypeOK
  <1>20. ASSUME NEW c \in Conns, Answer(c) PROVE Counted' /\ wg' \in Nat
    <2>1. Runs' = Runs /\ Watches' = Watches /\ wg' = wg
      BY <1>20 DEF Answer, Go, TypeOK, Runs, Watches, WorkerRuns, serverVars
    <2> QED BY <2>1, CountKept DEF TypeOK
  <1>21. ASSUME NEW c \in Conns, CloseClient(c) PROVE Counted' /\ wg' \in Nat
    <2>1. Runs' = Runs /\ Watches' = Watches /\ wg' = wg
      BY <1>21 DEF CloseClient, Go, TypeOK, Runs, Watches, WorkerRuns, serverVars
    <2> QED BY <2>1, CountKept DEF TypeOK
  <1>22. ASSUME HandOver PROVE Counted' /\ wg' \in Nat
    <2>1. CASE closed \/ got = Failed
      BY <1>22, <2>1, CountKept
      DEF HandOver, LockedAccept, StopAccepting, TypeOK, Runs, Watches
    <2>2. CASE ~closed /\ got # Failed
      <3>1. got \in Conns /\ worker[got] = "none" /\ watcher[got] = "none"
        BY <1>22, <2>2 DEF HandOver, LockedAccept, TypeOK, ConnInv
      <3>2. /\ Runs' = Runs \cup {got} /\ Watches' = Watches \cup {got}
            /\ wg' = wg + 2
        BY <1>22, <2>2, <3>1
        DEF HandOver, LockedAccept, TakeOn, TypeOK, Runs, Watches, WorkerRuns
      <3>3. got \notin Runs /\ got \notin Watches
        BY <3>1 DEF Runs, Watches, WorkerRuns
      <3>4. /\ Cardinality(Runs \cup {got}) = Cardinality(Runs) + 1
            /\ Cardinality(Watches \cup {got}) = Cardinality(Watches) + 1
        BY <1>1, <3>3, FS_AddElement
      <3> QED BY <1>1, <3>2, <3>4 DEF Counted
    <2> QED BY <2>1, <2>2
  <1>23. ASSUME NEW c \in Conns, WorkerDone(c) PROVE Counted' /\ wg' \in Nat
    <2>1. c \in Runs
      BY <1>23 DEF WorkerDone, Runs, WorkerRuns
    <2>2. Runs' = Runs \ {c} /\ Watches' = Watches /\ wg' = wg - 1
      BY <1>23 DEF WorkerDone, Go, TypeOK, Runs, Watches, WorkerRuns
    <2>3. Cardinality(Runs \ {c}) = Cardinality(Runs) - 1
      BY <1>1, <2>1, FS_RemoveElement
    <2> QED BY <1>1, <2>1, <2>2, <2>3, SomebodyCounts DEF Counted
  <1>24. ASSUME NEW c \in Conns, Watcher(c) PROVE Counted' /\ wg' \in Nat
    <2>1. c \in Watches
      BY <1>24 DEF Watcher, SeesContext, SeesStop, Watches
    <2>2. Watches' = Watches \ {c} /\ Runs' = Runs /\ wg' = wg - 1
      BY <1>24 DEF Watcher, SeesContext, SeesStop, WatcherLeaves, TypeOK, Runs, Watches
    <2>3. Cardinality(Watches \ {c}) = Cardinality(Watches) - 1
      BY <1>1, <2>1, FS_RemoveElement
    <2> QED BY <1>1, <2>1, <2>2, <2>3, SomebodyCounts DEF Counted
  <1>25. CASE UNCHANGED vars
    BY <1>25, CountKept DEF vars, serverVars, connVars, TypeOK, Runs, Watches
  <1> QED
    BY <1>2, <1>3, <1>4, <1>5, <1>6, <1>7, <1>8, <1>9, <1>10, <1>11, <1>12, <1>13,
       <1>14, <1>15, <1>16, <1>17, <1>18, <1>19, <1>20, <1>21, <1>22, <1>23, <1>24,
       <1>25
    DEF Next, Worker, Stop
------------------------------------------------------------------------------
(* The rest of the invariant, for a step whose count is right.             *)
Shape ==
    /\ cut => limited
    /\ closed /\ mu = Nobody => wg = 0
    /\ \A s \in Stoppers : StopInv(s)
    /\ \A c \in Conns : ConnInv(c)
    /\ AnsweredUnlessCut

LEMMA ShapeStep ==
    ASSUME IndInv, [Next]_vars, wg' \in Nat
    PROVE  TypeOK' /\ Shape'
  <1> USE ServerAssumption DEF IndInv, TypeOK, Shape, StopInv, ConnInv, AnsweredUnlessCut,
          StopStates, InsideStop, ServeStates, WorkerRuns,
          serverVars, socketVars, connVars, requestVars
  <1>1. ASSUME NEW c \in Conns, Connect(c) PROVE TypeOK' /\ Shape'
    BY <1>1 DEF Connect
  <1>2. ASSUME NEW c \in Conns, Send(c) PROVE TypeOK' /\ Shape'
    BY <1>2 DEF Send
  <1>3. ASSUME NEW c \in Conns, Leave(c) PROVE TypeOK' /\ Shape'
    BY <1>3 DEF Leave
  <1>4. ASSUME Listen PROVE TypeOK' /\ Shape'
    BY <1>4 DEF Listen
  <1>5. ASSUME AcceptReads PROVE TypeOK' /\ Shape'
    BY <1>5 DEF AcceptReads
  <1>6. ASSUME NEW c \in Conns, AcceptTakes(c) PROVE TypeOK' /\ Shape'
    BY <1>6 DEF AcceptTakes
  <1>7. ASSUME AcceptFails PROVE TypeOK' /\ Shape'
    BY <1>7 DEF AcceptFails
  <1>8. ASSUME NEW s \in Stoppers, CallStop(s) PROVE TypeOK' /\ Shape'
    BY <1>8 DEF CallStop
  <1>9. ASSUME NEW s \in Stoppers, StopLocks(s) PROVE TypeOK' /\ Shape'
    <2>1. CASE closed
      BY <1>9, <2>1 DEF StopLocks
    <2>2. CASE ~closed
      <3>1. /\ stop' = [stop EXCEPT ![s] = "interrupt"] /\ mu' = s /\ closed' = TRUE
            /\ UNCHANGED <<limited, wg, cut, socketVars, connVars, client, requestVars>>
        BY <1>9, <2>2 DEF StopLocks
      <3>2. \A t \in Stoppers : StopInv(t)'
        BY <1>9, <2>2, <3>1 DEF StopLocks
      <3>3. \A c \in Conns : ConnInv(c)'
        BY <3>1
      <3> QED BY <1>9, <2>2, <3>1, <3>2, <3>3 DEF StopLocks
    <2> QED BY <2>1, <2>2
  <1>10. ASSUME NEW s \in Stoppers, SetInterrupted(s) PROVE TypeOK' /\ Shape'
    BY <1>10 DEF SetInterrupted
  <1>11. ASSUME NEW s \in Stoppers, CloseListener(s) PROVE TypeOK' /\ Shape'
    BY <1>11 DEF CloseListener
  <1>12. ASSUME NEW s \in Stoppers, Waited(s) PROVE TypeOK' /\ Shape'
    BY <1>12 DEF Waited
  <1>13. ASSUME NEW s \in Stoppers, CloseStopChan(s) PROVE TypeOK' /\ Shape'
    BY <1>13 DEF CloseStopChan
  <1>14. ASSUME NEW s \in Stoppers, StopReturnsNow(s) PROVE TypeOK' /\ Shape'
    BY <1>14 DEF StopReturnsNow
  <1>15. ASSUME NEW c \in Conns, Check(c) PROVE TypeOK' /\ Shape'
    BY <1>15 DEF Check, Go
  <1>16. ASSUME NEW c \in Conns, ReadRequest(c) PROVE TypeOK' /\ Shape'
    BY <1>16 DEF ReadRequest, Go
  <1>17. ASSUME NEW c \in Conns, ReadEnds(c) PROVE TypeOK' /\ Shape'
    BY <1>17 DEF ReadEnds, Go
  <1>18. ASSUME NEW c \in Conns, Handle(c) PROVE TypeOK' /\ Shape'
    BY <1>18 DEF Handle, Go
  <1>19. ASSUME NEW c \in Conns, Answer(c) PROVE TypeOK' /\ Shape'
    BY <1>19 DEF Answer, Go
  <1>20. ASSUME NEW c \in Conns, CloseClient(c) PROVE TypeOK' /\ Shape'
    BY <1>20 DEF CloseClient, Go
  <1>21. ASSUME HandOver PROVE TypeOK' /\ Shape'
    BY <1>21 DEF HandOver, LockedAccept, StopAccepting, TakeOn
  <1>22. ASSUME NEW c \in Conns, WorkerDone(c) PROVE TypeOK' /\ Shape'
    <2>1. wg # 0
      BY <1>22, SomebodyCounts DEF WorkerDone, Runs
    <2> QED BY <1>22, <2>1 DEF WorkerDone, Go
  <1>23. ASSUME NEW c \in Conns, Watcher(c) PROVE TypeOK' /\ Shape'
    <2>1. wg # 0
      BY <1>23, SomebodyCounts DEF Watcher, SeesContext, SeesStop, Watches
    <2> QED BY <1>23, <2>1 DEF Watcher, SeesContext, SeesStop, WatcherLeaves
  <1>24. CASE UNCHANGED vars
    BY <1>24 DEF vars
  <1> QED
    BY <1>1, <1>2, <1>3, <1>4, <1>5, <1>6, <1>7, <1>8, <1>9, <1>10, <1>11, <1>12,
       <1>13, <1>14, <1>15, <1>16, <1>17, <1>18, <1>19, <1>20, <1>21, <1>22, <1>23,
       <1>24
    DEF Next, Worker, Stop
------------------------------------------------------------------------------
LEMMA Initially == Init => IndInv
  <1> SUFFICES ASSUME Init PROVE IndInv
    OBVIOUS
  <1>1. Runs = {} /\ Watches = {}
    BY DEF Init, Runs, Watches, WorkerRuns
  <1>2. Counted
    BY <1>1, FS_EmptySet DEF Init, Counted
  <1>3. TypeOK /\ Shape
    BY ServerAssumption
    DEF Init, TypeOK, Shape, StopInv, ConnInv, AnsweredUnlessCut, StopStates, InsideStop,
        ServeStates, WorkerRuns
  <1> QED BY <1>2, <1>3 DEF IndInv, Shape

LEMMA Inductive == IndInv /\ [Next]_vars => IndInv'
  BY CountStep, ShapeStep DEF IndInv, Shape

LEMMA Invariance == Spec => []IndInv
  BY Initially, Inductive, PTL DEF Spec

(* Whatever clients do and whoever calls Stop, wg stays a count of         *)
(* goroutines and every goroutine is in a known place.                     *)
THEOREM TypeCorrect == Spec => []TypeOK
  <1>1. IndInv => TypeOK
    BY DEF IndInv
  <1> QED BY <1>1, Invariance, PTL

(* When any call of Stop has returned, nobody works for a connection, and  *)
(* nobody ever will, whatever Accept had in hand when Stop began.          *)
THEOREM Stopped == Spec => []StopMeansStopped
  <1>1. IndInv => StopMeansStopped
    <2> SUFFICES ASSUME IndInv, NEW s \in Stoppers, stop[s] = "returned"
                 PROVE  Sessions = {} /\ \A c \in open : worker[c] = "none"
      BY DEF StopMeansStopped
    <2>1. Runs = {} /\ Watches = {}
      BY NobodyIsCounted DEF IndInv, StopInv
    <2>2. Sessions = {}
      BY <2>1 DEF Sessions, Runs, Watches
    <2>3. ASSUME NEW c \in open PROVE worker[c] = "none"
      BY <2>1 DEF IndInv, TypeOK, ConnInv, Runs, WorkerRuns
    <2> QED BY <2>2, <2>3
  <1> QED BY <1>1, Invariance, PTL

(* Only a timeout of Stop, the client or the handler itself makes a        *)
(* request that was read go without an answer.                             *)
THEOREM NoAnswerLost == Spec => []AnsweredUnlessCut
  <1>1. IndInv => AnsweredUnlessCut
    BY DEF IndInv
  <1> QED BY <1>1, Invariance, PTL
------------------------------------------------------------------------------
(* The server implements ThriftDrain: every step of it takes on a          *)
(* connection while the server is open, lets one go, begins or ends the    *)
(* draining, or is none of ThriftDrain's.                                  *)
LEMMA SamePromise ==
    ASSUME UNCHANGED <<closed, stop, worker, watcher>>
    PROVE  UNCHANGED D!dvars
  BY DEF D!dvars, Phase, Sessions

LEMMA DrainStep ==
    ASSUME IndInv, IndInv', [Next]_vars
    PROVE  [D!DNext]_(D!dvars)
  <1>1. ASSUME NEW c \in Conns, Connect(c) PROVE UNCHANGED D!dvars
    BY <1>1, SamePromise DEF Connect, serverVars, connVars
  <1>2. ASSUME NEW c \in Conns, Send(c) PROVE UNCHANGED D!dvars
    BY <1>2, SamePromise DEF Send, serverVars, connVars
  <1>3. ASSUME NEW c \in Conns, Leave(c) PROVE UNCHANGED D!dvars
    BY <1>3, SamePromise DEF Leave, serverVars, connVars
  <1>4. ASSUME Listen PROVE UNCHANGED D!dvars
    BY <1>4, SamePromise DEF Listen, serverVars, connVars
  <1>5. ASSUME AcceptReads PROVE UNCHANGED D!dvars
    BY <1>5, SamePromise DEF AcceptReads, serverVars, connVars
  <1>6. ASSUME NEW c \in Conns, AcceptTakes(c) PROVE UNCHANGED D!dvars
    BY <1>6, SamePromise DEF AcceptTakes, serverVars, connVars
  <1>7. ASSUME AcceptFails PROVE UNCHANGED D!dvars
    BY <1>7, SamePromise DEF AcceptFails, serverVars, connVars
  <1>8. ASSUME NEW c \in Conns, Check(c) PROVE UNCHANGED D!dvars
    BY <1>8
    DEF Check, Go, IndInv, TypeOK, WorkerRuns, serverVars, D!dvars, Phase, Sessions
  <1>9. ASSUME NEW c \in Conns, ReadRequest(c) PROVE UNCHANGED D!dvars
    BY <1>9
    DEF ReadRequest, Go, IndInv, TypeOK, WorkerRuns, serverVars, D!dvars, Phase, Sessions
  <1>10. ASSUME NEW c \in Conns, ReadEnds(c) PROVE UNCHANGED D!dvars
    BY <1>10
    DEF ReadEnds, Go, IndInv, TypeOK, WorkerRuns, serverVars, D!dvars, Phase, Sessions
  <1>11. ASSUME NEW c \in Conns, Handle(c) PROVE UNCHANGED D!dvars
    BY <1>11
    DEF Handle, Go, IndInv, TypeOK, WorkerRuns, serverVars, D!dvars, Phase, Sessions
  <1>12. ASSUME NEW c \in Conns, Answer(c) PROVE UNCHANGED D!dvars
    BY <1>12
    DEF Answer, Go, IndInv, TypeOK, WorkerRuns, serverVars, D!dvars, Phase, Sessions
  <1>13. ASSUME NEW c \in Conns, CloseClient(c) PROVE UNCHANGED D!dvars
    BY <1>13
    DEF CloseClient, Go, IndInv, TypeOK, WorkerRuns, serverVars, D!dvars, Phase, Sessions
  <1>14. ASSUME NEW s \in Stoppers, CallStop(s) PROVE UNCHANGED D!dvars
    <2>1. (\E t \in Stoppers : stop'[t] = "returned") <=> (\E t \in Stoppers : stop[t] = "returned")
      BY <1>14 DEF CallStop, IndInv, TypeOK
    <2> QED BY <1>14, <2>1 DEF CallStop, connVars, D!dvars, Phase, Sessions
  <1>15. ASSUME NEW s \in Stoppers, SetInterrupted(s) PROVE UNCHANGED D!dvars
    <2>1. (\E t \in Stoppers : stop'[t] = "returned") <=> (\E t \in Stoppers : stop[t] = "returned")
      BY <1>15 DEF SetInterrupted, IndInv, TypeOK
    <2> QED BY <1>15, <2>1 DEF SetInterrupted, connVars, D!dvars, Phase, Sessions
  <1>16. ASSUME NEW s \in Stoppers, CloseListener(s) PROVE UNCHANGED D!dvars
    <2>1. (\E t \in Stoppers : stop'[t] = "returned") <=> (\E t \in Stoppers : stop[t] = "returned")
      BY <1>16 DEF CloseListener, IndInv, TypeOK
    <2> QED BY <1>16, <2>1 DEF CloseListener, connVars, D!dvars, Phase, Sessions
  <1>17. ASSUME NEW s \in Stoppers, Waited(s) PROVE UNCHANGED D!dvars
    <2>1. (\E t \in Stoppers : stop'[t] = "returned") <=> (\E t \in Stoppers : stop[t] = "returned")
      BY <1>17 DEF Waited, IndInv, TypeOK
    <2> QED BY <1>17, <2>1 DEF Waited, connVars, D!dvars, Phase, Sessions
  <1>18. ASSUME NEW s \in Stoppers, CloseStopChan(s) PROVE UNCHANGED D!dvars
    <2>1. (\E t \in Stoppers : stop'[t] = "returned") <=> (\E t \in Stoppers : stop[t] = "returned")
      BY <1>18 DEF CloseStopChan, IndInv, TypeOK
    <2> QED BY <1>18, <2>1 DEF CloseStopChan, connVars, D!dvars, Phase, Sessions
  <1>19. ASSUME HandOver PROVE [D!DNext]_(D!dvars)
    <2>1. CASE closed \/ got = Failed
      BY <1>19, <2>1, SamePromise DEF HandOver, LockedAccept, StopAccepting
    <2>2. CASE ~closed /\ got # Failed
      <3>1. got \in Conns
        BY <2>2 DEF IndInv, TypeOK
      <3>2. Sessions' = Sessions \cup {got}
        BY <1>19, <2>2, <3>1
        DEF HandOver, LockedAccept, TakeOn, Sessions, IndInv, TypeOK, WorkerRuns
      <3>3. Phase = "open" /\ UNCHANGED Phase
        BY <1>19, <2>2 DEF HandOver, LockedAccept, Phase
      <3> QED BY <3>1, <3>2, <3>3 DEF D!DNext, D!Begin
    <2> QED BY <2>1, <2>2
  <1>20. ASSUME NEW c \in Conns, WorkerDone(c) \/ Watcher(c) PROVE [D!DNext]_(D!dvars)
    <2>1. UNCHANGED Phase
      BY <1>20
      DEF WorkerDone, Watcher, SeesContext, SeesStop, WatcherLeaves, Phase
    <2>2. Sessions' = Sessions \/ Sessions' = Sessions \ {c}
      BY <1>20
      DEF WorkerDone, Go, Watcher, SeesContext, SeesStop, WatcherLeaves, Sessions,
          IndInv, TypeOK, WorkerRuns
    <2> QED BY <2>1, <2>2 DEF D!DNext, D!End, D!dvars
  <1>21. ASSUME NEW s \in Stoppers, StopLocks(s) PROVE [D!DNext]_(D!dvars)
    <2>1. UNCHANGED Sessions
      BY <1>21 DEF StopLocks, connVars, Sessions
    <2>2. CASE ~closed
      <3>1. Phase = "open" /\ Phase' = "draining"
        BY <1>21, <2>2 DEF StopLocks, Phase, IndInv, StopInv, TypeOK, InsideStop
      <3> QED BY <2>1, <3>1 DEF D!DNext, D!StartDraining
    <2>3. CASE closed
      <3>1. stop'[s] = "returned" /\ closed' /\ wg' = wg
        BY <1>21, <2>3 DEF StopLocks, IndInv, TypeOK
      <3>2. Phase' = "stopped"
        BY <3>1 DEF Phase
      <3>3. Sessions = {}
        BY <2>1, <3>1, NobodyIsCounted DEF IndInv, StopInv, Sessions, Runs, Watches
      <3>4. Phase \in {"draining", "stopped"}
        BY <2>3 DEF Phase
      <3> QED BY <2>1, <3>2, <3>3, <3>4 DEF D!DNext, D!Finish, D!dvars
    <2> QED BY <2>2, <2>3
  <1>22. ASSUME NEW s \in Stoppers, StopReturnsNow(s) PROVE [D!DNext]_(D!dvars)
    <2>1. UNCHANGED Sessions
      BY <1>22 DEF StopReturnsNow, connVars, Sessions
    <2>2. Sessions = {}
      BY <1>22, NobodyIsCounted DEF StopReturnsNow, IndInv, Sessions, Runs, Watches
    <2>3. Phase' = "stopped" /\ Phase \in {"draining", "stopped"}
      BY <1>22 DEF StopReturnsNow, IndInv, TypeOK, StopInv, InsideStop, Phase
    <2> QED BY <2>1, <2>2, <2>3 DEF D!DNext, D!Finish, D!dvars
  <1>23. CASE UNCHANGED vars
    BY <1>23, SamePromise DEF vars, serverVars, connVars
  <1> QED
    BY <1>1, <1>2, <1>3, <1>4, <1>5, <1>6, <1>7, <1>8, <1>9, <1>10, <1>11, <1>12,
       <1>13, <1>14, <1>15, <1>16, <1>17, <1>18, <1>19, <1>20, <1>21, <1>22, <1>23
    DEF Next, Worker, Stop

(* The code keeps the promise of ThriftDrain.                              *)
THEOREM Implements == Spec => Drains
  <1>1. Init => D!DInit
    BY DEF Init, D!DInit, Phase, Sessions, WorkerRuns
  <1> QED BY <1>1, Invariance, DrainStep, PTL DEF Spec, Drains, D!DSpec
------------------------------------------------------------------------------
(* What StopReturns rests on, for any number of connections.               *)
(* Once its timeout has passed, a Stop waits for no client: stopChan is    *)
(* closed, and a worker that waits for a request either reads from a       *)
(* connection that is closed already or has a watcher that has yet to see  *)
(* stopChan and close it.                                                  *)
NeverHeldUp ==
    \A s \in Stoppers : stop[s] = "drain" =>
        /\ cut
        /\ \A c \in Conns : worker[c] = "reading" => c \notin open \/ watcher[c] = "waiting"

(* A watcher that has ended has closed its connection.                     *)
WatchInv ==
    /\ \A s \in Stoppers : stop[s] = "drain" => cut
    /\ \A c \in Conns : watcher[c] = "done" => c \notin open

LEMMA WatchStep ==
    ASSUME IndInv, WatchInv, [Next]_vars
    PROVE  WatchInv'
  <1> USE DEF WatchInv, IndInv, TypeOK, serverVars, socketVars, connVars, requestVars
  <1>1. ASSUME NEW c \in Conns, Connect(c) \/ Send(c) \/ Leave(c) PROVE WatchInv'
    BY <1>1 DEF Connect, Send, Leave
  <1>2. CASE Listen \/ AcceptReads \/ AcceptFails
    BY <1>2 DEF Listen, AcceptReads, AcceptFails
  <1>3. ASSUME NEW c \in Conns, AcceptTakes(c) PROVE WatchInv'
    BY <1>3 DEF AcceptTakes, ConnInv
  <1>4. CASE HandOver
    BY <1>4 DEF HandOver, LockedAccept, StopAccepting, TakeOn
  <1>5. ASSUME NEW c \in Conns, Worker(c) PROVE WatchInv'
    BY <1>5 DEF Worker, Check, ReadRequest, ReadEnds, Handle, Answer, CloseClient, WorkerDone
  <1>6. ASSUME NEW c \in Conns, Watcher(c) PROVE WatchInv'
    BY <1>6 DEF Watcher, SeesContext, SeesStop, WatcherLeaves, ConnInv
  <1>7. ASSUME NEW s \in Stoppers,
               CallStop(s) \/ StopLocks(s) \/ SetInterrupted(s) \/ CloseListener(s) \/ Waited(s)
        PROVE  WatchInv'
    BY <1>7 DEF CallStop, StopLocks, SetInterrupted, CloseListener, Waited
  <1>8. ASSUME NEW s \in Stoppers, CloseStopChan(s) PROVE WatchInv'
    BY <1>8 DEF CloseStopChan
  <1>9. ASSUME NEW s \in Stoppers, StopReturnsNow(s) PROVE WatchInv'
    <2>1. mu = s
      BY <1>9 DEF StopReturnsNow, StopInv, InsideStop
    <2>2. \A t \in Stoppers : t # s => stop[t] # "drain"
      BY <2>1 DEF StopInv, InsideStop
    <2> QED BY <1>9, <2>2 DEF StopReturnsNow
  <1>10. CASE UNCHANGED vars
    BY <1>10 DEF vars
  <1> QED
    BY <1>1, <1>2, <1>3, <1>4, <1>5, <1>6, <1>7, <1>8, <1>9, <1>10 DEF Next, Stop

LEMMA Watched == Spec => []WatchInv
  <1>1. Init => WatchInv
    BY DEF Init, WatchInv, TypeOK
  <1> QED BY <1>1, WatchStep, Invariance, PTL DEF Spec

(* Once the timeout of a Stop has passed, its wait does not hang on any    *)
(* client: whoever still reads has lost its connection or is about to. A   *)
(* watcher never leaves an open connection behind, and stopChan stays      *)
(* closed until the Stop that closed it returns.                           *)
THEOREM StopNotHeldUp == Spec => []NeverHeldUp
  <1>1. IndInv /\ WatchInv => NeverHeldUp
    BY DEF IndInv, TypeOK, ConnInv, WatchInv, NeverHeldUp
  <1> QED BY <1>1, Invariance, Watched, PTL

(* How far the goroutines of a connection are from their end, once the     *)
(* server is closed.                                                       *)
StepsLeft(state) ==
    CASE state = "reading" -> 6
      [] state = "handling" -> 5
      [] state = "answering" -> 4
      [] state = "check" -> 3
      [] state = "ending" -> 2
      [] state = "leaving" -> 1
      [] state \in {"none", "done"} -> 0

Less(c)  == StepsLeft(worker'[c]) < StepsLeft(worker[c])
Gone(c)  == watcher[c] = "waiting" /\ watcher'[c] = "done"

OnlyDown ==
    [][closed => \A c \in Conns :
          /\ Worker(c) => Less(c)
          /\ Watcher(c) => Gone(c)
          /\ worker'[c] = worker[c] \/ Less(c)
          /\ watcher'[c] = watcher[c] \/ Gone(c)]_vars

LEMMA WorkerLess ==
    ASSUME TypeOK, closed, NEW c \in Conns, Worker(c)
    PROVE  /\ Less(c) /\ watcher' = watcher
           /\ \A d \in Conns \ {c} : worker'[d] = worker[d]
  <1> USE DEF TypeOK, Go, connVars, Less, StepsLeft
  <1>1. CASE Check(c)
    BY <1>1 DEF Check
  <1>2. CASE ReadRequest(c)
    BY <1>2 DEF ReadRequest
  <1>3. CASE ReadEnds(c)
    BY <1>3 DEF ReadEnds
  <1>4. CASE Handle(c)
    BY <1>4 DEF Handle
  <1>5. CASE Answer(c)
    BY <1>5 DEF Answer
  <1>6. CASE CloseClient(c)
    BY <1>6 DEF CloseClient
  <1>7. CASE WorkerDone(c)
    BY <1>7 DEF WorkerDone
  <1> QED
    BY <1>1, <1>2, <1>3, <1>4, <1>5, <1>6, <1>7 DEF Worker

LEMMA WatcherGone ==
    ASSUME TypeOK, NEW c \in Conns, Watcher(c)
    PROVE  /\ Gone(c) /\ worker' = worker
           /\ \A d \in Conns \ {c} : watcher'[d] = watcher[d]
  BY DEF TypeOK, Watcher, SeesContext, SeesStop, WatcherLeaves, Gone

(* Once the server is closed no goroutine is added and none goes round:    *)
(* each step of one takes it nearer its end, whatever clients and other    *)
(* callers of Stop do.  A worker makes at most six more.                   *)
THEOREM GoroutinesEnd == Spec => OnlyDown
  <1>1. ASSUME TypeOK, [Next]_vars, closed, NEW c \in Conns
        PROVE  /\ Worker(c) => Less(c)
               /\ Watcher(c) => Gone(c)
               /\ worker'[c] = worker[c] \/ Less(c)
               /\ watcher'[c] = watcher[c] \/ Gone(c)
    <2>1. ASSUME NEW d \in Conns, Worker(d)
          PROVE  (worker'[c] = worker[c] \/ Less(c)) /\ watcher'[c] = watcher[c]
      BY <1>1, <2>1, WorkerLess
    <2>2. ASSUME NEW d \in Conns, Watcher(d)
          PROVE  worker'[c] = worker[c] /\ (watcher'[c] = watcher[c] \/ Gone(c))
      BY <1>1, <2>2, WatcherGone
    <2>3. ASSUME NEW d \in Conns, Connect(d) \/ Send(d) \/ Leave(d) \/ AcceptTakes(d)
          PROVE  worker' = worker /\ watcher' = watcher
      BY <2>3 DEF Connect, Send, Leave, AcceptTakes, connVars
    <2>4. ASSUME Listen \/ AcceptReads \/ AcceptFails \/ HandOver
          PROVE  worker' = worker /\ watcher' = watcher
      BY <1>1, <2>4
      DEF Listen, AcceptReads, AcceptFails, HandOver, LockedAccept, StopAccepting, connVars
    <2>5. ASSUME NEW s \in Stoppers, CallStop(s) \/ Stop(s)
          PROVE  worker' = worker /\ watcher' = watcher
      BY <2>5
      DEF CallStop, Stop, StopLocks, SetInterrupted, CloseListener, Waited, CloseStopChan,
          StopReturnsNow, connVars
    <2>6. ASSUME UNCHANGED vars PROVE worker' = worker /\ watcher' = watcher
      BY <2>6 DEF vars, connVars
    <2> QED
      BY <1>1, <2>1, <2>2, <2>3, <2>4, <2>5, <2>6, WorkerLess, WatcherGone DEF Next
  <1>2. TypeOK /\ [Next]_vars
        => [closed => \A c \in Conns :
               /\ Worker(c) => Less(c)
               /\ Watcher(c) => Gone(c)
               /\ worker'[c] = worker[c] \/ Less(c)
               /\ watcher'[c] = watcher[c] \/ Gone(c)]_vars
    BY <1>1
  <1> QED BY <1>2, TypeCorrect, PTL DEF Spec, OnlyDown
==============================================================================
