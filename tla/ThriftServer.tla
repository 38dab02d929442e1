----------------------------- MODULE ThriftServer -----------------------------
(***************************************************************************)
(* TSimpleServer over a TServerSocket: simple_server.go, server_socket.go  *)
(* and the sockets it hands out (socket.go, socket_conn.go).               *)
(*                                                                         *)
(* One goroutine runs Serve.  Every accepted connection has two: a worker  *)
(* that runs processRequests, and a watcher that closes the connection     *)
(* when the server gives up waiting.  Any number of goroutines call Stop.  *)
(* Clients connect, send requests and leave as they like; what a handler   *)
(* does with a request is the generated code's and the user's.             *)
(***************************************************************************)
EXTENDS Integers, FiniteSets

CONSTANTS
    Conns,       \* the connections that clients may make
    Stoppers,    \* goroutines that may call Stop
    Nobody,      \* the lock is free
    Failed       \* Accept returned an error

ASSUME ServerAssumption ==
    /\ IsFiniteSet(Conns)
    /\ Nobody \notin Stoppers /\ Failed \notin Conns

VARIABLES
    limited,     \* ServerStopTimeout > 0
    mu,          \* who holds TSimpleServer.mu
    closed,      \* TSimpleServer.closed
    wg,          \* TSimpleServer.wg
    cut,         \* stopChan is closed
    stop,        \* where each caller of Stop is
    interrupted, \* TServerSocket.interrupted
    listening,   \* TServerSocket.listener is open
    serve,       \* where Serve is
    got,         \* what Accept returned to it
    worker,      \* where the worker of a connection is
    watcher,     \* where its watcher is
    open,        \* the connections that the server holds open
    backlog,     \* connections that wait to be accepted
    client,      \* the other end: away, here or gone
    unread,      \* the connections with a request that was not read yet,
    owed         \* and with one that was read and not answered or given up

serverVars == <<limited, mu, closed, wg, cut, stop>>
socketVars == <<interrupted, listening, serve, got, backlog>>
connVars   == <<worker, watcher, open>>
requestVars == <<unread, owed>>
vars == <<serverVars, socketVars, connVars, client, requestVars>>

StopStates  == {"idle", "locking", "interrupt", "close", "wait", "cut", "drain", "returned"}
InsideStop  == {"interrupt", "close", "wait", "cut", "drain"}
ServeStates == {"listen", "accept", "blocked", "lock", "done"}
WorkerRuns  == {"check", "reading", "handling", "answering", "ending", "leaving"}

TypeOK ==
    /\ limited \in BOOLEAN /\ closed \in BOOLEAN /\ cut \in BOOLEAN
    /\ mu \in Stoppers \cup {Nobody} /\ wg \in Nat
    /\ stop \in [Stoppers -> StopStates]
    /\ interrupted \in BOOLEAN /\ listening \in BOOLEAN
    /\ serve \in ServeStates /\ got \in Conns \cup {Failed}
    /\ worker \in [Conns -> WorkerRuns \cup {"none", "done"}]
    /\ watcher \in [Conns -> {"none", "waiting", "done"}]
    /\ open \subseteq Conns /\ backlog \subseteq Conns
    /\ unread \subseteq Conns /\ owed \subseteq Conns
    /\ client \in [Conns -> {"away", "here", "gone"}]

Init ==
    /\ limited \in BOOLEAN
    /\ mu = Nobody /\ closed = FALSE /\ wg = 0 /\ cut = FALSE
    /\ stop = [s \in Stoppers |-> "idle"]
    /\ interrupted = FALSE /\ listening = FALSE /\ serve = "listen" /\ got = Failed
    /\ worker = [c \in Conns |-> "none"] /\ watcher = [c \in Conns |-> "none"]
    /\ open = {} /\ backlog = {}
    /\ client = [c \in Conns |-> "away"] /\ unread = {} /\ owed = {}
------------------------------------------------------------------------------
(* Clients; each waits for the answer to a request before the next.        *)
Connect(c) ==
    /\ client[c] = "away" /\ listening
    /\ client' = [client EXCEPT ![c] = "here"]
    /\ backlog' = backlog \cup {c}
    /\ UNCHANGED <<serverVars, interrupted, listening, serve, got, connVars, requestVars>>

Send(c) ==
    /\ client[c] = "here" /\ c \in (backlog \cup open) \ (unread \cup owed)
    /\ unread' = unread \cup {c}
    /\ UNCHANGED <<serverVars, socketVars, connVars, client, owed>>

Leave(c) ==
    /\ client[c] = "here" /\ c \in backlog \cup open
    /\ client' = [client EXCEPT ![c] = "gone"]
    /\ UNCHANGED <<serverVars, socketVars, connVars, requestVars>>
------------------------------------------------------------------------------
(* Serve: Listen, then AcceptLoop, whose error it drops.                   *)
Listen ==
    /\ serve = "listen"
    /\ \/ listening' = TRUE /\ serve' = "accept"
       \/ ~listening /\ serve' = "done" /\ UNCHANGED listening    \* the address is taken
    /\ UNCHANGED <<serverVars, interrupted, got, backlog, connVars, client, requestVars>>

(* TServerSocket.Accept reads both flags under its own lock and then waits *)
(* on the listener it has read.                                            *)
AcceptReads ==
    /\ serve = "accept"
    /\ IF interrupted \/ ~listening
       THEN serve' = "lock" /\ got' = Failed
       ELSE serve' = "blocked" /\ UNCHANGED got
    /\ UNCHANGED <<serverVars, interrupted, listening, backlog, connVars, client, requestVars>>

AcceptTakes(c) ==
    /\ serve = "blocked" /\ c \in backlog
    /\ serve' = "lock" /\ got' = c
    /\ backlog' = backlog \ {c} /\ open' = open \cup {c}
    /\ UNCHANGED <<serverVars, interrupted, listening, worker, watcher, client, requestVars>>

AcceptFails ==
    /\ serve = "blocked"
    /\ serve' = "lock" /\ got' = Failed
    /\ UNCHANGED <<serverVars, interrupted, listening, backlog, connVars, client, requestVars>>

(* The locked half of innerAccept.  A connection accepted while the server *)
(* closes is neither served nor closed.                                    *)
StopAccepting == serve' = "done" /\ UNCHANGED <<wg, worker, watcher>>

TakeOn(goroutines) ==
    /\ serve' = "accept"
    /\ wg' = wg + goroutines
    /\ worker' = [worker EXCEPT ![got] = "check"]
    /\ watcher' = [watcher EXCEPT ![got] = "waiting"]

LockedAccept ==
    /\ serve = "lock" /\ mu = Nobody
    /\ UNCHANGED <<limited, mu, closed, cut, stop, interrupted, listening, got, backlog,
                   open, client, requestVars>>

HandOver_CountsOne ==
    LockedAccept /\ IF closed \/ got = Failed THEN StopAccepting ELSE TakeOn(1)
HandOver_Unlocked ==
    /\ serve = "lock"
    /\ IF got = Failed THEN StopAccepting ELSE TakeOn(2)
    /\ UNCHANGED <<limited, mu, closed, cut, stop, interrupted, listening, got, backlog,
                   open, client, requestVars>>
HandOver_WaitsForClient ==
    /\ \A c \in Conns : worker[c] \notin WorkerRuns
    /\ LockedAccept
    /\ IF closed \/ got = Failed THEN StopAccepting ELSE TakeOn(2)
HandOver ==
    LockedAccept /\ IF closed \/ got = Failed THEN StopAccepting ELSE TakeOn(2)
------------------------------------------------------------------------------
(* A worker: processRequests, then what it deferred.                       *)
Go(c, state) == worker' = [worker EXCEPT ![c] = state]

Check(c) ==
    /\ worker[c] = "check"
    /\ Go(c, IF closed THEN "ending" ELSE "reading")
    /\ UNCHANGED <<serverVars, socketVars, watcher, open, client, requestVars>>

ReadRequest(c) ==
    /\ worker[c] = "reading" /\ c \in open \cap unread
    /\ unread' = unread \ {c} /\ owed' = owed \cup {c}
    /\ Go(c, "handling")
    /\ UNCHANGED <<serverVars, socketVars, watcher, open, client>>

(* The end of the stream, or NOT_OPEN on a connection that was closed.     *)
ReadEnds(c) ==
    /\ worker[c] = "reading"
    /\ c \notin open \/ (client[c] = "gone" /\ c \notin unread)
    /\ Go(c, "ending")
    /\ UNCHANGED <<serverVars, socketVars, watcher, open, client, requestVars>>

(* The handler of a request is done with it; or gives it up.               *)
Handle(c) ==
    /\ worker[c] = "handling"
    /\ \/ Go(c, "answering") /\ UNCHANGED owed
       \/ Go(c, "ending") /\ owed' = owed \ {c}    \* ErrAbandonRequest
    /\ UNCHANGED <<serverVars, socketVars, watcher, open, client, unread>>

(* Process goes on after an answer or UNKNOWN_METHOD, and returns not ok   *)
(* after an answer to a request it could not read.  Only a connection that *)
(* is closed at either end refuses an answer.                              *)
Answer(c) ==
    /\ worker[c] = "answering"
    /\ \/ /\ c \in open
          /\ owed' = owed \ {c}
          /\ Go(c, "check") \/ Go(c, "ending")
       \/ /\ c \notin open \/ client[c] = "gone"
          /\ Go(c, "ending") /\ UNCHANGED owed
    /\ UNCHANGED <<serverVars, socketVars, watcher, open, client, unread>>

(* The transports and the client are closed; then the context is cancelled *)
(* and the worker counts itself out.                                       *)
CloseClient(c) ==
    /\ worker[c] = "ending"
    /\ open' = open \ {c}
    /\ Go(c, "leaving")
    /\ UNCHANGED <<serverVars, socketVars, watcher, client, requestVars>>

WorkerDone(c) ==
    /\ worker[c] = "leaving"
    /\ wg' = wg - 1
    /\ Go(c, "done")
    /\ UNCHANGED <<limited, mu, closed, cut, stop, socketVars, watcher, open, client, requestVars>>

Worker(c) ==
    \/ Check(c) \/ ReadRequest(c) \/ ReadEnds(c)
    \/ Handle(c) \/ Answer(c) \/ CloseClient(c) \/ WorkerDone(c)
------------------------------------------------------------------------------
(* A watcher: the select on the worker's context and on stopChan, after    *)
(* which it only counts itself out.                                        *)
WatcherLeaves(c) ==
    /\ watcher' = [watcher EXCEPT ![c] = "done"]
    /\ wg' = wg - 1
    /\ UNCHANGED <<limited, mu, closed, cut, stop, socketVars, worker, client, requestVars>>

SeesContext(c) ==
    /\ watcher[c] = "waiting" /\ worker[c] = "done"
    /\ WatcherLeaves(c) /\ UNCHANGED open

SeesStop_Ignored(c) ==
    /\ watcher[c] = "waiting" /\ cut
    /\ WatcherLeaves(c) /\ UNCHANGED open

SeesStop(c) ==
    /\ watcher[c] = "waiting" /\ cut
    /\ WatcherLeaves(c) /\ open' = open \ {c}

Watcher(c) == SeesContext(c) \/ SeesStop(c)
------------------------------------------------------------------------------
(* Stop.  It keeps the lock to the end, also while it waits.               *)
CallStop(s) ==
    /\ stop[s] = "idle"
    /\ stop' = [stop EXCEPT ![s] = "locking"]
    /\ UNCHANGED <<limited, mu, closed, wg, cut, socketVars, connVars, client, requestVars>>

StopLocks(s) ==
    /\ stop[s] = "locking" /\ mu = Nobody
    /\ IF closed
       THEN stop' = [stop EXCEPT ![s] = "returned"] /\ UNCHANGED <<mu, closed>>
       ELSE stop' = [stop EXCEPT ![s] = "interrupt"] /\ mu' = s /\ closed' = TRUE
    /\ UNCHANGED <<limited, wg, cut, socketVars, connVars, client, requestVars>>

(* TServerSocket.Interrupt: the flag, and then Close, each under the       *)
(* socket's own lock.  Closing a listener resets what waits in its queue.  *)
SetInterrupted_Skipped(s) ==
    /\ stop[s] = "interrupt"
    /\ stop' = [stop EXCEPT ![s] = "close"]
    /\ UNCHANGED <<limited, mu, closed, wg, cut, socketVars, connVars, client, requestVars>>

SetInterrupted(s) ==
    /\ stop[s] = "interrupt"
    /\ stop' = [stop EXCEPT ![s] = "close"]
    /\ interrupted' = TRUE
    /\ UNCHANGED <<limited, mu, closed, wg, cut, listening, serve, got, backlog, connVars,
                   client, requestVars>>

CloseListener(s) ==
    /\ stop[s] = "close"
    /\ stop' = [stop EXCEPT ![s] = "wait"]
    /\ listening' = FALSE /\ backlog' = {}
    /\ client' = [c \in Conns |-> IF c \in backlog THEN "gone" ELSE client[c]]
    /\ UNCHANGED <<limited, mu, closed, wg, cut, interrupted, serve, got, connVars, requestVars>>

(* With a timeout: until the timer fires or wg is down.                    *)
Waited_Unlimited(s) ==
    /\ stop[s] = "wait"
    /\ stop' = [stop EXCEPT ![s] = "cut"]
    /\ UNCHANGED <<limited, mu, closed, wg, cut, socketVars, connVars, client, requestVars>>

Waited(s) ==
    /\ stop[s] = "wait" /\ limited
    /\ stop' = [stop EXCEPT ![s] = "cut"]
    /\ UNCHANGED <<limited, mu, closed, wg, cut, socketVars, connVars, client, requestVars>>

CloseStopChan(s) ==
    /\ stop[s] = "cut"
    /\ stop' = [stop EXCEPT ![s] = "drain"]
    /\ cut' = TRUE
    /\ UNCHANGED <<limited, mu, closed, wg, socketVars, connVars, client, requestVars>>

(* wg is down; stopChan is replaced and the lock given back.               *)
StopReturnsNow_AfterTimer(s) ==
    /\ stop[s] = "drain" \/ (stop[s] = "wait" /\ ~limited /\ wg = 0)
    /\ stop' = [stop EXCEPT ![s] = "returned"]
    /\ cut' = FALSE /\ mu' = Nobody
    /\ UNCHANGED <<limited, closed, wg, socketVars, connVars, client, requestVars>>

StopReturnsNow(s) ==
    /\ stop[s] = "drain" \/ (stop[s] = "wait" /\ ~limited)
    /\ wg = 0
    /\ stop' = [stop EXCEPT ![s] = "returned"]
    /\ cut' = FALSE /\ mu' = Nobody
    /\ UNCHANGED <<limited, closed, wg, socketVars, connVars, client, requestVars>>

Stop(s) ==
    \/ StopLocks(s) \/ SetInterrupted(s) \/ CloseListener(s)
    \/ Waited(s) \/ CloseStopChan(s) \/ StopReturnsNow(s)
------------------------------------------------------------------------------
Next ==
    \/ \E c \in Conns : Connect(c) \/ Send(c) \/ Leave(c)
    \/ Listen \/ AcceptReads \/ (\E c \in Conns : AcceptTakes(c)) \/ AcceptFails \/ HandOver
    \/ \E c \in Conns : Worker(c) \/ Watcher(c)
    \/ \E s \in Stoppers : CallStop(s) \/ Stop(s)

(* Goroutines run on, an Accept on a closed listener fails, handlers come  *)
(* to an end, and a lock that is free again and again is got.  Nothing is  *)
(* asked of clients, and nobody has to call Stop.                          *)
Fairness ==
    /\ WF_vars(Listen) /\ WF_vars(AcceptReads) /\ WF_vars(HandOver)
    /\ WF_vars(~listening /\ AcceptFails)
    /\ \A c \in Conns :
        /\ SF_vars(AcceptTakes(c))
        /\ WF_vars(Worker(c)) /\ WF_vars(Watcher(c))
    /\ \A s \in Stoppers : WF_vars(Stop(s))

Spec == Init /\ [][Next]_vars

FairSpec == Spec /\ Fairness
------------------------------------------------------------------------------
(* The connections that a goroutine of the server works for.               *)
Sessions == {c \in Conns : worker[c] \in WorkerRuns \/ watcher[c] = "waiting"}

Phase ==
    IF ~closed THEN "open"
    ELSE IF \E s \in Stoppers : stop[s] = "returned" THEN "stopped"
    ELSE "draining"

D == INSTANCE ThriftDrain WITH phase <- Phase, sessions <- Sessions

(* The server keeps the promise of ThriftDrain.  innerAccept adds to wg    *)
(* and Stop waits for it, in different goroutines.                         *)
Drains == D!DSpec

(* Once any call of Stop has returned, also one that found the server      *)
(* closed already, no goroutine works for a connection, and every          *)
(* connection that had one is closed.                                      *)
StopMeansStopped ==
    (\E s \in Stoppers : stop[s] = "returned") =>
        /\ Sessions = {}
        /\ \A c \in open : worker[c] = "none"

(* A request that was read is answered, unless its handler gave it up, the *)
(* client left, or a timeout cut the connection: Stop without a timeout    *)
(* takes no answer away from anybody.                                      *)
AnsweredUnlessCut ==
    \A c \in Conns :
        (c \in owed /\ worker[c] \notin {"handling", "answering"}) =>
            client[c] = "gone" \/ limited

(* With a timeout, every call of Stop returns, whatever the clients do.    *)
StopReturns ==
    (limited /\ \E s \in Stoppers : stop[s] # "idle")
        ~> (\A s \in Stoppers : stop[s] \in {"idle", "returned"})

(* Serve returns once a Stop has, whenever Stop was called: before Listen, *)
(* between the two reads of Accept, while a connection is handed over.     *)
ServeReturns == (\E s \in Stoppers : stop[s] = "returned") ~> (serve = "done")

(* The queue is emptied, however long the clients that were accepted       *)
(* before stay idle, as long as Serve runs.                                *)
NobodyWaitsForAnother == (backlog # {}) ~> (backlog = {} \/ serve = "done")
==============================================================================
