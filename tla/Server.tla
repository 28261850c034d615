------------------------------- MODULE Server -------------------------------
(***************************************************************************)
(* The analysis server of main.cc: a dispatcher that waits for a free      *)
(* worker slot (sem_wait), accepts a client and forks a worker to attend   *)
(* it, and the handler of SIGCHLD, which interrupts the dispatcher to reap *)
(* one ended worker (wait) and to give its slot back (sem_post).           *)
(* SIGCHLD is a pending bit, not a count: a worker that ends while it is   *)
(* set leaves no other trace than its zombie.  Workers are counted, since  *)
(* nothing tells them apart; what one does for its client is Session.      *)
(***************************************************************************)
EXTENDS Naturals

CONSTANTS MaxWorkers,      \* ServerMaxWorkers
          QueueSize,       \* ServerQueueSize, the clients the socket queue holds
          MaxClients,      \* bound: connections made in a behaviour
          MaxForkFailures  \* bound: forks that fail in a behaviour

ASSUME ServerAssumption == /\ MaxWorkers \in Nat \ {0} /\ QueueSize \in Nat
                           /\ MaxClients \in Nat /\ MaxForkFailures \in Nat

VARIABLES semaf,             \* value of the semaphore
          dispatcher,        \* where the dispatcher is in WaitClient
          handler,           \* where child_ended is, "idle" when it does not run
          sigchld,           \* is SIGCHLD pending?
          queued,            \* clients in the socket's queue
          running, zombies,  \* workers attending a client; ended and not waited for
          arrived, accepted, \* history: clients queued and accepted so far
          failed             \* history: forks that failed

vars == <<semaf, dispatcher, handler, sigchld, queued, running, zombies, arrived, accepted, failed>>

Init == /\ semaf = MaxWorkers /\ dispatcher = "sem_wait" /\ handler = "idle"
        /\ sigchld = FALSE /\ queued = 0 /\ running = 0 /\ zombies = 0
        /\ arrived = 0 /\ accepted = 0 /\ failed = 0

\* The dispatcher runs only while the handler does not interrupt it.
Dispatch(from, to) == handler = "idle" /\ dispatcher = from /\ dispatcher' = to

SemWait ==
  /\ Dispatch("sem_wait", "accept")
  /\ semaf > 0 /\ semaf' = semaf - 1
  /\ UNCHANGED <<handler, sigchld, queued, running, zombies, arrived, accepted, failed>>

Accept ==
  /\ Dispatch("accept", "fork")
  /\ queued > 0 /\ queued' = queued - 1
  /\ accepted' = accepted + 1
  /\ UNCHANGED <<semaf, handler, sigchld, running, zombies, arrived, failed>>

Fork ==
  /\ Dispatch("fork", "sem_wait")
  /\ running' = running + 1
  /\ UNCHANGED <<semaf, handler, sigchld, queued, zombies, arrived, accepted, failed>>

\* pid < 0 takes the parent's branch: the client's socket is closed, and the
\* slot it took is not given back.
ForkFails ==
  /\ Dispatch("fork", "sem_wait")
  /\ failed < MaxForkFailures /\ failed' = failed + 1
  /\ UNCHANGED <<semaf, handler, sigchld, queued, running, zombies, arrived, accepted>>

\* Fault: signals are let through only while a client is awaited.
WorkerEndsUnseen ==
  /\ running > 0 /\ running' = running - 1
  /\ IF dispatcher = "stopped" THEN UNCHANGED <<zombies, sigchld>>
     ELSE zombies' = zombies + 1 /\ sigchld' = (sigchld \/ dispatcher # "sem_wait")
  /\ UNCHANGED <<semaf, dispatcher, handler, queued, arrived, accepted, failed>>

\* A worker exits (CloseWorker, or an error): it becomes a zombie and SIGCHLD is set.
WorkerEnds ==
  /\ running > 0 /\ running' = running - 1
  /\ IF dispatcher = "stopped" THEN UNCHANGED <<zombies, sigchld>>
     ELSE zombies' = zombies + 1 /\ sigchld' = TRUE
  /\ UNCHANGED <<semaf, dispatcher, handler, queued, arrived, accepted, failed>>

\* Fault: the handler raises the signal again.
DeliverAgain ==
  /\ dispatcher # "stopped" /\ handler = "idle"
  /\ sigchld /\ handler' = "wait"
  /\ UNCHANGED <<semaf, dispatcher, sigchld, queued, running, zombies, arrived, accepted, failed>>

\* The signal is delivered, and blocked until its handler returns.
Deliver ==
  /\ dispatcher # "stopped" /\ handler = "idle"
  /\ sigchld /\ sigchld' = FALSE
  /\ handler' = "wait"
  /\ UNCHANGED <<semaf, dispatcher, queued, running, zombies, arrived, accepted, failed>>

\* Fault: the handler reaps all it finds, and posts once.
WaitForAll ==
  /\ dispatcher # "stopped" /\ handler = "wait"
  /\ zombies = 0 => running = 0
  /\ zombies' = 0
  /\ handler' = "post"
  /\ UNCHANGED <<semaf, dispatcher, sigchld, queued, running, arrived, accepted, failed>>

\* wait() reaps a zombie, blocks while all children run, and fails without any.
Wait ==
  /\ dispatcher # "stopped" /\ handler = "wait"
  /\ zombies = 0 => running = 0
  /\ zombies' = IF zombies > 0 THEN zombies - 1 ELSE 0
  /\ handler' = "post"
  /\ UNCHANGED <<semaf, dispatcher, sigchld, queued, running, arrived, accepted, failed>>

\* Fault: the handler reaps and does not post.
SemKeep ==
  /\ dispatcher # "stopped" /\ handler = "post" /\ handler' = "idle"
  /\ UNCHANGED <<semaf, dispatcher, sigchld, queued, running, zombies, arrived, accepted, failed>>

SemPost ==
  /\ dispatcher # "stopped" /\ handler = "post" /\ handler' = "idle"
  /\ semaf' = semaf + 1
  /\ UNCHANGED <<dispatcher, sigchld, queued, running, zombies, arrived, accepted, failed>>

\* SIGTERM or SIGQUIT, at any moment; or accept fails and the socket's error exits.
Stop ==
  /\ dispatcher # "stopped" /\ dispatcher' = "stopped"
  /\ UNCHANGED <<semaf, handler, sigchld, queued, running, zombies, arrived, accepted, failed>>

\* A client connects: the system queues it or refuses it.
Connect ==
  /\ dispatcher # "stopped"
  /\ arrived < MaxClients /\ arrived' = arrived + 1
  /\ queued < QueueSize /\ queued' = queued + 1
  /\ UNCHANGED <<semaf, dispatcher, handler, sigchld, running, zombies, accepted, failed>>

Dispatcher == SemWait \/ Accept \/ Fork \/ ForkFails
Handler    == Deliver \/ Wait \/ SemPost

Next == Dispatcher \/ Handler \/ WorkerEnds \/ Stop \/ Connect

\* The system runs the dispatcher and its handler, and each client ends its session.
Spec     == Init /\ [][Next]_vars
FairSpec == Spec /\ WF_vars(Dispatcher) /\ WF_vars(Handler) /\ WF_vars(WorkerEnds)

-----------------------------------------------------------------------------
TypeOK == /\ semaf \in Nat /\ queued \in Nat /\ running \in Nat /\ zombies \in Nat
          /\ arrived \in Nat /\ accepted \in Nat /\ failed \in Nat
          /\ dispatcher \in {"sem_wait", "accept", "fork", "stopped"}
          /\ handler \in {"idle", "wait", "post"} /\ sigchld \in BOOLEAN

Count(b) == IF b THEN 1 ELSE 0
Held == Count(dispatcher \in {"accept", "fork"})

\* Where the slots are: free, taken by the dispatcher, by a running worker, by
\* a zombie, about to be posted, or gone with a fork that failed.
SlotsAccounted == dispatcher # "stopped" =>
  semaf + Held + running + zombies + Count(handler = "post") + failed = MaxWorkers

\* The user manual: at most ServerMaxWorkers clients are attended at a time.
AtMostMaxWorkers == running <= MaxWorkers

\* The handler never blocks the dispatcher in wait(): each delivered or pending
\* signal has a zombie of its own.
HandlerFindsZombie == dispatcher # "stopped" =>
  zombies >= Count(sigchld) + Count(handler = "wait")

\* As long as forks succeed, some slot is free, in use or on its way back, so
\* that the dispatcher cannot wait for a slot for ever.
SlotRemains == (dispatcher # "stopped" /\ failed = 0) =>
  semaf + Held + running + Count(sigchld) + Count(handler # "idle") > 0

\* The user manual: requests that find all workers busy are queued until a
\* worker finishes.  While no fork fails, each queued client is accepted.
ClientsServed == \A n \in 1..MaxClients :
  (arrived >= n) ~> (accepted >= n \/ failed > 0 \/ dispatcher = "stopped")

\* The comment in InitServer: the handler is there "to keep count of active
\* workers".  When no signal is on its way, the slots not free are in use.
SemaphoreCountsWorkers ==
  (dispatcher # "stopped" /\ handler = "idle" /\ ~sigchld) => semaf + Held + running = MaxWorkers
=============================================================================
