---------------------------- MODULE ServerProofs ----------------------------
(***************************************************************************)
(* Where the worker slots of the server are, for any number of workers,    *)
(* queue size and clients.                                                 *)
(***************************************************************************)
EXTENDS Server, TLAPS

\* The four invariants are inductive together: the zombie behind each signal
\* keeps the handler going, and the count of slots bounds the workers.
IInv == TypeOK /\ SlotsAccounted /\ AtMostMaxWorkers /\ HandlerFindsZombie /\ SlotRemains

USE DEF Count, Held

LEMMA InitIInv == Init => IInv
  <1> SUFFICES ASSUME Init PROVE IInv
    OBVIOUS
  <1>1. TypeOK
    BY ServerAssumption DEF Init, TypeOK
  <1>2. SlotsAccounted /\ AtMostMaxWorkers /\ SlotRemains
    BY ServerAssumption DEF Init, SlotsAccounted, AtMostMaxWorkers, SlotRemains
  <1>3. HandlerFindsZombie
    <2>1. sigchld = FALSE /\ handler = "idle" /\ zombies = 0
      BY DEF Init
    <2>2. Count(sigchld) = 0 /\ Count(handler = "wait") = 0
      BY <2>1
    <2> QED BY <2>1, <2>2 DEF HandlerFindsZombie
  <1> QED BY <1>1, <1>2, <1>3 DEF IInv

LEMMA StepIInv == IInv /\ [Next]_vars => IInv'
  <1> SUFFICES ASSUME IInv, [Next]_vars PROVE IInv'
    OBVIOUS
  <1> USE ServerAssumption
          DEF IInv, TypeOK, SlotsAccounted, AtMostMaxWorkers, HandlerFindsZombie, SlotRemains
  <1>1. CASE SemWait
    BY <1>1 DEF SemWait, Dispatch
  <1>2. CASE Accept
    BY <1>2 DEF Accept, Dispatch
  <1>3. CASE Fork
    BY <1>3 DEF Fork, Dispatch
  <1>4. CASE ForkFails
    BY <1>4 DEF ForkFails, Dispatch
  <1>5. CASE Deliver
    <2>1. /\ sigchld = TRUE /\ sigchld' = FALSE /\ handler = "idle" /\ handler' = "wait"
          /\ UNCHANGED <<dispatcher, semaf, queued, running, zombies, arrived, accepted, failed>>
      BY <1>5 DEF Deliver
    <2>2. /\ Count(sigchld) = 1 /\ Count(sigchld') = 0
          /\ Count(handler = "wait") = 0 /\ Count(handler' = "wait") = 1
          /\ Count(handler = "post") = 0 /\ Count(handler' = "post") = 0
          /\ Count(handler # "idle") = 0 /\ Count(handler' # "idle") = 1
      BY <2>1
    <2>3. TypeOK' /\ SlotsAccounted' /\ AtMostMaxWorkers'
      BY <2>1
    <2>4. HandlerFindsZombie'
      BY <2>1, <2>2
    <2>5. SlotRemains'
      BY <2>1, <2>2
    <2> QED BY <2>3, <2>4, <2>5
  <1>6. CASE Wait
    BY <1>6 DEF Wait
  <1>7. CASE SemPost
    BY <1>7 DEF SemPost
  <1>8. CASE WorkerEnds
    <2>1. CASE dispatcher = "stopped"
      BY <1>8, <2>1 DEF WorkerEnds
    <2>2. CASE dispatcher # "stopped"
      <3>1. /\ running > 0 /\ running' = running - 1 /\ zombies' = zombies + 1 /\ sigchld' = TRUE
            /\ UNCHANGED <<dispatcher, handler, semaf, queued, arrived, accepted, failed>>
        BY <1>8, <2>2 DEF WorkerEnds
      <3>2. Count(sigchld') = 1 /\ Count(sigchld) \in {0, 1}
        BY <3>1
      <3>3. TypeOK' /\ SlotsAccounted' /\ AtMostMaxWorkers'
        BY <3>1
      <3>4. HandlerFindsZombie'
        BY <3>1, <3>2
      <3>5. SlotRemains'
        BY <3>1, <3>2
      <3> QED BY <3>3, <3>4, <3>5
    <2> QED BY <2>1, <2>2
  <1>9. CASE Stop
    BY <1>9 DEF Stop
  <1>10. CASE Connect
    BY <1>10 DEF Connect
  <1>11. CASE UNCHANGED vars
    BY <1>11 DEF vars
  <1> QED BY <1>1, <1>2, <1>3, <1>4, <1>5, <1>6, <1>7, <1>8, <1>9, <1>10, <1>11
          DEF Next, Dispatcher, Handler

LEMMA Inductive == Spec => []IInv
  BY InitIInv, StepIInv, PTL DEF Spec

\* Every slot is free, held by the dispatcher, a worker, a zombie or the
\* handler, or was lost with a fork that failed.
THEOREM SlotsAreAccounted == Spec => []SlotsAccounted
  BY Inductive, PTL DEF IInv

\* The server attends at most MaxWorkers clients at a time, however signals,
\* forks and connections interleave.
THEOREM WorkersAreBounded == Spec => []AtMostMaxWorkers
  BY Inductive, PTL DEF IInv

\* The wait() of the handler always finds a worker that has ended, and so never
\* stops the dispatcher it interrupts.
THEOREM HandlerNeverBlocks == Spec => []HandlerFindsZombie
  BY Inductive, PTL DEF IInv

\* Signals that coalesce lose slots, but never the last one.
THEOREM LastSlotRemains == Spec => []SlotRemains
  BY Inductive, PTL DEF IInv
=============================================================================
