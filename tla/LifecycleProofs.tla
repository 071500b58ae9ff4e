-------------------------- MODULE LifecycleProofs --------------------------
(***************************************************************************)
(* Proofs about Lifecycle: for any signals, any number of causes to end, any   *)
(* number of STUN attempts and of processes one after the other.             *)
(***************************************************************************)
EXTENDS Lifecycle, TLAPS

(* A process is on its way out only if it was told to end. *)
Told == main \in Stopping \cup {"shutdown"} \/ quit => causes >= 1

(* What a process that announced the gateway has sent last. *)
Word ==
    /\ announced => ~ssdp.muted /\ ssdp.pc \notin {"unborn", "open"}
    /\ announced /\ ssdp.pc \in {"linger", "done"} => notified = "byebye"

(* The responder has ended with the process, unless a second cause cut it. *)
Outlasted ==
    /\ main \in {"boot", "stun", "wait", "event", "ssdp"} => ssdp.pc = "unborn"
    /\ main = "exited" /\ causes <= 1 => SsdpOver

IInv == TypeOK /\ Told /\ Word /\ Outlasted

LEMMA InitSafe == Init => IInv
<1> SUFFICES ASSUME Init PROVE IInv
  OBVIOUS
<1>1. TypeOK
  <2>1. stun \in StunState
    BY StunAssumption DEF Init, StunState
  <2>2. ssdp \in SsdpState
    BY DEF Init, SsdpState
  <2>3. causes \in 0..MaxCauses
    BY SignalsAssumption DEF Init
  <2> QED BY <2>1, <2>2, <2>3 DEF Init, TypeOK
<1>2. Told /\ Word /\ Outlasted
  BY DEF Init, Told, Word, Outlasted, Stopping
<1> QED BY <1>1, <1>2 DEF IInv

(* The main thread's own steps. *)
LEMMA MainSafe == IInv /\ Main => IInv'
<1> SUFFICES ASSUME IInv, Main PROVE IInv'
  OBVIOUS
<1> USE SignalsAssumption, StunAssumption DEF IInv, TypeOK, Told, Word, Outlasted, network,
        Starting, Stopping, Over, SsdpOver
<1>1. CASE Boot \/ WaitEnds \/ StartDaemons
  BY <1>1 DEF Boot, WaitEnds, StartDaemons
<1>2. CASE StartStun
  <2>1. stun' \in StunState
    BY <1>2 DEF StartStun, StunState
  <2> QED BY <1>2, <2>1 DEF StartStun
<1>3. CASE MakeEvent
  BY <1>3 DEF MakeEvent
<1>4. CASE StartSsdp
  <2>1. ssdp' \in SsdpState /\ ssdp'.pc = "open" /\ ssdp'.muted = ssdp.muted
    BY <1>4 DEF StartSsdp, SsdpState
  <2>2. /\ UNCHANGED <<server, event, announced, notified, stun, ready, quit, causes, halted>>
        /\ main = "ssdp" /\ main' = "daemons"
    BY <1>4 DEF StartSsdp
  <2> QED BY <2>1, <2>2
<1>5. CASE WorkerQuits \/ StopCollector
  BY <1>5 DEF WorkerQuits, StopCollector
<1>6. CASE StopSet
  BY <1>6 DEF StopSet, Raised
<1>7. CASE Join \/ Exit
  BY <1>7 DEF Join, Exit, Outlived
<1> QED BY <1>1, <1>2, <1>3, <1>4, <1>5, <1>6, <1>7 DEF Main

(* What tells a process to end. *)
LEMMA CauseSafe == IInv /\ (ServerFails \/ Terminate \/ TerminateWorker \/ Interrupt) => IInv'
<1> SUFFICES ASSUME IInv, ServerFails \/ Terminate \/ TerminateWorker \/ Interrupt PROVE IInv'
  OBVIOUS
<1> USE SignalsAssumption DEF IInv, TypeOK, Told, Word, Outlasted, network,
        Starting, Stopping, Over, SsdpOver, AnotherCause
<1>1. CASE ServerFails
  BY <1>1 DEF ServerFails
<1>2. CASE TerminateWorker
  BY <1>2 DEF TerminateWorker, Sent, Running
<1>3. Running => /\ Thrown \in {"exited", "shutdown", "stop"}
                 /\ Thrown = "exited" => main \in {"boot", "shutdown"}
  BY DEF Thrown, Running
<1>4. CASE Terminate
  BY <1>3, <1>4 DEF Terminate, Sent, Raised, Running
<1>5. CASE Interrupt
  BY <1>3, <1>5 DEF Interrupt, Sent, Running
<1> QED BY <1>1, <1>2, <1>4, <1>5

LEMMA NextSafe == IInv /\ [Next]_vars => IInv'
<1> SUFFICES ASSUME IInv, [Next]_vars PROVE IInv'
  OBVIOUS
<1> USE SignalsAssumption, StunAssumption DEF IInv, TypeOK, Told, Word, Outlasted, network,
        Starting, Stopping, Over, SsdpOver, Running
<1>1. CASE Kill
  BY <1>1 DEF Kill
<1>2. CASE Respawn
  <2>1. stun' \in StunState
    BY <1>2 DEF Respawn, StunState
  <2>2. ssdp' \in SsdpState /\ ssdp'.pc = "unborn"
    BY <1>2 DEF Respawn, SsdpState
  <2>3. /\ UNCHANGED <<server, notified, halted>> /\ main' = "boot" /\ event' = "none"
        /\ quit' = FALSE /\ causes' = 0 /\ announced' = FALSE /\ ready' = FALSE
    BY <1>2 DEF Respawn
  <2>4. TypeOK'
    <3>1. causes' \in 0..MaxCauses
      BY <2>3
    <3>2. announced' \in BOOLEAN /\ quit' \in BOOLEAN /\ ready' \in BOOLEAN
      BY <2>3, Zenon
    <3>3. /\ server' \in Servers /\ main' = "boot" /\ event' \in {"none", "clear", "set"}
          /\ notified' \in {"none", "alive", "byebye"} /\ halted' \in BOOLEAN
      BY <2>3, Zenon
    <3> QED BY <2>1, <2>2, <3>1, <3>2, <3>3, Zenon
  <2>5. Told' /\ Word' /\ Outlasted'
    BY <2>2, <2>3
  <2> QED BY <2>4, <2>5
<1>3. CASE SsdpOpen
  BY <1>3 DEF SsdpOpen, SsdpState
<1>4. CASE SsdpCheck
  BY <1>4 DEF SsdpCheck, SsdpState
<1>5. CASE SsdpPoll
  BY <1>5 DEF SsdpPoll, SsdpState
<1>6. CASE SsdpByebye
  BY <1>6 DEF SsdpByebye, SsdpState
<1>7. CASE SsdpClose
  BY <1>7 DEF SsdpClose, SsdpState
<1>8. CASE StunAnswers \/ StunRefresh
  BY <1>8 DEF StunAnswers, StunRefresh, StunState
<1>9. CASE StunFails
  <2>1. stun' \in StunState
    <3>1. stun \in StunState /\ stun.attempt \in 0..(Retries - 1)
      BY DEF StunState
    <3>2. stun.attempt # Retries - 1 => stun.attempt + 1 \in 0..(Retries - 1)
      BY <3>1
    <3>3. 0 \in 0..(Retries - 1)
      OBVIOUS
    <3> QED BY <1>9, <3>1, <3>2, <3>3 DEF StunFails, LastAttempt, StunState
  <2> QED BY <1>9, <2>1 DEF StunFails
<1>10. CASE UNCHANGED vars
  BY <1>10 DEF vars
<1> QED
  BY <1>1, <1>2, <1>3, <1>4, <1>5, <1>6, <1>7, <1>8, <1>9, <1>10, MainSafe, CauseSafe
     DEF Next, Responder

LEMMA Inductive == Spec => []IInv
BY InitSafe, NextSafe, PTL DEF Spec

(* The threads, the signals and the STUN attempts stay where the code has them. *)
THEOREM TypeCorrect == Spec => []TypeOK
<1>1. IInv => TypeOK
  BY DEF IInv
<1> QED BY <1>1, Inductive, PTL

(* The byebye is not cut short, whatever the one cause of the end and its       *)
(* moment, and whatever became of the processes before.                      *)
THEOREM ByebyeIsLast == Spec => []ByebyeLast
<1>1. IInv => ByebyeLast
  BY DEF IInv, Word, Outlasted, SsdpOver, ByebyeLast
<1> QED BY <1>1, Inductive, PTL

=============================================================================
