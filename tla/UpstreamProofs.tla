--------------------------- MODULE UpstreamProofs ---------------------------
(***************************************************************************)
(* Proofs about UpstreamSync: type correctness, and that nothing returns to  *)
(* the upstream IGD that GOST has not had for as long as Window, the two      *)
(* races of get_services, failed reads and writes, writes served late and     *)
(* restarts included.                                                       *)
(***************************************************************************)
EXTENDS UpstreamSync, TLAPS

(* The numbers that bound the ages.                                          *)
LEMMA Bounds ==
    /\ Window \in Nat /\ Window = (TTL - 1 + 2 * MaxCall + MaxRound) + 1
    /\ TTL \in Nat /\ TTL >= 1 /\ Interval \in Nat /\ MaxCall \in Nat /\ MaxRound \in Nat
    /\ 2 * MaxCall \in Nat /\ TTL - 1 + 2 * MaxCall \in Nat
    /\ Interval + MaxRound \in Nat
BY TimesAssumption DEF Window

(* The fields of a thread.                                                   *)
LEMMA ThreadTyped ==
    ASSUME TypeOK, NEW t \in Threads
    PROVE  /\ thread[t] \in Locals
           /\ thread[t].call \in Nat /\ thread[t].call <= MaxCall
           /\ thread[t].since \in Nat
           /\ thread[t].port \in Ports \cup {None}
           /\ thread[t].got \in {None} \cup List
           /\ thread[t].todo \subseteq Ports \cup Others
<1>1. thread[t] \in Locals
  BY DEF TypeOK
<1> QED BY <1>1, Bounds DEF Locals

LEMMA RestTyped == Rest \in Locals
<1>1. 0 \in 0..MaxCall /\ 0 \in 0..(Interval + MaxRound)
  BY Bounds
<1> QED BY <1>1 DEF Rest, Locals

LEMMA CleanupThread == Cleanup \in Threads
BY DEF Threads

(* A step of a thread changes its own place only.                            *)
LEMMA GotoTyped ==
    ASSUME TypeOK, NEW t \in Threads, NEW L \in Locals, Goto(t, L)
    PROVE  thread' \in [Threads -> Locals]
BY DEF Goto, TypeOK

(* A write of GOST's services keeps the types.                               *)
LEMMA BecomesTyped ==
    ASSUME TypeOK, NEW S \in List, Becomes(S)
    PROVE  store' \in List /\ gone' \in [Ports -> 0..Window]
<1>1. 0 \in 0..Window
  BY Bounds
<1> QED BY <1>1 DEF Becomes, TypeOK

(* Whatever the cache is, a reader that it is handed to goes on well typed.    *)
LEMMA DeliverTyped ==
    ASSUME TypeOK, NEW t \in Threads, NEW X \in {None} \cup List, Deliver(t, X)
    PROVE  thread' \in [Threads -> Locals]
<1> DEFINE L == thread[t]
<1>1. L \in Locals /\ 0 \in 0..MaxCall
  BY ThreadTyped, Bounds
<1>2. CASE Goto(t, Rest)
  BY <1>2, RestTyped, GotoTyped
<1>3. CASE HandToRequest(t, X) /\ ~Goto(t, Rest)
  <2> PICK job \in {"add", "delete"}, p \in Ports :
           Goto(t, [L EXCEPT !.pc = "write", !.job = job, !.port = p, !.call = 0])
    BY <1>3 DEF HandToRequest
  <2>1. [L EXCEPT !.pc = "write", !.job = job, !.port = p, !.call = 0] \in Locals
    BY <1>1 DEF Locals
  <2> QED BY <2>1, GotoTyped
<1>4. CASE HandToExpire(t, X)
  <2>1. CASE X = None /\ Goto(t, [Rest EXCEPT !.pc = "dead"])
    <3>1. [Rest EXCEPT !.pc = "dead"] \in Locals
      BY RestTyped DEF Locals
    <3> QED BY <2>1, <3>1, GotoTyped
  <2>2. CASE X # None
    <3> PICK over \in SUBSET X : Goto(t, [L EXCEPT !.pc = "loop", !.todo = over, !.call = 0])
      BY <1>4, <2>2 DEF HandToExpire
    <3>1. over \in SUBSET (Ports \cup Others)
      BY <2>2 DEF List
    <3>2. [L EXCEPT !.pc = "loop", !.todo = over, !.call = 0] \in Locals
      BY <1>1, <3>1 DEF Locals
    <3> QED BY <3>2, GotoTyped
  <2> QED BY <1>4, <2>1, <2>2 DEF HandToExpire
<1>5. CASE HandToReconcile(t, X) /\ ~Goto(t, Rest)
  <2>1. X # None
    BY <1>5 DEF HandToReconcile
  <2> PICK others \in SUBSET Others :
           Goto(t, [L EXCEPT !.pc = "beat", !.todo = X \cup others, !.call = 0])
    BY <1>5, <2>1 DEF HandToReconcile
  <2>2. X \cup others \in SUBSET (Ports \cup Others)
    BY <2>1 DEF List
  <2>3. [L EXCEPT !.pc = "beat", !.todo = X \cup others, !.call = 0] \in Locals
    BY <1>1, <2>2 DEF Locals
  <2> QED BY <2>3, GotoTyped
<1> QED BY <1>2, <1>3, <1>4, <1>5 DEF Deliver

(* get_services is called: the cache is kept or emptied.                     *)
LEMMA CallTyped ==
    ASSUME TypeOK, NEW t \in Threads, NEW L \in Locals, CallList(t, L)
    PROVE  cache' \in {None} \cup List /\ thread' \in [Threads -> Locals]
<1>1. cache' \in {None} \cup List
  BY DEF CallList, TypeOK
<1>2. [L EXCEPT !.pc = IF Fresh THEN "hit" ELSE "get", !.call = 0] \in Locals
  <2>1. (IF Fresh THEN "hit" ELSE "get") \in {"hit", "get"} /\ 0 \in 0..MaxCall
    BY Bounds
  <2> QED BY <2>1 DEF Locals
<1>3. Goto(t, [L EXCEPT !.pc = IF Fresh THEN "hit" ELSE "get", !.call = 0])
  BY DEF CallList
<1>4. thread' \in [Threads -> Locals]
  BY <1>2, <1>3, GotoTyped
<1> QED BY <1>1, <1>4

(* What stands in GOST after a thread's write.                               *)
LEMMA AfterWriteTyped ==
    ASSUME TypeOK, ForwardRecent, NEW t \in Threads
    PROVE  AfterWrite(thread[t]) \in List
<1>1. thread[t].job \in {"add", "webadd"} => thread[t].port \in Ports
  BY ThreadTyped DEF ForwardRecent, WriterKnows
<1>2. store \in List
  BY DEF TypeOK
<1> QED BY <1>1, <1>2 DEF AfterWrite, List

(* The initial states are well typed.                                        *)
LEMMA InitTyped == Init => TypeOK
<1> SUFFICES ASSUME Init PROVE TypeOK
  OBVIOUS
<1>1. /\ Interval \in 0..(Interval + MaxRound) /\ Window \in 0..Window /\ 0 \in 0..Window
      /\ TTL \in 0..TTL
  BY Bounds
<1>2. [Rest EXCEPT !.since = Interval] \in Locals
  BY <1>1, RestTyped DEF Locals
<1>3. thread \in [Threads -> Locals]
  BY <1>2, RestTyped DEF Init
<1>4. gone \in [Ports -> 0..Window]
  BY <1>1 DEF Init
<1> QED BY <1>1, <1>3, <1>4 DEF Init, TypeOK

(* A second passes.                                                          *)
LEMMA TickTyped ==
    ASSUME TypeOK, Tick
    PROVE  TypeOK'
<1>1. stamp' \in 0..TTL
  BY Bounds DEF Tick, Later, TypeOK
<1>2. ASSUME NEW t \in Threads PROVE LaterIn(thread[t], t) \in Locals
  <2> DEFINE L == thread[t]
  <2>1. L \in Locals /\ L.call \in 0..MaxCall /\ L.since \in 0..(Interval + MaxRound)
    BY ThreadTyped DEF Locals
  <2>2. /\ InCall(L) => L.call < MaxCall
        /\ ~Resting(L) => L.since < MaxRound
    BY DEF Tick
  <2>3. (IF InCall(L) THEN L.call + 1 ELSE L.call) \in 0..MaxCall
    BY <2>1, <2>2, Bounds
  <2>4. (IF ~Resting(L) THEN L.since + 1
         ELSE IF t = Cleanup /\ L.pc = "idle" /\ L.since < Interval THEN L.since + 1
         ELSE L.since) \in 0..(Interval + MaxRound)
    BY <2>1, <2>2, Bounds
  <2> QED BY <2>1, <2>3, <2>4 DEF LaterIn, Locals
<1>3. thread' \in [Threads -> Locals]
  BY <1>2 DEF Tick
<1>4. gone' \in [Ports -> 0..Window]
  <2>1. \A p \in Ports : 0 \in 0..Window /\ Later(gone[p], Window) \in 0..Window
    BY Bounds DEF Later, TypeOK
  <2> QED BY <2>1 DEF Tick
<1> QED BY <1>1, <1>3, <1>4 DEF Tick, TypeOK

(* Every step keeps the types.                                               *)
LEMMA StepTyped == TypeOK /\ ForwardRecent /\ [Next]_vars => TypeOK'
<1> SUFFICES ASSUME TypeOK, ForwardRecent, [Next]_vars PROVE TypeOK'
  OBVIOUS
<1>0. Cleanup \in Threads /\ thread[Cleanup] \in Locals /\ 0 \in 0..MaxCall
  BY CleanupThread, ThreadTyped, Bounds
<1>1. ASSUME NEW t \in Threads, ReceiveRequest(t) PROVE TypeOK'
  <2>1. [Rest EXCEPT !.job = "read"] \in Locals
    BY RestTyped DEF Locals
  <2>2. cache' \in {None} \cup List /\ thread' \in [Threads -> Locals]
    BY <1>1, <2>1, CallTyped DEF ReceiveRequest
  <2> QED BY <1>1, <2>2 DEF ReceiveRequest, TypeOK
<1>2. ASSUME NEW t \in Threads, WebWrite(t) PROVE TypeOK'
  <2> PICK job \in {"webadd", "webdelete"}, p \in Ports :
           Goto(t, [Rest EXCEPT !.pc = "write", !.job = job, !.port = p])
    BY <1>2 DEF WebWrite
  <2>1. [Rest EXCEPT !.pc = "write", !.job = job, !.port = p] \in Locals
    BY RestTyped DEF Locals
  <2>2. thread' \in [Threads -> Locals]
    BY <2>1, GotoTyped
  <2> QED BY <1>2, <2>2 DEF WebWrite, TypeOK
<1>3. ASSUME NEW t \in Threads, ServeGet(t) PROVE TypeOK'
  <2>1. [thread[t] EXCEPT !.pc = "fill", !.got = store] \in Locals
    BY ThreadTyped DEF Locals, TypeOK
  <2>2. thread' \in [Threads -> Locals]
    BY <1>3, <2>1, GotoTyped DEF ServeGet
  <2> QED BY <1>3, <2>2 DEF ServeGet, TypeOK
<1>4. ASSUME NEW t \in Threads, FailGet(t) PROVE TypeOK'
  <2>1. {} \in {None} \cup List
    BY DEF List
  <2>2. thread' \in [Threads -> Locals]
    BY <1>4, <2>1, DeliverTyped DEF FailGet
  <2> QED BY <1>4, <2>2 DEF FailGet, TypeOK
<1>5. ASSUME NEW t \in Threads, Fill(t) PROVE TypeOK'
  <2>1. [thread[t] EXCEPT !.pc = "stamp", !.got = None] \in Locals
    BY ThreadTyped DEF Locals
  <2>2. thread' \in [Threads -> Locals]
    BY <1>5, <2>1, GotoTyped DEF Fill
  <2>3. cache' \in {None} \cup List
    BY <1>5, ThreadTyped DEF Fill
  <2> QED BY <1>5, <2>2, <2>3 DEF Fill, TypeOK
<1>6. ASSUME NEW t \in Threads, Stamp(t) PROVE TypeOK'
  <2>1. [thread[t] EXCEPT !.pc = "reread"] \in Locals
    BY ThreadTyped DEF Locals
  <2>2. thread' \in [Threads -> Locals]
    BY <1>6, <2>1, GotoTyped DEF Stamp
  <2>3. stamp' \in 0..TTL
    BY <1>6, Bounds DEF Stamp
  <2> QED BY <1>6, <2>2, <2>3 DEF Stamp, TypeOK
<1>7. ASSUME NEW t \in Threads, Return(t) PROVE TypeOK'
  <2>1. cache \in {None} \cup List
    BY DEF TypeOK
  <2>2. thread' \in [Threads -> Locals]
    BY <1>7, <2>1, DeliverTyped DEF Return
  <2> QED BY <1>7, <2>2 DEF Return, TypeOK
<1>8. ASSUME NEW t \in Threads, WriteDone(t) PROVE TypeOK'
  <2>1. store' \in List /\ gone' \in [Ports -> 0..Window]
    BY <1>8, AfterWriteTyped, BecomesTyped DEF WriteDone
  <2>2. [thread[t] EXCEPT !.pc = "clear"] \in Locals
    BY ThreadTyped DEF Locals
  <2>3. thread' \in [Threads -> Locals]
    BY <1>8, <2>2, GotoTyped DEF WriteDone
  <2> QED BY <1>8, <2>1, <2>3 DEF WriteDone, TypeOK
<1>9. ASSUME NEW t \in Threads, WriteFails(t) PROVE TypeOK'
  <2>1. store \in List
    BY DEF TypeOK
  <2>2. store' \in List /\ gone' \in [Ports -> 0..Window]
    BY <1>9, <2>1, AfterWriteTyped, BecomesTyped DEF WriteFails
  <2>3. [thread[t] EXCEPT !.pc = "clear"] \in Locals
    BY ThreadTyped DEF Locals
  <2>4. thread' \in [Threads -> Locals]
    BY <1>9, <2>3, RestTyped, GotoTyped DEF WriteFails
  <2> QED BY <1>9, <2>2, <2>4 DEF WriteFails, TypeOK
<1>10. ASSUME NEW t \in Threads, Clear(t) PROVE TypeOK'
  <2>1. [thread[t] EXCEPT !.pc = "clearTs"] \in Locals
    BY ThreadTyped DEF Locals
  <2>2. thread' \in [Threads -> Locals]
    BY <1>10, <2>1, GotoTyped DEF Clear
  <2> QED BY <1>10, <2>2 DEF Clear, TypeOK
<1>11. ASSUME NEW t \in Threads, ClearTs(t) PROVE TypeOK'
  <2>1. AfterClearing(thread[t]) \in Locals
    BY ThreadTyped, RestTyped DEF AfterClearing, Locals
  <2>2. thread' \in [Threads -> Locals]
    BY <1>11, <2>1, GotoTyped DEF ClearTs
  <2>3. stamp' \in 0..TTL
    BY <1>11, Bounds DEF ClearTs
  <2> QED BY <1>11, <2>2, <2>3 DEF ClearTs, TypeOK
<1>12. ASSUME NEW t \in Threads, SoapEnsure(t) PROVE TypeOK'
  <2>1. [thread[t] EXCEPT !.pc = "forward"] \in Locals
    BY ThreadTyped DEF Locals
  <2>2. thread' \in [Threads -> Locals]
    BY <1>12, <2>1, RestTyped, GotoTyped DEF SoapEnsure
  <2> QED BY <1>12, <2>2 DEF SoapEnsure, TypeOK
<1>13. ASSUME NEW t \in Threads, SoapForward(t) PROVE TypeOK'
  <2>1. thread' \in [Threads -> Locals]
    BY <1>13, RestTyped, GotoTyped DEF SoapForward
  <2>2. thread[t].job = "add" => thread[t].port \in Ports
    BY ThreadTyped DEF ForwardRecent, WriterKnows
  <2>3. up' \in List
    BY <1>13, <2>2 DEF SoapForward, TypeOK, List
  <2> QED BY <1>13, <2>1, <2>3 DEF SoapForward, TypeOK
<1>14. CASE Wake
  <2>1. [Rest EXCEPT !.job = "expire"] \in Locals
    BY RestTyped DEF Locals
  <2>2. cache' \in {None} \cup List /\ thread' \in [Threads -> Locals]
    BY <1>0, <1>14, <2>1, CallTyped DEF Wake
  <2> QED BY <1>14, <2>2 DEF Wake, TypeOK
<1>15. CASE DeleteExpired
  <2> PICK p \in thread[Cleanup].todo :
           /\ Becomes(store \ {p})
           /\ Goto(Cleanup, [thread[Cleanup] EXCEPT !.pc = "clear", !.todo = @ \ {p}])
    BY <1>15 DEF DeleteExpired
  <2>1. store \ {p} \in List
    BY DEF TypeOK, List
  <2>2. store' \in List /\ gone' \in [Ports -> 0..Window]
    BY <2>1, BecomesTyped
  <2>3. [thread[Cleanup] EXCEPT !.pc = "clear", !.todo = @ \ {p}] \in Locals
    BY <1>0 DEF Locals
  <2>4. thread' \in [Threads -> Locals]
    BY <1>0, <2>3, GotoTyped
  <2> QED BY <1>15, <2>2, <2>4 DEF DeleteExpired, TypeOK
<1>16. CASE DeletionFails
  <2> PICK p \in thread[Cleanup].todo :
           /\ Becomes(store) \/ Becomes(store \ {p})
           /\ Goto(Cleanup, [thread[Cleanup] EXCEPT !.todo = @ \ {p}])
    BY <1>16 DEF DeletionFails
  <2>1. store \in List /\ store \ {p} \in List
    BY DEF TypeOK, List
  <2>2. store' \in List /\ gone' \in [Ports -> 0..Window]
    BY <2>1, BecomesTyped
  <2>3. [thread[Cleanup] EXCEPT !.todo = @ \ {p}] \in Locals
    BY <1>0 DEF Locals
  <2>4. thread' \in [Threads -> Locals]
    BY <1>0, <2>3, GotoTyped
  <2> QED BY <1>16, <2>2, <2>4 DEF DeletionFails, TypeOK
<1>17. CASE ListMappings
  <2>1. [thread[Cleanup] EXCEPT !.job = "reconcile"] \in Locals
    BY <1>0 DEF Locals
  <2>2. cache' \in {None} \cup List /\ thread' \in [Threads -> Locals]
    BY <1>0, <1>17, <2>1, CallTyped DEF ListMappings
  <2> QED BY <1>17, <2>2 DEF ListMappings, TypeOK
<1>18. ASSUME StartQueries PROVE thread' \in [Threads -> Locals]
  <2>1. [thread[Cleanup] EXCEPT !.pc = "query"] \in Locals
    BY <1>0 DEF Locals
  <2> QED BY <1>0, <1>18, <2>1, GotoTyped DEF StartQueries
<1>19. ASSUME EndRound PROVE thread' \in [Threads -> Locals]
  BY <1>0, <1>19, RestTyped, GotoTyped DEF EndRound
<1>20. ASSUME NextMapping PROVE thread' \in [Threads -> Locals]
  <2>1. [thread[Cleanup] EXCEPT !.pc = "query", !.todo = @ \ {Asked}] \in Locals
    BY <1>0 DEF Locals
  <2> QED BY <1>0, <1>20, <2>1, GotoTyped DEF NextMapping
<1>21. CASE HeartbeatOk
  BY <1>18, <1>21 DEF HeartbeatOk, TypeOK
<1>22. CASE HeartbeatLost
  <2>1. [thread[Cleanup] EXCEPT !.pc = "connect"] \in Locals
    BY <1>0 DEF Locals
  <2>2. thread' \in [Threads -> Locals]
    BY <1>0, <1>22, <2>1, GotoTyped DEF HeartbeatLost
  <2> QED BY <1>22, <2>2 DEF HeartbeatLost, TypeOK
<1>23. CASE ConnectOk
  BY <1>18, <1>23 DEF ConnectOk, TypeOK
<1>24. CASE ConnectFails
  BY <1>19, <1>24 DEF ConnectFails, TypeOK
<1>25. CASE QueryOk
  <2>1. [thread[Cleanup] EXCEPT !.pc = "restore"] \in Locals
    BY <1>0 DEF Locals
  <2>2. thread' \in [Threads -> Locals]
    BY <1>0, <1>20, <1>25, <2>1, GotoTyped DEF QueryOk
  <2> QED BY <1>25, <2>2 DEF QueryOk, TypeOK
<1>26. CASE QueryFails
  BY <1>20, <1>26 DEF QueryFails, TypeOK
<1>27. CASE RestoreOk
  BY <1>20, <1>27 DEF RestoreOk, TypeOK, List
<1>28. CASE RestoreFails
  BY <1>20, <1>28 DEF RestoreFails, TypeOK
<1>29. CASE EndQueries
  BY <1>19, <1>29 DEF EndQueries, TypeOK
<1>30. CASE IgdExpires
  BY <1>30 DEF IgdExpires, TypeOK, List
<1>31. CASE IgdRestart
  BY <1>31 DEF IgdRestart, TypeOK, List
<1>32. CASE GostRestart
  <2>1. store' \in List /\ gone' \in [Ports -> 0..Window]
    BY <1>32, BecomesTyped DEF GostRestart, List
  <2> QED BY <1>32, <2>1 DEF GostRestart, TypeOK
<1>33. CASE LateWrite
  <2> PICK p \in Ports : Becomes(store \cup {p}) \/ Becomes(store \ {p})
    BY <1>33 DEF LateWrite
  <2>1. store \cup {p} \in List /\ store \ {p} \in List
    BY DEF TypeOK, List
  <2>2. store' \in List /\ gone' \in [Ports -> 0..Window]
    BY <2>1, BecomesTyped
  <2> QED BY <1>33, <2>2 DEF LateWrite, TypeOK
<1>34. CASE Tick
  BY <1>34, TickTyped
<1>35. CASE UNCHANGED vars
  BY <1>35 DEF vars, TypeOK
<1> QED
  BY <1>1, <1>2, <1>3, <1>4, <1>5, <1>6, <1>7, <1>8, <1>9, <1>10, <1>11, <1>12, <1>13,
     <1>14, <1>15, <1>16, <1>17, <1>21, <1>22, <1>23, <1>24, <1>25, <1>26, <1>27, <1>28,
     <1>29, <1>30, <1>31, <1>32, <1>33, <1>34, <1>35 DEF Next, Step, Round

-----------------------------------------------------------------------------
(* The shapes of a step, which the other parts of the invariant are proved by. *)
(* GOST's services are left alone, or become others; time leaves them alone.   *)
LEMMA WriteShape ==
    [Next]_vars => \/ Tick
                   \/ store' = store /\ gone' = gone
                   \/ \E S : Becomes(S)
<1> SUFFICES ASSUME [Next]_vars
             PROVE  Tick \/ (store' = store /\ gone' = gone) \/ \E S : Becomes(S)
  OBVIOUS
<1>1. ASSUME NEW t \in Threads
      PROVE  \/ ReceiveRequest(t) \/ WebWrite(t) \/ ServeGet(t) \/ FailGet(t) \/ Fill(t)
             \/ Stamp(t) \/ Return(t) \/ Clear(t) \/ ClearTs(t) \/ SoapEnsure(t) \/ SoapForward(t)
             => store' = store /\ gone' = gone
  BY DEF ReceiveRequest, WebWrite, ServeGet, FailGet, Fill, Stamp, Return, Clear, ClearTs,
         SoapEnsure, SoapForward
<1>2. ASSUME NEW t \in Threads
      PROVE  WriteDone(t) \/ WriteFails(t) => \E S : Becomes(S)
  BY DEF WriteDone, WriteFails
<1>3. DeleteExpired \/ DeletionFails \/ GostRestart \/ LateWrite => \E S : Becomes(S)
  BY DEF DeleteExpired, DeletionFails, GostRestart, LateWrite
<1>4. \/ Wake \/ ListMappings \/ HeartbeatOk \/ HeartbeatLost \/ ConnectOk \/ ConnectFails
      \/ QueryOk \/ QueryFails \/ RestoreOk \/ RestoreFails \/ EndQueries
      \/ IgdExpires \/ IgdRestart \/ UNCHANGED vars
      => store' = store /\ gone' = gone
  BY DEF Wake, ListMappings, HeartbeatOk, HeartbeatLost, ConnectOk, ConnectFails, QueryOk,
         QueryFails, RestoreOk, RestoreFails, EndQueries, IgdExpires, IgdRestart, vars
<1> QED BY <1>1, <1>2, <1>3, <1>4 DEF Next, Step, Round

(* But for time, what was known of a set of ports stays as it was.             *)
LEMMA Kept ==
    ASSUME TypeOK, [Next]_vars, ~Tick, NEW P \in List, NEW s \in Nat, KnownSince(P, s)
    PROVE  \A p \in P : p \notin store' => gone'[p] <= s
<1> SUFFICES ASSUME NEW p \in P, p \notin store' PROVE gone'[p] <= s
  OBVIOUS
<1>1. p \in Ports /\ (p \notin store => gone[p] <= s)
  BY DEF List, KnownSince
<1>2. CASE store' = store /\ gone' = gone
  BY <1>1, <1>2
<1>3. ASSUME NEW S, Becomes(S) PROVE gone'[p] <= s
  <2>1. gone'[p] = IF p \in store \cup S THEN 0 ELSE gone[p]
    BY <1>1, <1>3 DEF Becomes
  <2> QED BY <1>1, <2>1
<1> QED BY <1>2, <1>3, WriteShape

(* In a second, it becomes a second older.                                   *)
LEMMA Aged ==
    ASSUME TypeOK, Tick, NEW P \in List, NEW s \in Nat, KnownSince(P, s)
    PROVE  \A p \in P : p \notin store' => gone'[p] <= s + 1
<1> SUFFICES ASSUME NEW p \in P, p \notin store' PROVE gone'[p] <= s + 1
  OBVIOUS
<1>1. p \in Ports /\ store' = store
  BY DEF List, Tick
<1>2. gone[p] <= s /\ gone[p] \in Nat /\ Window \in Nat
  BY <1>1, Bounds DEF KnownSince, TypeOK
<1>3. gone'[p] = Later(gone[p], Window)
  BY <1>1 DEF Tick
<1> QED BY <1>2, <1>3 DEF Later

(* What is known is known for any longer time.                               *)
LEMMA Longer ==
    ASSUME TypeOK, NEW P \in List, NEW r \in Int, NEW s \in Int, r <= s, KnownSince(P, r)
    PROVE  KnownSince(P, s)
<1>1. \A p \in P : gone[p] \in Int
  BY Bounds DEF TypeOK, List
<1> QED BY <1>1 DEF KnownSince

(* A thread is moved by time or by an action of its own.                     *)
LEMMA Movers ==
    ASSUME TypeOK, [Next]_vars, ~Tick, NEW u \in Threads, thread'[u] # thread[u]
    PROVE  \/ ReceiveRequest(u) \/ WebWrite(u) \/ Step(u)
           \/ u = Cleanup /\ Round
<1>1. ASSUME NEW t \in Threads, NEW L, Goto(t, L) PROVE u = t
  BY <1>1 DEF Goto, TypeOK
<1>2. ASSUME NEW t \in Threads, NEW X, Deliver(t, X) PROVE \E L : Goto(t, L)
  BY <1>2 DEF Deliver, HandToRequest, HandToExpire, HandToReconcile
<1>3. ASSUME NEW t \in Threads, ReceiveRequest(t) \/ WebWrite(t) PROVE u = t
  <2>1. \E L : Goto(t, L)
    BY <1>3 DEF ReceiveRequest, WebWrite, CallList
  <2> QED BY <1>1, <2>1
<1>4. ASSUME NEW t \in Threads, FailGet(t) \/ Return(t) PROVE u = t
  BY <1>1, <1>2, <1>4 DEF FailGet, Return
<1>5. ASSUME NEW t \in Threads, Step(t), ~FailGet(t), ~Return(t) PROVE u = t
  <2>1. \E L : Goto(t, L)
    BY <1>5 DEF Step, ServeGet, Fill, Stamp, WriteDone, WriteFails, Clear, ClearTs,
                SoapEnsure, SoapForward
  <2> QED BY <1>1, <2>1
<1>6. ASSUME Round PROVE u = Cleanup
  <2>1. Wake \/ DeleteExpired \/ DeletionFails \/ ListMappings => \E L : Goto(Cleanup, L)
    BY DEF Wake, DeleteExpired, DeletionFails, ListMappings, CallList
  <2>2. HeartbeatOk \/ HeartbeatLost \/ ConnectOk \/ ConnectFails \/ EndQueries
        => \E L : Goto(Cleanup, L)
    BY DEF HeartbeatOk, HeartbeatLost, ConnectOk, ConnectFails, EndQueries,
           StartQueries, EndRound
  <2>3. QueryOk \/ QueryFails \/ RestoreOk \/ RestoreFails => \E L : Goto(Cleanup, L)
    BY DEF QueryOk, QueryFails, RestoreOk, RestoreFails, NextMapping
  <2> QED BY <1>1, <1>6, <2>1, <2>2, <2>3, CleanupThread DEF Round
<1>7. IgdExpires \/ IgdRestart \/ GostRestart \/ LateWrite \/ UNCHANGED vars
      => thread' = thread
  BY DEF IgdExpires, IgdRestart, GostRestart, LateWrite, vars
<1> QED BY <1>3, <1>4, <1>5, <1>6, <1>7 DEF Next

(* Where a thread goes, it is.                                               *)
LEMMA Arrives ==
    ASSUME TypeOK, NEW t \in Threads, NEW L, Goto(t, L)
    PROVE  thread'[t] = L
BY DEF Goto, TypeOK

(* A thread that only goes to another line keeps what it holds.              *)
LEMMA MovesOn ==
    ASSUME TypeOK, NEW t \in Threads, NEW pc, Goto(t, [thread[t] EXCEPT !.pc = pc])
    PROVE  /\ thread'[t].pc = pc /\ thread'[t].job = thread[t].job
           /\ thread'[t].port = thread[t].port /\ thread'[t].call = thread[t].call
           /\ thread'[t].since = thread[t].since /\ thread'[t].todo = thread[t].todo
<1>1. thread'[t] = [thread[t] EXCEPT !.pc = pc]
  BY Arrives
<1>2. thread[t] \in Locals
  BY ThreadTyped
<1> QED BY <1>1, <1>2 DEF Locals

(* So does one that takes GOST's answer,                                     *)
LEMMA Served ==
    ASSUME TypeOK, NEW t \in Threads, ServeGet(t)
    PROVE  /\ thread'[t].pc = "fill" /\ thread'[t].got = store
           /\ thread'[t].job = thread[t].job /\ thread'[t].port = thread[t].port
           /\ thread'[t].call = thread[t].call /\ thread'[t].since = thread[t].since
<1>1. thread'[t] = [thread[t] EXCEPT !.pc = "fill", !.got = store]
  BY Arrives DEF ServeGet
<1>2. thread[t] \in Locals
  BY ThreadTyped
<1> QED BY <1>1, <1>2 DEF Locals

(* or stores it,                                                             *)
LEMMA Stored ==
    ASSUME TypeOK, NEW t \in Threads, Fill(t)
    PROVE  /\ thread'[t].pc = "stamp"
           /\ thread'[t].job = thread[t].job /\ thread'[t].port = thread[t].port
           /\ thread'[t].call = thread[t].call /\ thread'[t].since = thread[t].since
<1>1. thread'[t] = [thread[t] EXCEPT !.pc = "stamp", !.got = None]
  BY Arrives DEF Fill
<1>2. thread[t] \in Locals
  BY ThreadTyped
<1> QED BY <1>1, <1>2 DEF Locals

(* or has tried to delete an expired mapping,                                *)
LEMMA Deletes ==
    ASSUME TypeOK, DeleteExpired \/ DeletionFails
    PROVE  /\ thread[Cleanup].pc = "loop" /\ thread'[Cleanup].pc \in {"clear", "loop"}
           /\ thread'[Cleanup].job = thread[Cleanup].job
           /\ thread'[Cleanup].port = thread[Cleanup].port
           /\ thread'[Cleanup].since = thread[Cleanup].since
<1>1. Cleanup \in Threads /\ thread[Cleanup] \in Locals
  BY CleanupThread, ThreadTyped
<1>2. CASE DeleteExpired
  <2> PICK p \in thread[Cleanup].todo :
           Goto(Cleanup, [thread[Cleanup] EXCEPT !.pc = "clear", !.todo = @ \ {p}])
    BY <1>2 DEF DeleteExpired
  <2>1. thread'[Cleanup] = [thread[Cleanup] EXCEPT !.pc = "clear", !.todo = @ \ {p}]
    BY <1>1, Arrives
  <2>2. thread[Cleanup].pc = "loop"
    BY <1>2 DEF DeleteExpired, At
  <2> QED BY <1>1, <2>1, <2>2 DEF Locals
<1>3. CASE DeletionFails
  <2> PICK p \in thread[Cleanup].todo :
           Goto(Cleanup, [thread[Cleanup] EXCEPT !.todo = @ \ {p}])
    BY <1>3 DEF DeletionFails
  <2>1. thread'[Cleanup] = [thread[Cleanup] EXCEPT !.todo = @ \ {p}]
    BY <1>1, Arrives
  <2>2. thread[Cleanup].pc = "loop"
    BY <1>3 DEF DeletionFails, At
  <2> QED BY <1>1, <2>1, <2>2 DEF Locals
<1> QED BY <1>2, <1>3

(* or goes on to the next mapping.                                           *)
LEMMA NextOne ==
    ASSUME TypeOK, NextMapping
    PROVE  /\ thread'[Cleanup].pc = "query"
           /\ thread'[Cleanup].todo = thread[Cleanup].todo \ {Asked}
           /\ thread'[Cleanup].job = thread[Cleanup].job
           /\ thread'[Cleanup].port = thread[Cleanup].port
           /\ thread'[Cleanup].since = thread[Cleanup].since
<1>1. Cleanup \in Threads /\ thread[Cleanup] \in Locals
  BY CleanupThread, ThreadTyped
<1>2. thread'[Cleanup] = [thread[Cleanup] EXCEPT !.pc = "query",
                                                 !.todo = thread[Cleanup].todo \ {Asked}]
  BY <1>1, Arrives DEF NextMapping
<1> QED BY <1>1, <1>2 DEF Locals

(* A thread that is done rests.                                              *)
LEMMA Rests ==
    ASSUME TypeOK, NEW t \in Threads, Goto(t, Rest)
    PROVE  thread'[t].pc = "idle" /\ thread'[t].job = "none" /\ thread'[t].since = 0
BY Arrives DEF Rest

(* After the clearing the loop goes on, the addition is forwarded, or all is done. *)
LEMMA Cleared ==
    ASSUME TypeOK, NEW t \in Threads, ClearTs(t)
    PROVE  \/ Goto(t, Rest)
           \/ /\ \/ thread'[t].pc = "loop" /\ thread[t].job = "expire"
                 \/ thread'[t].pc = "ensure"
              /\ thread'[t].job = thread[t].job /\ thread'[t].port = thread[t].port
              /\ thread'[t].since = thread[t].since
<1>1. Goto(t, AfterClearing(thread[t]))
  BY DEF ClearTs
<1>2. CASE thread[t].job = "expire"
  <2>1. Goto(t, [thread[t] EXCEPT !.pc = "loop"])
    BY <1>1, <1>2 DEF AfterClearing
  <2> QED BY <1>2, <2>1, MovesOn
<1>3. CASE thread[t].job # "expire" /\ thread[t].job \in {"add", "delete"}
  <2>1. Goto(t, [thread[t] EXCEPT !.pc = "ensure"])
    BY <1>1, <1>3 DEF AfterClearing
  <2> QED BY <2>1, MovesOn
<1>4. CASE thread[t].job # "expire" /\ thread[t].job \notin {"add", "delete"}
  BY <1>1, <1>4 DEF AfterClearing
<1> QED BY <1>2, <1>3, <1>4

(* Where a reader goes with the list it is handed.                           *)
LEMMA Delivered ==
    ASSUME TypeOK, NEW t \in Threads, NEW X \in {None} \cup List, Deliver(t, X)
    PROVE  \/ thread'[t].pc \in {"idle", "dead"} /\ thread'[t].job = "none"
           \/ /\ thread'[t].pc = "write" /\ thread'[t].port \in Ports
              /\ thread'[t].since = thread[t].since
           \/ /\ thread'[t].pc = "loop" /\ thread'[t].job = "expire"
              /\ thread'[t].since = thread[t].since
           \/ /\ thread'[t].pc = "beat" /\ thread'[t].job = "reconcile"
              /\ thread'[t].since = thread[t].since
              /\ X # None /\ thread'[t].todo \cap Ports = X
<1>1. thread[t] \in Locals
  BY ThreadTyped
<1>2. CASE Goto(t, Rest)
  BY <1>2, Arrives DEF Rest
<1>3. CASE thread[t].job = "read" /\ HandToRequest(t, X) /\ ~Goto(t, Rest)
  <2> PICK job \in {"add", "delete"}, p \in Ports :
           Goto(t, [thread[t] EXCEPT !.pc = "write", !.job = job, !.port = p, !.call = 0])
    BY <1>3 DEF HandToRequest
  <2>1. thread'[t] = [thread[t] EXCEPT !.pc = "write", !.job = job, !.port = p, !.call = 0]
    BY Arrives
  <2> QED BY <1>1, <2>1 DEF Locals
<1>4. CASE thread[t].job = "expire" /\ HandToExpire(t, X)
  <2>1. CASE Goto(t, [Rest EXCEPT !.pc = "dead"])
    BY <2>1, Arrives DEF Rest
  <2>2. CASE \E over \in SUBSET X :
                 Goto(t, [thread[t] EXCEPT !.pc = "loop", !.todo = over, !.call = 0])
    <3> PICK over \in SUBSET X :
                 Goto(t, [thread[t] EXCEPT !.pc = "loop", !.todo = over, !.call = 0])
      BY <2>2
    <3>1. thread'[t] = [thread[t] EXCEPT !.pc = "loop", !.todo = over, !.call = 0]
      BY Arrives
    <3> QED BY <1>1, <1>4, <3>1 DEF Locals
  <2> QED BY <1>4, <2>1, <2>2 DEF HandToExpire
<1>5. CASE thread[t].job = "reconcile" /\ HandToReconcile(t, X) /\ ~Goto(t, Rest)
  <2>1. X # None
    BY <1>5 DEF HandToReconcile
  <2> PICK others \in SUBSET Others :
           Goto(t, [thread[t] EXCEPT !.pc = "beat", !.todo = X \cup others, !.call = 0])
    BY <1>5 DEF HandToReconcile
  <2>2. thread'[t] = [thread[t] EXCEPT !.pc = "beat", !.todo = X \cup others, !.call = 0]
    BY Arrives
  <2>3. (X \cup others) \cap Ports = X
    BY <2>1, OthersAssumption DEF List
  <2>4. thread'[t].todo = X \cup others
    BY <1>1, <2>2 DEF Locals
  <2> QED BY <1>1, <1>5, <2>1, <2>2, <2>3, <2>4 DEF Locals
<1> QED BY <1>2, <1>3, <1>4, <1>5 DEF Deliver

-----------------------------------------------------------------------------
(* A thread that found the cache too old has emptied it, so that what any     *)
(* thread stores there later was answered within its own call and the other's. *)

(* What a thread stores was given by GOST at most MaxCall seconds ago.        *)
LEMMA Filled ==
    ASSUME TypeOK, CallRecent, NEW t \in Threads, Fill(t)
    PROVE  /\ thread[t].got \in List /\ cache' = thread[t].got
           /\ KnownSince(thread[t].got, MaxCall)
<1>1. /\ thread[t].got \in {None} \cup List /\ thread[t].call \in Nat
      /\ thread[t].call <= MaxCall
  BY ThreadTyped
<1>2. At(t, "fill") /\ cache' = thread[t].got
  BY DEF Fill
<1>3. thread[t].got # None /\ KnownSince(thread[t].got, thread[t].call)
  BY <1>2 DEF CallRecent, CallKnows, At
<1>4. thread[t].got \in List
  BY <1>1, <1>3
<1> QED BY <1>1, <1>2, <1>3, <1>4, Longer, Bounds

(* The cache is kept, emptied, or filled by some thread.                     *)
LEMMA CacheShape ==
    [Next]_vars => cache' = cache \/ cache' = None \/ \E t \in Threads : Fill(t)
<1> SUFFICES ASSUME [Next]_vars
             PROVE  cache' = cache \/ cache' = None \/ \E t \in Threads : Fill(t)
  OBVIOUS
<1>1. ASSUME NEW t \in Threads
      PROVE  \/ WebWrite(t) \/ ServeGet(t) \/ FailGet(t) \/ Stamp(t) \/ Return(t) \/ WriteDone(t)
             \/ WriteFails(t) \/ ClearTs(t) \/ SoapEnsure(t) \/ SoapForward(t)
             => cache' = cache
  BY DEF WebWrite, ServeGet, FailGet, Stamp, Return, WriteDone, WriteFails, ClearTs,
         SoapEnsure, SoapForward
<1>2. ASSUME NEW t \in Threads
      PROVE  ReceiveRequest(t) \/ Clear(t) => cache' \in {cache, None}
  BY DEF ReceiveRequest, CallList, Clear
<1>3. Wake \/ ListMappings => cache' \in {cache, None}
  BY DEF Wake, ListMappings, CallList
<1>4. \/ DeleteExpired \/ DeletionFails \/ HeartbeatOk \/ HeartbeatLost \/ ConnectOk
      \/ ConnectFails \/ QueryOk \/ QueryFails \/ RestoreOk \/ RestoreFails \/ EndQueries
      \/ IgdExpires \/ IgdRestart \/ GostRestart \/ LateWrite \/ Tick \/ UNCHANGED vars
      => cache' = cache
  BY DEF DeleteExpired, DeletionFails, HeartbeatOk, HeartbeatLost, ConnectOk, ConnectFails,
         QueryOk, QueryFails, RestoreOk, RestoreFails, EndQueries, IgdExpires, IgdRestart,
         GostRestart, LateWrite, Tick, vars
<1> QED BY <1>1, <1>2, <1>3, <1>4 DEF Next, Step, Round

(* The cache remains known, whoever fills it, as long as what is asked is no   *)
(* less than a call.                                                         *)
LEMMA CacheKept ==
    ASSUME TypeOK, CallRecent, [Next]_vars, ~Tick, NEW s \in Nat, MaxCall <= s,
           cache # None => KnownSince(cache, s), cache' # None
    PROVE  \A p \in cache' : p \notin store' => gone'[p] <= s
<1>1. CASE cache' = cache
  <2>1. cache \in List /\ KnownSince(cache, s)
    BY <1>1 DEF TypeOK
  <2> QED BY <1>1, <2>1, Kept
<1>2. ASSUME NEW t \in Threads, Fill(t)
      PROVE  \A p \in cache' : p \notin store' => gone'[p] <= s
  <2>1. /\ thread[t].got \in List /\ cache' = thread[t].got
        /\ KnownSince(thread[t].got, MaxCall)
    BY <1>2, Filled
  <2>2. KnownSince(thread[t].got, s)
    BY <2>1, Longer, Bounds
  <2> QED BY <2>1, <2>2, Kept
<1> QED BY <1>1, <1>2, CacheShape

(* The stamp is reset by the call that filled the cache, or found it filled.   *)
LEMMA StepCache == TypeOK /\ CacheRecent /\ CallRecent /\ [Next]_vars => CacheRecent'
<1> SUFFICES ASSUME TypeOK, CacheRecent, CallRecent, [Next]_vars,
                    cache' # None, stamp' < TTL
             PROVE  \A p \in cache' : p \notin store' => gone'[p] <= stamp' + 2 * MaxCall
  BY DEF CacheRecent, Fresh, KnownSince
<1>1. stamp \in Nat /\ TTL \in Nat /\ stamp + 2 * MaxCall \in Nat /\ MaxCall <= 2 * MaxCall
      /\ MaxCall <= stamp + 2 * MaxCall
  BY Bounds DEF TypeOK
<1>2. CASE Tick
  <2>1. stamp < TTL /\ stamp' = stamp + 1 /\ cache' = cache
    BY <1>1, <1>2 DEF Tick, Later
  <2>2. cache \in List /\ KnownSince(cache, stamp + 2 * MaxCall)
    BY <2>1 DEF CacheRecent, Fresh, TypeOK
  <2>3. \A p \in cache : p \notin store' => gone'[p] <= (stamp + 2 * MaxCall) + 1
    BY <1>1, <1>2, <2>2, Aged
  <2>4. stamp' + 2 * MaxCall = (stamp + 2 * MaxCall) + 1
    BY <1>1, <2>1, Bounds
  <2> QED BY <2>1, <2>3, <2>4
<1>3. ASSUME NEW t \in Threads, Stamp(t)
      PROVE  \A p \in cache' : p \notin store' => gone'[p] <= stamp' + 2 * MaxCall
  <2>1. At(t, "stamp") /\ stamp' = 0 /\ cache' = cache /\ store' = store /\ gone' = gone
    BY <1>3 DEF Stamp
  <2>2. KnownSince(cache, thread[t].call + MaxCall)
    BY <2>1 DEF CallRecent, CallKnows, Missed, At
  <2>3. thread[t].call \in Nat /\ thread[t].call <= MaxCall
    BY ThreadTyped
  <2>4. cache \in List
    BY <2>1 DEF TypeOK
  <2>5. KnownSince(cache, 2 * MaxCall)
    BY <2>2, <2>3, <2>4, Longer, Bounds
  <2>6. 2 * MaxCall = stamp' + 2 * MaxCall
    BY <2>1, Bounds
  <2> QED BY <2>1, <2>5, <2>6 DEF KnownSince
<1>4. CASE stamp' = stamp /\ ~Tick
  <2>1. cache # None => KnownSince(cache, stamp + 2 * MaxCall)
    BY <1>4 DEF CacheRecent, Fresh
  <2>2. \A p \in cache' : p \notin store' => gone'[p] <= stamp + 2 * MaxCall
    BY <1>1, <1>4, <2>1, CacheKept
  <2> QED BY <1>4, <2>2
<1>5. ASSUME NEW t \in Threads
      PROVE  \/ ReceiveRequest(t) \/ WebWrite(t) \/ ServeGet(t) \/ FailGet(t) \/ Fill(t)
             \/ Return(t) \/ WriteDone(t) \/ WriteFails(t) \/ Clear(t) \/ SoapEnsure(t)
             \/ SoapForward(t)
             => stamp' = stamp
  BY DEF ReceiveRequest, WebWrite, ServeGet, FailGet, Fill, Return, WriteDone, WriteFails,
         Clear, SoapEnsure, SoapForward
<1>6. ASSUME NEW t \in Threads PROVE ~ClearTs(t)
  BY <1>1 DEF ClearTs
<1>7. \/ Round \/ IgdExpires \/ IgdRestart \/ GostRestart \/ LateWrite \/ UNCHANGED vars
      => stamp' = stamp
  BY DEF Round, Wake, DeleteExpired, DeletionFails, ListMappings, HeartbeatOk, HeartbeatLost,
         ConnectOk, ConnectFails, QueryOk, QueryFails, RestoreOk, RestoreFails, EndQueries,
         IgdExpires, IgdRestart, GostRestart, LateWrite, vars
<1> QED BY <1>2, <1>3, <1>4, <1>5, <1>6, <1>7 DEF Next, Step

(* The steps of a thread that end outside get_services.                      *)
LEMMA Outside ==
    ASSUME TypeOK, NEW t \in Threads,
           \/ WebWrite(t) \/ FailGet(t) \/ Return(t) \/ WriteDone(t) \/ WriteFails(t)
           \/ Clear(t) \/ ClearTs(t) \/ SoapEnsure(t) \/ SoapForward(t)
    PROVE  thread'[t].pc \notin {"hit", "get", "fill", "stamp", "reread"}
<1>2. CASE WebWrite(t)
  <2> PICK job \in {"webadd", "webdelete"}, p \in Ports :
           Goto(t, [Rest EXCEPT !.pc = "write", !.job = job, !.port = p])
    BY <1>2 DEF WebWrite
  <2> QED BY Arrives DEF Rest
<1>3. CASE FailGet(t) \/ Return(t)
  <2>1. {} \in {None} \cup List /\ cache \in {None} \cup List
    BY DEF List, TypeOK
  <2> QED BY <1>3, <2>1, Delivered DEF FailGet, Return
<1>4. CASE WriteDone(t)
  BY <1>4, MovesOn DEF WriteDone
<1>5. CASE WriteFails(t)
  BY <1>5, MovesOn, Rests DEF WriteFails
<1>6. CASE Clear(t)
  BY <1>6, MovesOn DEF Clear
<1>7. CASE ClearTs(t)
  BY <1>7, Cleared, Rests
<1>8. CASE SoapEnsure(t)
  BY <1>8, MovesOn, Rests DEF SoapEnsure
<1>9. CASE SoapForward(t)
  BY <1>9, Rests DEF SoapForward
<1> QED BY <1>2, <1>3, <1>4, <1>5, <1>6, <1>7, <1>8, <1>9

(* The steps of a round that do not call get_services.                       *)
LEMMA RoundOutside ==
    ASSUME TypeOK, Round, ~Wake, ~ListMappings
    PROVE  thread'[Cleanup].pc \notin {"hit", "get", "fill", "stamp", "reread"}
<1>1. CASE DeleteExpired \/ DeletionFails
  BY <1>1, Deletes
<1>2. CASE StartQueries
  BY <1>2, MovesOn, CleanupThread DEF StartQueries
<1>3. CASE EndRound
  BY <1>3, Rests, CleanupThread DEF EndRound
<1>4. CASE NextMapping
  BY <1>4, NextOne
<1>5. CASE HeartbeatLost
  BY <1>5, MovesOn, CleanupThread DEF HeartbeatLost
<1>6. CASE QueryOk /\ ~NextMapping
  BY <1>6, MovesOn, CleanupThread DEF QueryOk
<1>7. /\ HeartbeatOk \/ ConnectOk => StartQueries
      /\ ConnectFails \/ EndQueries => EndRound
      /\ QueryFails \/ RestoreOk \/ RestoreFails => NextMapping
  BY DEF HeartbeatOk, ConnectOk, ConnectFails, EndQueries, QueryFails, RestoreOk, RestoreFails
<1> QED BY <1>1, <1>2, <1>3, <1>4, <1>5, <1>6, <1>7 DEF Round

(* get_services begins: either it finds the cache fresh, or it empties it.     *)
LEMMA Begins ==
    ASSUME TypeOK, NEW t \in Threads, NEW L \in Locals, CallList(t, L)
    PROVE  /\ thread'[t].call = 0 /\ thread'[t].job = L.job
           /\ thread'[t].since = L.since /\ thread'[t].port = L.port
           /\ \/ thread'[t].pc = "hit" /\ Fresh /\ cache' = cache
              \/ thread'[t].pc = "get" /\ cache' = None
<1>1. thread'[t] = [L EXCEPT !.pc = IF Fresh THEN "hit" ELSE "get", !.call = 0]
  BY Arrives DEF CallList
<1>2. cache' = IF Fresh THEN cache ELSE None
  BY DEF CallList
<1> QED BY <1>1, <1>2 DEF Locals

(* What a thread in get_services knows of the cache, and of its own answer.     *)
LEMMA StepCall == TypeOK /\ CacheRecent /\ CallRecent /\ [Next]_vars => CallRecent'
<1> SUFFICES ASSUME TypeOK, CacheRecent, CallRecent, [Next]_vars, NEW u \in Threads
             PROVE  /\ thread'[u].pc = "fill" =>
                          /\ thread'[u].got # None
                          /\ \A p \in thread'[u].got :
                                p \notin store' => gone'[p] <= thread'[u].call
                    /\ /\ thread'[u].pc \in {"get", "fill", "stamp", "reread"}
                       /\ cache' # None
                       => \A p \in cache' :
                             p \notin store' => gone'[p] <= thread'[u].call + MaxCall
                    /\ thread'[u].pc = "hit" /\ cache' # None =>
                          \A p \in cache' : p \notin store' =>
                             gone'[p] <= TTL - 1 + 2 * MaxCall + thread'[u].call
  BY DEF CallRecent, CallKnows, KnownSince, Missed
<1> DEFINE L == thread[u]
<1>1. /\ L \in Locals /\ L.call \in Nat /\ L.call <= MaxCall /\ L.got \in {None} \cup List
      /\ L.call + MaxCall \in Nat /\ TTL - 1 + 2 * MaxCall + L.call \in Nat
      /\ MaxCall <= L.call + MaxCall /\ MaxCall <= TTL - 1 + 2 * MaxCall + L.call
  BY ThreadTyped, Bounds
<1>2. /\ L.pc = "fill" => L.got # None /\ KnownSince(L.got, L.call)
      /\ L.pc \in {"get", "fill", "stamp", "reread"} /\ cache # None
             => KnownSince(cache, L.call + MaxCall)
      /\ L.pc = "hit" /\ cache # None
             => KnownSince(cache, TTL - 1 + 2 * MaxCall + L.call)
  BY DEF CallRecent, CallKnows, Missed
<1>3. CASE Tick
  <2>1. thread'[u] = LaterIn(L, u) /\ cache' = cache
    BY <1>3 DEF Tick
  <2>2. thread'[u].pc = L.pc /\ thread'[u].got = L.got
    BY <1>1, <2>1 DEF LaterIn, Locals
  <2>3. L.pc \in {"hit", "get", "fill", "stamp", "reread"} => thread'[u].call = L.call + 1
    BY <1>1, <2>1 DEF LaterIn, InCall, Locals
  <2>4. ASSUME L.pc = "fill"
        PROVE  /\ L.got # None
               /\ \A p \in L.got : p \notin store' => gone'[p] <= L.call + 1
    BY <1>1, <1>2, <1>3, <2>4, Aged
  <2>5. ASSUME L.pc \in {"get", "fill", "stamp", "reread"}, cache # None
        PROVE  \A p \in cache : p \notin store' => gone'[p] <= (L.call + 1) + MaxCall
    <3>1. cache \in List /\ KnownSince(cache, L.call + MaxCall)
      BY <1>2, <2>5 DEF TypeOK
    <3>2. \A p \in cache : p \notin store' => gone'[p] <= (L.call + MaxCall) + 1
      BY <1>1, <1>3, <3>1, Aged
    <3>3. (L.call + MaxCall) + 1 = (L.call + 1) + MaxCall
      BY <1>1, Bounds
    <3> QED BY <3>2, <3>3
  <2>6. ASSUME L.pc = "hit", cache # None
        PROVE  \A p \in cache :
                  p \notin store' => gone'[p] <= TTL - 1 + 2 * MaxCall + (L.call + 1)
    <3>1. cache \in List /\ KnownSince(cache, TTL - 1 + 2 * MaxCall + L.call)
      BY <1>2, <2>6 DEF TypeOK
    <3>2. \A p \in cache : p \notin store' => gone'[p] <= (TTL - 1 + 2 * MaxCall + L.call) + 1
      BY <1>1, <1>3, <3>1, Aged
    <3>3. (TTL - 1 + 2 * MaxCall + L.call) + 1 = TTL - 1 + 2 * MaxCall + (L.call + 1)
      BY <1>1, Bounds
    <3> QED BY <3>2, <3>3
  <2> QED BY <2>1, <2>2, <2>3, <2>4, <2>5, <2>6
<1>4. CASE thread'[u] = L /\ ~Tick
  <2>1. ASSUME L.pc = "fill"
        PROVE  /\ L.got # None
               /\ \A p \in L.got : p \notin store' => gone'[p] <= L.call
    BY <1>1, <1>2, <1>4, <2>1, Kept
  <2>2. ASSUME L.pc \in {"get", "fill", "stamp", "reread"}, cache' # None
        PROVE  \A p \in cache' : p \notin store' => gone'[p] <= L.call + MaxCall
    <3>1. cache # None => KnownSince(cache, L.call + MaxCall)
      BY <1>2, <2>2
    <3> QED BY <1>1, <1>4, <2>2, <3>1, CacheKept
  <2>3. ASSUME L.pc = "hit", cache' # None
        PROVE  \A p \in cache' : p \notin store' =>
                  gone'[p] <= TTL - 1 + 2 * MaxCall + L.call
    <3>1. cache # None => KnownSince(cache, TTL - 1 + 2 * MaxCall + L.call)
      BY <1>2, <2>3
    <3> QED BY <1>1, <1>4, <2>3, <3>1, CacheKept
  <2> QED BY <1>4, <2>1, <2>2, <2>3
<1>5. ASSUME NEW M \in Locals, CallList(u, M), store' = store, gone' = gone, stamp' = stamp
      PROVE  /\ thread'[u].pc \in {"hit", "get"}
             /\ thread'[u].pc = "get" => cache' = None
             /\ thread'[u].pc = "hit" /\ cache' # None =>
                   \A p \in cache' : p \notin store' =>
                      gone'[p] <= TTL - 1 + 2 * MaxCall + thread'[u].call
  <2>1. /\ thread'[u].call = 0
        /\ \/ thread'[u].pc = "hit" /\ Fresh /\ cache' = cache
           \/ thread'[u].pc = "get" /\ cache' = None
    BY <1>5, Begins
  <2>2. ASSUME Fresh, cache' = cache
        PROVE  \A p \in cache' : p \notin store' =>
                  gone'[p] <= TTL - 1 + 2 * MaxCall + thread'[u].call
    <3>1. cache \in List /\ KnownSince(cache, stamp + 2 * MaxCall)
      BY <2>2 DEF CacheRecent, Fresh, TypeOK
    <3>2. stamp + 2 * MaxCall <= TTL - 1 + 2 * MaxCall + thread'[u].call
          /\ stamp + 2 * MaxCall \in Nat /\ TTL - 1 + 2 * MaxCall + thread'[u].call \in Nat
      BY <2>1, <2>2, Bounds DEF Fresh, TypeOK
    <3>3. KnownSince(cache, TTL - 1 + 2 * MaxCall + thread'[u].call)
      BY <3>1, <3>2, Longer
    <3> QED BY <1>5, <2>2, <3>3 DEF KnownSince
  <2> QED BY <2>1, <2>2
<1>6. CASE ReceiveRequest(u)
  <2>1. [Rest EXCEPT !.job = "read"] \in Locals
    BY RestTyped DEF Locals
  <2> QED BY <1>5, <1>6, <2>1 DEF ReceiveRequest
<1>7. CASE u = Cleanup /\ Wake
  <2>1. [Rest EXCEPT !.job = "expire"] \in Locals
    BY RestTyped DEF Locals
  <2> QED BY <1>5, <1>7, <2>1 DEF Wake
<1>8. CASE u = Cleanup /\ ListMappings
  <2>1. [thread[Cleanup] EXCEPT !.job = "reconcile"] \in Locals
    BY <1>1, <1>8 DEF Locals
  <2> QED BY <1>5, <1>8, <2>1 DEF ListMappings
<1>9. CASE ServeGet(u)
  <2>2. thread'[u].pc = "fill" /\ thread'[u].got = store /\ thread'[u].call = L.call
    BY <1>9, Served
  <2>3. L.pc = "get" /\ cache' = cache /\ store' = store /\ gone' = gone
    BY <1>9 DEF ServeGet, At
  <2>4. store # None
    BY NoneAssumption DEF TypeOK, List
  <2> QED BY <1>2, <2>2, <2>3, <2>4 DEF KnownSince
<1>10. CASE Fill(u)
  <2>2. thread'[u].pc = "stamp" /\ thread'[u].call = L.call
    BY <1>10, Stored
  <2>3. cache' = L.got /\ store' = store /\ gone' = gone
    BY <1>10 DEF Fill
  <2>4. KnownSince(L.got, MaxCall) /\ L.got \in List
    BY <1>10, Filled
  <2>5. KnownSince(L.got, L.call + MaxCall)
    BY <1>1, <2>4, Longer, Bounds
  <2> QED BY <2>2, <2>3, <2>5 DEF KnownSince
<1>11. CASE Stamp(u)
  <2>2. thread'[u].pc = "reread" /\ thread'[u].call = L.call
    BY <1>11, MovesOn DEF Stamp
  <2>3. L.pc = "stamp" /\ cache' = cache /\ store' = store /\ gone' = gone
    BY <1>11 DEF Stamp, At
  <2> QED BY <1>2, <2>2, <2>3 DEF KnownSince
<1>12. CASE \/ WebWrite(u) \/ FailGet(u) \/ Return(u) \/ WriteDone(u) \/ WriteFails(u)
            \/ Clear(u) \/ ClearTs(u) \/ SoapEnsure(u) \/ SoapForward(u)
  BY <1>12, Outside
<1>13. CASE u = Cleanup /\ Round /\ ~Wake /\ ~ListMappings
  BY <1>13, RoundOutside
<1> QED BY <1>3, <1>4, <1>6, <1>7, <1>8, <1>9, <1>10, <1>11, <1>12, <1>13, Movers DEF Step

-----------------------------------------------------------------------------
(* The list of a round was in the cache when get_services returned it, and is   *)
(* as old as it may have been there, and as the round.                       *)
LEMMA StepRound == TypeOK /\ CallRecent /\ RoundRecent /\ [Next]_vars => RoundRecent'
<1> SUFFICES ASSUME TypeOK, CallRecent, RoundRecent, [Next]_vars
             PROVE  /\ thread'[Cleanup].pc \in {"hit", "get", "fill", "stamp", "reread"}
                          => thread'[Cleanup].call <= thread'[Cleanup].since
                    /\ thread'[Cleanup].pc \in {"beat", "connect", "query", "restore"}
                          => \A p \in thread'[Cleanup].todo \cap Ports :
                                p \notin store' =>
                                   gone'[p] <= TTL - 1 + 2 * MaxCall + thread'[Cleanup].since
                    /\ thread'[Cleanup].pc = "restore" => thread'[Cleanup].todo # {}
  BY DEF RoundRecent, RoundKnows, InCall, HasList, KnownSince
<1> DEFINE L == thread[Cleanup]
           age == TTL - 1 + 2 * MaxCall
           Known(P, s) == \A p \in P : p \notin store' => gone'[p] <= s
<1>1. /\ Cleanup \in Threads /\ L \in Locals /\ L.call \in Nat /\ L.call <= MaxCall
      /\ L.since \in Nat /\ L.todo \cap Ports \in List /\ age \in Nat /\ age + L.since \in Nat
  BY CleanupThread, ThreadTyped, Bounds DEF List
<1>2. /\ L.pc \in {"hit", "get", "fill", "stamp", "reread"} => L.call <= L.since
      /\ L.pc \in {"beat", "connect", "query", "restore"}
             => KnownSince(L.todo \cap Ports, age + L.since)
      /\ L.pc = "restore" => L.todo # {}
  BY DEF RoundRecent, RoundKnows, InCall, HasList
<1>3. CASE Tick
  <2>1. thread'[Cleanup] = LaterIn(L, Cleanup)
    BY <1>1, <1>3 DEF Tick
  <2>2. thread'[Cleanup].pc = L.pc /\ thread'[Cleanup].todo = L.todo
    BY <1>1, <2>1 DEF LaterIn, Locals
  <2>3. L.pc \in {"hit", "get", "fill", "stamp", "reread"} =>
            thread'[Cleanup].call = L.call + 1 /\ thread'[Cleanup].since = L.since + 1
    BY <1>1, <2>1 DEF LaterIn, InCall, Resting, Locals
  <2>4. L.pc \in {"beat", "connect", "query", "restore"} =>
            thread'[Cleanup].since = L.since + 1
    BY <1>1, <2>1 DEF LaterIn, Resting, Locals
  <2>5. ASSUME L.pc \in {"beat", "connect", "query", "restore"}
        PROVE  Known(L.todo \cap Ports, age + (L.since + 1))
    <3>1. Known(L.todo \cap Ports, (age + L.since) + 1)
      BY <1>1, <1>2, <1>3, <2>5, Aged
    <3>2. (age + L.since) + 1 = age + (L.since + 1)
      BY <1>1
    <3> QED BY <3>1, <3>2
  <2> QED BY <1>1, <1>2, <2>2, <2>3, <2>4, <2>5
<1>4. ASSUME thread'[Cleanup].todo \subseteq L.todo, thread'[Cleanup].since = L.since, ~Tick,
             L.pc \in {"beat", "connect", "query", "restore"}
      PROVE  Known(thread'[Cleanup].todo \cap Ports, age + thread'[Cleanup].since)
  <2>1. Known(L.todo \cap Ports, age + L.since)
    BY <1>1, <1>2, <1>4, Kept
  <2> QED BY <1>4, <2>1
<1>5. CASE thread'[Cleanup] = L /\ ~Tick
  BY <1>2, <1>4, <1>5
<1>6. ASSUME NEW M \in Locals, CallList(Cleanup, M) PROVE thread'[Cleanup].call = 0
                                                      /\ thread'[Cleanup].since \in Nat
                                                      /\ thread'[Cleanup].pc \in {"hit", "get"}
  BY <1>1, <1>6, Begins, Bounds DEF Locals
<1>7. CASE ReceiveRequest(Cleanup) \/ WebWrite(Cleanup)
  BY <1>7, ThreadAssumption DEF ReceiveRequest, WebWrite
<1>8. CASE Wake
  <2>1. [Rest EXCEPT !.job = "expire"] \in Locals
    BY RestTyped DEF Locals
  <2> QED BY <1>6, <1>8, <2>1 DEF Wake
<1>9. CASE ListMappings
  <2>1. [L EXCEPT !.job = "reconcile"] \in Locals
    BY <1>1 DEF Locals
  <2> QED BY <1>6, <1>9, <2>1 DEF ListMappings
<1>10. CASE ServeGet(Cleanup) \/ Fill(Cleanup) \/ Stamp(Cleanup)
  <2>1. L.pc \in {"hit", "get", "fill", "stamp", "reread"}
    BY <1>10 DEF ServeGet, Fill, Stamp, At
  <2>2. /\ thread'[Cleanup].call = L.call /\ thread'[Cleanup].since = L.since
        /\ thread'[Cleanup].pc \in {"fill", "stamp", "reread"}
    BY <1>1, <1>10, Served, Stored, MovesOn DEF Stamp
  <2> QED BY <1>2, <2>1, <2>2
<1>11. ASSUME NEW X \in {None} \cup List, Deliver(Cleanup, X), store' = store, gone' = gone,
              X # None => KnownSince(X, age + L.since)
       PROVE  /\ thread'[Cleanup].pc \notin {"hit", "get", "fill", "stamp", "reread"}
              /\ thread'[Cleanup].pc \in {"beat", "connect", "query", "restore"}
                    => Known(thread'[Cleanup].todo \cap Ports, age + thread'[Cleanup].since)
              /\ thread'[Cleanup].pc # "restore"
  BY <1>1, <1>11, Delivered DEF KnownSince
<1>12. CASE FailGet(Cleanup)
  <2>1. {} \in {None} \cup List /\ KnownSince({}, age + L.since)
    BY DEF List, KnownSince
  <2> QED BY <1>11, <1>12, <2>1 DEF FailGet
<1>13. CASE Return(Cleanup)
  <2>1. cache \in {None} \cup List
    BY DEF TypeOK
  <2>2. cache # None => KnownSince(cache, age + L.since)
    <3>1. L.pc \in {"hit", "reread"}
      BY <1>13 DEF Return
    <3>2. ASSUME L.pc = "hit", cache # None PROVE KnownSince(cache, age + L.since)
      <4>1. KnownSince(cache, age + L.call)
        BY <1>1, <3>2 DEF CallRecent, CallKnows
      <4>2. L.call <= L.since /\ age + L.call \in Nat /\ age + L.call <= age + L.since
        BY <1>1, <1>2, <3>2
      <4> QED BY <1>1, <2>1, <3>2, <4>1, <4>2, Longer
    <3>3. ASSUME L.pc = "reread", cache # None PROVE KnownSince(cache, age + L.since)
      <4>1. KnownSince(cache, L.call + MaxCall)
        BY <1>1, <3>3 DEF CallRecent, CallKnows, Missed
      <4>2. L.call + MaxCall \in Nat /\ L.call + MaxCall <= age + L.since
        BY <1>1, <1>2, <3>3, Bounds
      <4> QED BY <1>1, <2>1, <3>3, <4>1, <4>2, Longer
    <3> QED BY <3>1, <3>2, <3>3
  <2>3. Deliver(Cleanup, cache) /\ store' = store /\ gone' = gone
    BY <1>13 DEF Return
  <2> QED BY <1>11, <2>1, <2>2, <2>3
<1>14. CASE \/ WriteDone(Cleanup) \/ WriteFails(Cleanup) \/ Clear(Cleanup) \/ ClearTs(Cleanup)
            \/ SoapEnsure(Cleanup) \/ SoapForward(Cleanup)
  <2>1. thread'[Cleanup].pc \notin {"beat", "connect", "query", "restore"}
    <3>1. CASE WriteDone(Cleanup)
      <4>1. Goto(Cleanup, [thread[Cleanup] EXCEPT !.pc = "clear"])
        BY <3>1 DEF WriteDone
      <4>2. thread'[Cleanup].pc = "clear"
        BY <1>1, <4>1, MovesOn
      <4> QED BY <4>2
    <3>2. CASE Clear(Cleanup)
      <4>1. Goto(Cleanup, [thread[Cleanup] EXCEPT !.pc = "clearTs"])
        BY <3>2 DEF Clear
      <4>2. thread'[Cleanup].pc = "clearTs"
        BY <1>1, <4>1, MovesOn
      <4> QED BY <4>2
    <3>3. CASE WriteFails(Cleanup)
      <4>1. \/ Goto(Cleanup, Rest)
            \/ Goto(Cleanup, [thread[Cleanup] EXCEPT !.pc = "clear"])
        BY <3>3 DEF WriteFails
      <4>2. thread'[Cleanup].pc \in {"idle", "clear"}
        BY <1>1, <4>1, MovesOn, Rests
      <4> QED BY <4>2
    <3>4. CASE SoapEnsure(Cleanup)
      <4>1. \/ Goto(Cleanup, Rest)
            \/ Goto(Cleanup, [thread[Cleanup] EXCEPT !.pc = "forward"])
        BY <3>4 DEF SoapEnsure
      <4>2. thread'[Cleanup].pc \in {"idle", "forward"}
        BY <1>1, <4>1, MovesOn, Rests
      <4> QED BY <4>2
    <3>5. CASE SoapForward(Cleanup)
      <4>1. Goto(Cleanup, Rest)
        BY <3>5 DEF SoapForward
      <4>2. thread'[Cleanup].pc = "idle"
        BY <1>1, <4>1, Rests
      <4> QED BY <4>2
    <3>6. CASE ClearTs(Cleanup)
      <4>1. \/ Goto(Cleanup, Rest)
            \/ thread'[Cleanup].pc \in {"loop", "ensure"}
        BY <1>1, <3>6, Cleared
      <4>2. thread'[Cleanup].pc \in {"idle", "loop", "ensure"}
        BY <1>1, <4>1, Rests
      <4> QED BY <4>2
    <3> QED BY <1>14, <3>1, <3>2, <3>3, <3>4, <3>5, <3>6
  <2> QED BY <1>1, <1>14, <2>1, Outside
<1>15. CASE DeleteExpired \/ DeletionFails
  <2>1. thread'[Cleanup].pc \in {"clear", "loop"}
    BY <1>15, Deletes
  <2> QED BY <2>1
<1>16. CASE EndRound
  <2>1. thread'[Cleanup].pc = "idle"
    BY <1>1, <1>16, Rests DEF EndRound
  <2> QED BY <2>1
<1>17. CASE StartQueries /\ At(Cleanup, "beat") /\ ~Tick
  <2>1. L.pc = "beat"
    BY <1>17 DEF At
  <2>2. /\ thread'[Cleanup].pc = "query" /\ thread'[Cleanup].todo = L.todo
        /\ thread'[Cleanup].since = L.since
    BY <1>1, <1>17, MovesOn DEF StartQueries
  <2> QED BY <1>4, <1>17, <2>1, <2>2
<1>18. CASE StartQueries /\ At(Cleanup, "connect") /\ ~Tick
  <2>1. L.pc = "connect"
    BY <1>18 DEF At
  <2>2. /\ thread'[Cleanup].pc = "query" /\ thread'[Cleanup].todo = L.todo
        /\ thread'[Cleanup].since = L.since
    BY <1>1, <1>18, MovesOn DEF StartQueries
  <2> QED BY <1>4, <1>18, <2>1, <2>2
<1>19. CASE HeartbeatLost /\ ~Tick
  <2>1. L.pc = "beat"
    BY <1>19 DEF HeartbeatLost, At
  <2>2. /\ thread'[Cleanup].pc = "connect" /\ thread'[Cleanup].todo = L.todo
        /\ thread'[Cleanup].since = L.since
    BY <1>1, <1>19, MovesOn DEF HeartbeatLost
  <2> QED BY <1>4, <1>19, <2>1, <2>2
<1>20. CASE NextMapping /\ (At(Cleanup, "query") \/ At(Cleanup, "restore")) /\ ~Tick
  <2>1. L.pc \in {"query", "restore"}
    BY <1>20 DEF At
  <2>2. /\ thread'[Cleanup].pc = "query" /\ thread'[Cleanup].todo = L.todo \ {Asked}
        /\ thread'[Cleanup].since = L.since
    BY <1>20, NextOne
  <2> QED BY <1>4, <1>20, <2>1, <2>2
<1>21. CASE QueryOk /\ ~NextMapping /\ ~Tick
  <2>1. L.pc = "query" /\ L.todo # {}
    BY <1>21 DEF QueryOk, At
  <2>2. /\ thread'[Cleanup].pc = "restore" /\ thread'[Cleanup].todo = L.todo
        /\ thread'[Cleanup].since = L.since
    BY <1>1, <1>21, MovesOn DEF QueryOk
  <2> QED BY <1>4, <1>21, <2>1, <2>2
<1>22. /\ HeartbeatOk => StartQueries /\ At(Cleanup, "beat")
       /\ ConnectOk => StartQueries /\ At(Cleanup, "connect")
       /\ ConnectFails \/ EndQueries => EndRound
       /\ QueryFails => NextMapping /\ At(Cleanup, "query")
       /\ RestoreOk \/ RestoreFails => NextMapping /\ At(Cleanup, "restore")
       /\ QueryOk => At(Cleanup, "query")
  BY DEF HeartbeatOk, ConnectOk, ConnectFails, EndQueries, QueryFails, QueryOk,
         RestoreOk, RestoreFails
<1> QED
  BY <1>1, <1>3, <1>5, <1>7, <1>8, <1>9, <1>10, <1>12, <1>13, <1>14, <1>15, <1>16, <1>17,
     <1>18, <1>19, <1>20, <1>21, <1>22, Movers DEF Step, Round

(* What a request forwards as an addition GOST has had since the request began. *)
LEMMA StepForward == TypeOK /\ ForwardRecent /\ [Next]_vars => ForwardRecent'
<1> SUFFICES ASSUME TypeOK, ForwardRecent, [Next]_vars, NEW u \in Threads
             PROVE  /\ thread'[u].pc \notin {"idle", "dead"} => thread'[u].since <= MaxRound
                    /\ thread'[u].job \in {"add", "webadd"} => thread'[u].port # None
                    /\ thread'[u].pc = "loop" => thread'[u].job = "expire"
                    /\ /\ thread'[u].pc \in {"clear", "clearTs", "ensure", "forward"}
                       /\ thread'[u].job = "add"
                       => (thread'[u].port \notin store' =>
                              gone'[thread'[u].port] <= thread'[u].since)
  BY DEF ForwardRecent, WriterKnows, Resting, Written, KnownSince
<1> DEFINE L == thread[u]
<1>1. /\ L \in Locals /\ L.since \in Nat /\ 0 <= MaxRound
      /\ L.port \in Ports \cup {None}
  BY ThreadTyped, Bounds
<1>2. /\ L.pc \notin {"idle", "dead"} => L.since <= MaxRound
      /\ L.job \in {"add", "webadd"} => L.port # None
      /\ L.pc = "loop" => L.job = "expire"
      /\ L.pc \in {"clear", "clearTs", "ensure", "forward"} /\ L.job = "add"
             => KnownSince({L.port}, L.since)
  BY DEF ForwardRecent, WriterKnows, Resting, Written
<1>3. CASE Tick
  <2>1. thread'[u] = LaterIn(L, u) /\ (L.pc \notin {"idle", "dead"} => L.since < MaxRound)
    BY <1>3 DEF Tick, Resting
  <2>2. /\ thread'[u].pc = L.pc /\ thread'[u].port = L.port /\ thread'[u].job = L.job
        /\ L.pc \notin {"idle", "dead"} => thread'[u].since = L.since + 1
    BY <1>1, <2>1 DEF LaterIn, Resting, Locals
  <2>3. ASSUME L.pc \in {"clear", "clearTs", "ensure", "forward"}, L.job = "add"
        PROVE  L.port \notin store' => gone'[L.port] <= L.since + 1
    <3>1. {L.port} \in List /\ KnownSince({L.port}, L.since)
      BY <1>1, <1>2, <2>3 DEF List
    <3> QED BY <1>1, <1>3, <3>1, Aged
  <2> QED BY <1>1, <1>2, <2>1, <2>2, <2>3, Bounds
<1>4. ASSUME L.pc \in {"clear", "clearTs", "ensure", "forward"}, L.job = "add", ~Tick
      PROVE  L.port \notin store' => gone'[L.port] <= L.since
  <2>1. {L.port} \in List /\ KnownSince({L.port}, L.since)
    BY <1>1, <1>2, <1>4 DEF List
  <2> QED BY <1>1, <1>4, <2>1, Kept
<1>5. CASE thread'[u] = L /\ ~Tick
  BY <1>2, <1>4, <1>5
<1>6. CASE Goto(u, Rest)
  <2>1. thread'[u] = Rest
    BY <1>6, Arrives
  <2> QED BY <2>1 DEF Rest
<1>7. CASE ReceiveRequest(u)
  <2>1. [Rest EXCEPT !.job = "read"] \in Locals
    BY RestTyped DEF Locals
  <2>2. thread'[u].job = "read" /\ thread'[u].since = 0 /\ thread'[u].pc \in {"hit", "get"}
    BY <1>7, <2>1, Begins DEF ReceiveRequest, Rest
  <2> QED BY <1>1, <2>2
<1>8. CASE WebWrite(u)
  <2> PICK job \in {"webadd", "webdelete"}, p \in Ports :
           Goto(u, [Rest EXCEPT !.pc = "write", !.job = job, !.port = p])
    BY <1>8 DEF WebWrite
  <2>1. thread'[u] = [Rest EXCEPT !.pc = "write", !.job = job, !.port = p]
    BY Arrives
  <2>2. /\ thread'[u].pc = "write" /\ thread'[u].port \in Ports /\ thread'[u].since = 0
    BY <2>1 DEF Rest
  <2> QED BY <1>1, <2>2, NoneAssumption
<1>9. CASE ServeGet(u) \/ Fill(u) \/ Stamp(u)
  <2>1. L.pc \in {"get", "fill", "stamp"}
    BY <1>9 DEF ServeGet, Fill, Stamp, At
  <2>2. /\ thread'[u].job = L.job /\ thread'[u].port = L.port /\ thread'[u].since = L.since
        /\ thread'[u].pc \in {"fill", "stamp", "reread"}
    BY <1>9, Served, Stored, MovesOn DEF Stamp
  <2> QED BY <1>2, <2>1, <2>2
<1>10. CASE FailGet(u) \/ Return(u)
  <2>1. L.pc \in {"get", "hit", "reread"}
    BY <1>10 DEF FailGet, Return, At
  <2>2. {} \in {None} \cup List /\ cache \in {None} \cup List
    BY DEF List, TypeOK
  <2>3. PICK X \in {None} \cup List : Deliver(u, X)
    BY <1>10, <2>2 DEF FailGet, Return
  <2> QED BY <1>2, <2>1, <2>3, Delivered, NoneAssumption
<1>11. CASE WriteDone(u)
  <2>1. L.pc = "write"
    BY <1>11 DEF WriteDone, At
  <2>2. /\ thread'[u].job = L.job /\ thread'[u].port = L.port /\ thread'[u].since = L.since
        /\ thread'[u].pc = "clear"
    BY <1>11, MovesOn DEF WriteDone
  <2>3. L.job = "add" => L.port \in store'
    BY <1>11 DEF WriteDone, Becomes, AfterWrite
  <2> QED BY <1>2, <2>1, <2>2, <2>3
<1>12. CASE WriteFails(u) /\ ~Goto(u, Rest)
  <2>1. L.pc = "write" /\ L.job = "webdelete"
    BY <1>12 DEF WriteFails, At
  <2>2. thread'[u].job = L.job /\ thread'[u].since = L.since /\ thread'[u].pc = "clear"
    BY <1>12, MovesOn DEF WriteFails
  <2> QED BY <1>2, <2>1, <2>2
<1>13. CASE Clear(u) /\ ~Tick
  <2>1. L.pc = "clear"
    BY <1>13 DEF Clear, At
  <2>2. /\ thread'[u].job = L.job /\ thread'[u].port = L.port /\ thread'[u].since = L.since
        /\ thread'[u].pc = "clearTs"
    BY <1>13, MovesOn DEF Clear
  <2> QED BY <1>2, <1>4, <1>13, <2>1, <2>2
<1>14. CASE ClearTs(u) /\ ~Goto(u, Rest) /\ ~Tick
  <2>1. L.pc = "clearTs"
    BY <1>14 DEF ClearTs, At
  <2>2. /\ thread'[u].job = L.job /\ thread'[u].port = L.port /\ thread'[u].since = L.since
        /\ \/ thread'[u].pc = "loop" /\ L.job = "expire"
           \/ thread'[u].pc = "ensure"
    BY <1>14, Cleared
  <2> QED BY <1>2, <1>4, <1>14, <2>1, <2>2
<1>15. CASE SoapEnsure(u) /\ ~Goto(u, Rest) /\ ~Tick
  <2>1. L.pc = "ensure"
    BY <1>15 DEF SoapEnsure, At
  <2>2. /\ thread'[u].job = L.job /\ thread'[u].port = L.port /\ thread'[u].since = L.since
        /\ thread'[u].pc = "forward"
    BY <1>15, MovesOn DEF SoapEnsure
  <2> QED BY <1>2, <1>4, <1>15, <2>1, <2>2
<1>16. SoapForward(u) => Goto(u, Rest)
  BY DEF SoapForward
<1>17. CASE u = Cleanup /\ Wake
  <2>1. [Rest EXCEPT !.job = "expire"] \in Locals
    BY RestTyped DEF Locals
  <2>2. thread'[u].job = "expire" /\ thread'[u].since = 0 /\ thread'[u].pc \in {"hit", "get"}
    BY <1>17, <2>1, Begins DEF Wake, Rest
  <2> QED BY <1>1, <2>2
<1>18. CASE u = Cleanup /\ ListMappings
  <2>1. L.pc = "loop" /\ [L EXCEPT !.job = "reconcile"] \in Locals
    BY <1>1, <1>18 DEF ListMappings, At, Locals
  <2>2. /\ thread'[u].job = "reconcile" /\ thread'[u].since = L.since
        /\ thread'[u].pc \in {"hit", "get"}
    BY <1>1, <1>18, <2>1, Begins DEF ListMappings, Locals
  <2> QED BY <1>2, <2>1, <2>2
<1>19. CASE u = Cleanup /\ (DeleteExpired \/ DeletionFails)
  <2>1. L.pc = "loop"
    BY <1>19 DEF DeleteExpired, DeletionFails, At
  <2>2. /\ thread'[u].job = L.job /\ thread'[u].since = L.since
        /\ thread'[u].pc \in {"clear", "loop"}
    BY <1>19, Deletes
  <2> QED BY <1>2, <2>1, <2>2
<1>20. CASE /\ u = Cleanup /\ L.pc \in {"beat", "connect", "query", "restore"}
            /\ \/ StartQueries \/ NextMapping \/ HeartbeatLost
               \/ QueryOk /\ ~NextMapping
  <2>1. CASE NextMapping
    <3>1. /\ thread'[u].job = L.job /\ thread'[u].since = L.since
          /\ thread'[u].port = L.port /\ thread'[u].pc = "query"
      BY <1>20, <2>1, NextOne
    <3> QED BY <1>2, <1>20, <3>1
  <2>2. CASE ~NextMapping
    <3>1. /\ thread'[u].job = L.job /\ thread'[u].since = L.since
          /\ thread'[u].port = L.port /\ thread'[u].pc \in {"connect", "query", "restore"}
      BY <1>20, <2>2, MovesOn DEF StartQueries, HeartbeatLost, QueryOk
    <3> QED BY <1>2, <1>20, <3>1
  <2> QED BY <2>1, <2>2
<1>21. u = Cleanup =>
       /\ HeartbeatOk => StartQueries /\ L.pc = "beat"
       /\ HeartbeatLost => L.pc = "beat"
       /\ ConnectOk => StartQueries /\ L.pc = "connect"
       /\ ConnectFails \/ EndQueries => Goto(u, Rest)
       /\ QueryFails => NextMapping /\ L.pc = "query"
       /\ RestoreOk \/ RestoreFails => NextMapping /\ L.pc = "restore"
       /\ QueryOk => L.pc = "query"
  BY DEF HeartbeatOk, HeartbeatLost, ConnectOk, ConnectFails, EndQueries, EndRound, QueryFails,
         QueryOk, RestoreOk, RestoreFails, At
<1> QED
  BY <1>3, <1>5, <1>6, <1>7, <1>8, <1>9, <1>10, <1>11, <1>12, <1>13, <1>14, <1>15, <1>16,
     <1>17, <1>18, <1>19, <1>20, <1>21, Movers DEF Step, Round

-----------------------------------------------------------------------------
(* When the gateway starts nobody has a list.                                *)
LEMMA InitInv == Init => IInv
<1> SUFFICES ASSUME Init PROVE IInv
  OBVIOUS
<1>1. \A t \in Threads : thread[t].pc = "idle" /\ thread[t].job = "none"
  BY DEF Init, Rest
<1>2. CacheRecent
  BY DEF Init, CacheRecent, Fresh
<1>3. CallRecent
  BY <1>1 DEF CallRecent, CallKnows, Missed
<1>4. RoundRecent
  BY <1>1, CleanupThread DEF RoundRecent, RoundKnows, InCall, HasList
<1>5. ForwardRecent
  BY <1>1 DEF ForwardRecent, WriterKnows, Resting, Written
<1> QED BY <1>2, <1>3, <1>4, <1>5, InitTyped DEF IInv

(* Every step keeps the invariant.                                           *)
LEMMA StepInv == IInv /\ [Next]_vars => IInv'
BY StepTyped, StepCache, StepCall, StepRound, StepForward DEF IInv

(* Whoever may yet bring a mapping to the IGD knows it from GOST, and its       *)
(* knowledge is bounded: the cached list (though the stamp may vouch for one    *)
(* that was answered before a deletion and stored after it), the answer a       *)
(* thread has yet to store, the list the round works off, the addition a SOAP   *)
(* handler has yet to forward.  Calls may fail, be served late, and GOST and    *)
(* the IGD may restart (UpstreamSync's IInv).                                *)
THEOREM Invariance == Spec => []IInv
BY InitInv, StepInv, PTL DEF Spec

(* The types of the mirror's state are kept by every step of the requests, of  *)
(* the cleanup thread, of GOST and of the IGD (UpstreamSync).                *)
THEOREM TypeCorrect == Spec => []TypeOK
<1>1. IInv => TypeOK
  BY DEF IInv
<1> QED BY <1>1, Invariance, PTL

(* Only a forwarded addition and a restored mapping make something appear on  *)
(* the IGD, and the port each was about.                                     *)
LEMMA Appears ==
    ASSUME TypeOK, [Next]_vars, NEW p \in Ports, p \in up', p \notin up
    PROVE  \/ \E t \in Threads : /\ SoapForward(t) /\ thread[t].job = "add"
                                 /\ thread[t].port = p
           \/ RestoreOk /\ Asked = p
<1>1. ASSUME NEW t \in Threads, SoapForward(t)
      PROVE  thread[t].job = "add" /\ thread[t].port = p
  BY <1>1 DEF SoapForward
<1>2. RestoreOk => Asked = p
  BY DEF RestoreOk
<1>3. ~IgdRestart /\ ~IgdExpires
  BY DEF IgdRestart, IgdExpires
<1>4. ASSUME NEW t \in Threads
      PROVE  \/ ReceiveRequest(t) \/ WebWrite(t) \/ ServeGet(t) \/ FailGet(t) \/ Fill(t)
             \/ Stamp(t) \/ Return(t) \/ WriteDone(t) \/ WriteFails(t) \/ Clear(t) \/ ClearTs(t)
             \/ SoapEnsure(t)
             => up' = up
  BY DEF ReceiveRequest, WebWrite, ServeGet, FailGet, Fill, Stamp, Return, WriteDone,
         WriteFails, Clear, ClearTs, SoapEnsure
<1>5. \/ Wake \/ DeleteExpired \/ DeletionFails \/ ListMappings \/ HeartbeatOk \/ HeartbeatLost
      \/ ConnectOk \/ ConnectFails \/ QueryOk \/ QueryFails \/ RestoreFails \/ EndQueries
      \/ GostRestart \/ LateWrite \/ Tick \/ UNCHANGED vars
      => up' = up
  BY DEF Wake, DeleteExpired, DeletionFails, ListMappings, HeartbeatOk, HeartbeatLost,
         ConnectOk, ConnectFails, QueryOk, QueryFails, RestoreFails, EndQueries,
         GostRestart, LateWrite, Tick, vars
<1> QED BY <1>1, <1>2, <1>3, <1>4, <1>5 DEF Next, Step, Round

(* Whatever appears on the IGD, GOST has had it less than services_cache_ttl,   *)
(* two calls of get_services and a round ago: reconcile may bring back a        *)
(* mapping that was deleted, or was never on the IGD, but not an older one.     *)
(* The two calls are the refill race of gost_client.py:241-244, the answer of   *)
(* one call stored after a deletion cleared the cache, and the stamp of         *)
(* another vouching for it.  Read and write failures, a dead cleanup thread,    *)
(* attempts served late and restarts of GOST and of the IGD are among the       *)
(* behaviours; the bounds are MaxCall on a call and MaxRound on a round or a    *)
(* request.                                                                 *)
THEOREM Freshness == Spec => NothingOldReturns
<1> DEFINE Recent == \A p \in Ports : p \in up' \ up /\ p \notin store => gone[p] < Window
<1>1. ASSUME IInv, [Next]_vars, NEW p \in Ports, p \in up', p \notin up, p \notin store
      PROVE  gone[p] < Window
  <2>1. gone[p] \in Nat
    BY <1>1, Bounds DEF IInv, TypeOK
  <2>2. ASSUME NEW t \in Threads, SoapForward(t), thread[t].job = "add", thread[t].port = p
        PROVE  gone[p] < Window
    <3>1. thread[t].pc = "forward"
      BY <2>2 DEF SoapForward, At
    <3>2. gone[p] <= thread[t].since /\ thread[t].since <= MaxRound
      BY <1>1, <2>2, <3>1 DEF IInv, ForwardRecent, WriterKnows, Written, Resting, KnownSince
    <3>3. thread[t].since \in Nat
      BY <1>1, ThreadTyped DEF IInv
    <3> QED BY <2>1, <3>2, <3>3, Bounds
  <2>3. CASE RestoreOk /\ Asked = p
    <3> DEFINE L == thread[Cleanup]
    <3>1. L.pc = "restore"
      BY <2>3 DEF RestoreOk, At
    <3>2. L.todo # {} /\ L.todo \subseteq Ports \cup Others /\ L.since \in Nat
      BY <1>1, <3>1, CleanupThread, ThreadTyped DEF IInv, RoundRecent, RoundKnows
    <3>3. p \in L.todo
      BY <2>3, <3>2, FirstAssumption DEF Asked
    <3>4. gone[p] <= TTL - 1 + 2 * MaxCall + L.since
      BY <1>1, <3>1, <3>3 DEF IInv, RoundRecent, RoundKnows, HasList, KnownSince
    <3>5. L.since <= MaxRound
      BY <1>1, <3>1, CleanupThread DEF IInv, ForwardRecent, WriterKnows, Resting
    <3> QED BY <2>1, <3>2, <3>4, <3>5, Bounds
  <2> QED BY <1>1, <2>2, <2>3, Appears DEF IInv
<1>2. ASSUME IInv, [Next]_vars PROVE [Recent]_vars
  BY <1>1, <1>2
<1> QED BY <1>2, Invariance, PTL DEF Spec, NothingOldReturns
=============================================================================
