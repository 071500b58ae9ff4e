--------------------------- MODULE DashboardProofs ---------------------------
(***************************************************************************)
(* Proofs about Dashboard: its types, and that a refresh of the only session *)
(* leaves a row per mapping, for any ports and however the threads and the   *)
(* collector interleave.                                                     *)
(***************************************************************************)
EXTENDS Dashboard, SequenceTheorems, TLAPS

(* What is left of a list when one entry is taken out is a list again. *)
LEMMA RemoveAtType ==
    ASSUME NEW S, NEW s \in Seq(S), NEW i \in 1..Len(s)
    PROVE  RemoveAt(s, i) \in Seq(S)
<1>1. Len(s) \in Nat /\ \A j \in 1..Len(s) : s[j] \in S
  BY LenProperties, ElementOfSeq
<1>2. SubSeq(s, 1, i - 1) \in Seq(S)
  <2>1. \A j \in 1..(i - 1) : s[j] \in S
    BY <1>1
  <2> QED BY <1>1, <2>1, SubSeqProperties
<1>3. SubSeq(s, i + 1, Len(s)) \in Seq(S)
  <2>1. \A j \in (i + 1)..Len(s) : s[j] \in S
    BY <1>1
  <2> QED BY <1>1, <2>1, SubSeqProperties
<1> QED BY <1>2, <1>3, ConcatProperties DEF RemoveAt

(* A new key makes the history longer by one. *)
LEMMA AddKeyType ==
    ASSUME TypeOK, NEW list, AddKey(list)
    PROVE  hist' \in Seq(Ports \cup {Total}) /\ Len(hist') = Len(hist) + 1
<1>1. PICK k \in Ports \cup {Total} : hist' = Append(hist, k)
  BY DEF AddKey
<1>2. hist \in Seq(Ports \cup {Total})
  BY DEF TypeOK
<1> QED BY <1>1, <1>2, AppendProperties

LEMMA InitType == Init => TypeOK
<1> SUFFICES ASSUME Init PROVE TypeOK
  OBVIOUS
<1>1. <<>> \in Seq(Ports) /\ <<>> \in Seq(Ports \cup {Total}) /\ Len(<<>>) = 0
  BY EmptySeq
<1>2. NoSession \in Page /\ NoSession.rows = <<>> /\ NoSession.sent = 0
  BY <1>1 DEF NoSession, Page
<1>3. NoRefresh \in Refresh
  BY <1>1 DEF NoRefresh, Refresh
<1> QED BY <1>1, <1>2, <1>3 DEF Init, TypeOK

LEMMA OthersType ==
    ASSUME TypeOK, GostChanges \/ Collect \/ CollectFails \/ CollectorRecords
    PROVE  TypeOK'
<1> USE DEF TypeOK
<1>0. <<>> \in Seq(Ports)
  BY EmptySeq
<1>1. CASE GostChanges
  <2>1. ASSUME NEW p \in Ports, gost' = Append(gost, p)
        PROVE  gost' \in Seq(Ports)
    BY <2>1, AppendProperties
  <2>2. ASSUME NEW i \in 1..Len(gost), gost' = RemoveAt(gost, i)
        PROVE  gost' \in Seq(Ports)
    BY <2>2, RemoveAtType
  <2> QED BY <1>1, <2>1, <2>2 DEF GostChanges
<1>2. CASE Collect
  BY <1>2 DEF Collect
<1>3. CASE CollectFails
  BY <1>3, <1>0 DEF CollectFails
<1>4. CASE CollectorRecords
  <2>1. CASE UNCHANGED hist
    BY <1>4, <2>1 DEF CollectorRecords
  <2>2. CASE AddKey(recorder) /\ UNCHANGED recorder
    <3>1. hist' \in Seq(Ports \cup {Total}) /\ Len(hist') = Len(hist) + 1
      BY <2>2, AddKeyType
    <3>2. Len(hist) \in Nat
      BY LenProperties
    <3>3. \A s \in Sessions : session'[s].sent <= Len(hist')
      BY <1>4, <3>1, <3>2 DEF CollectorRecords, Page
    <3> QED BY <1>4, <2>2, <3>1, <3>3 DEF CollectorRecords
  <2> QED BY <1>4, <2>1, <2>2 DEF CollectorRecords
<1> QED BY <1>1, <1>2, <1>3, <1>4

(* What a step that changes one page has to show. *)
PagesOK ==
    /\ session \in [Sessions -> Page]
    /\ \A s \in Sessions : session[s].sent <= Len(hist)
    /\ \A s \in Sessions : session[s].life \notin {"data", "open", "broken"}
                               => session[s].rows = <<>>

LEMMA PageStep ==
    ASSUME TypeOK, hist' = hist, NEW s \in Sessions, NEW p \in Page,
           session' = [session EXCEPT ![s] = p],
           p.sent <= Len(hist),
           p.life \notin {"data", "open", "broken"} => p.rows = <<>>
    PROVE  PagesOK'
BY DEF TypeOK, PagesOK

LEMMA OpenType ==
    ASSUME TypeOK, NEW s \in Sessions, Open(s) \/ ClosePage(s)
    PROVE  TypeOK'
<1> USE DEF TypeOK
<1>0. /\ <<>> \in Seq(Ports)
      /\ Len(hist) \in Nat /\ 0 <= Len(hist) /\ Len(hist) <= Len(hist)
      /\ Len(session[s].list) \in Nat
  BY EmptySeq, LenProperties DEF Page
<1>1. CASE OpenPage(s)
  BY <1>1, <1>0 DEF OpenPage, Page
<1>2. CASE OpenRecords(s)
  <2>1. CASE AddKey(session[s].list) /\ UNCHANGED session
    <3>1. hist' \in Seq(Ports \cup {Total}) /\ Len(hist') = Len(hist) + 1
      BY <2>1, AddKeyType
    <3>2. \A t \in Sessions : session'[t].sent <= Len(hist')
      BY <2>1, <3>1, <1>0 DEF Page
    <3> QED BY <1>2, <2>1, <3>1, <3>2 DEF OpenRecords
  <2>2. CASE UNCHANGED hist /\ session' = [session EXCEPT ![s].life = "count"]
    BY <1>2, <2>2 DEF OpenRecords, Page
  <2> QED BY <1>2, <2>1, <2>2 DEF OpenRecords
<1>3. CASE OpenCount(s)
  BY <1>3, <1>0 DEF OpenCount, Page
<1>4. CASE OpenTable(s)
  <2> DEFINE p == [session[s] EXCEPT !.life = IF session[s].list = <<>> THEN "open" ELSE "data",
                                     !.rows = session[s].list, !.list = <<>>,
                                     !.size = Len(hist)]
  <2>1. p \in Page /\ p.sent <= Len(hist) /\ p.life \in {"data", "open"}
    BY <1>0 DEF Page
  <2>2. session' = [session EXCEPT ![s] = p] /\ hist' = hist
    BY <1>4 DEF OpenTable
  <2>3. PagesOK'
    BY <2>1, <2>2, PageStep
  <2> QED BY <1>4, <2>3 DEF OpenTable, PagesOK
<1>5. CASE OpenData(s)
  <2>0. session[s] \in Page
    OBVIOUS
  <2>1. CASE session[s].size = Len(hist)
    <3> DEFINE p == [session[s] EXCEPT !.life = "open", !.wired = TRUE, !.sent = Len(hist)]
    <3>1. p \in Page /\ p.sent <= Len(hist) /\ p.life = "open"
      BY <2>0, <1>0 DEF Page
    <3>2. session' = [session EXCEPT ![s] = p] /\ hist' = hist
      BY <1>5, <2>1 DEF OpenData
    <3> HIDE DEF p
    <3>3. PagesOK'
      BY <1>0, <3>1, <3>2, PageStep
    <3> QED BY <1>5, <3>3 DEF OpenData, PagesOK
  <2>2. CASE session[s].size # Len(hist)
    <3> DEFINE p == [session[s] EXCEPT !.life = "broken"]
    <3>1. p \in Page /\ p.sent = session[s].sent /\ p.life = "broken"
      BY <2>0 DEF Page
    <3>2. session' = [session EXCEPT ![s] = p] /\ hist' = hist
      BY <1>5, <2>2 DEF OpenData
    <3> HIDE DEF p
    <3>3. PagesOK'
      BY <1>0, <3>1, <3>2, PageStep
    <3> QED BY <1>5, <3>3 DEF OpenData, PagesOK
  <2> QED BY <2>1, <2>2
<1>6. CASE ClosePage(s)
  <2> DEFINE p == [NoSession EXCEPT !.life = "closed"]
  <2>1. p \in Page /\ p.sent <= Len(hist) /\ p.rows = <<>>
    BY <1>0 DEF NoSession, Page
  <2>2. session' = [session EXCEPT ![s] = p] /\ hist' = hist
    BY <1>6 DEF ClosePage
  <2> HIDE DEF p
  <2>3. PagesOK'
    BY <1>0, <2>1, <2>2, PageStep
  <2> QED BY <1>6, <2>3 DEF ClosePage, PagesOK
<1> QED BY <1>1, <1>2, <1>3, <1>4, <1>5, <1>6 DEF Open

LEMMA RefreshType ==
    ASSUME TypeOK, NEW x \in Threads, BeginRefresh(x) \/ GoOn(x)
    PROVE  TypeOK'
<1> USE DEF TypeOK
<1>0. /\ <<>> \in Seq(Ports) /\ NoRefresh \in Refresh /\ Len(cached) \in Nat
      /\ Len(hist) \in Nat /\ Len(hist) <= Len(hist)
  BY EmptySeq, LenProperties DEF NoRefresh, Refresh
<1>1. Of(x) \in Sessions
  BY DEF Threads, Of
<1>2. CASE BeginRefresh(x)
  BY <1>2, <1>0 DEF BeginRefresh, Refresh, Changed
<1>3. CASE RenderTable(x)
  <2>1. PagesOK'
    <3>1. CASE session' = session
      BY <1>3, <3>1 DEF RenderTable, PagesOK
    <3>2. CASE refresh[x].changed
      <4> DEFINE p == [session[Of(x)] EXCEPT !.rows = refresh[x].list, !.wired = FALSE]
      <4>1. session[Of(x)] \in Page /\ refresh[x].list \in Seq(Ports)
        BY <1>1 DEF Refresh
      <4>2. p \in Page /\ p.sent = session[Of(x)].sent /\ p.life = session[Of(x)].life
        BY <4>1 DEF Page
      <4>3. session' = [session EXCEPT ![Of(x)] = p] /\ hist' = hist
        BY <1>3, <3>2 DEF RenderTable
      <4>4. session[Of(x)].life = "open" /\ session[Of(x)].sent <= Len(hist)
        BY <1>1, <1>3 DEF RenderTable, Live
      <4> HIDE DEF p
      <4> QED BY <1>1, <4>2, <4>3, <4>4, PageStep
    <3> QED BY <1>3, <3>1, <3>2 DEF RenderTable
  <2>2. refresh' \in [Threads -> Refresh]
    BY <1>3, <1>0 DEF RenderTable, Refresh
  <2> QED BY <1>3, <2>1, <2>2 DEF RenderTable, PagesOK
<1>4. CASE RenderEmpty(x)
  BY <1>4, <1>0, <1>1 DEF RenderEmpty, EndRefresh, Freed, Live, Page
<1>5. CASE SendData(x)
  <2> DEFINE p == [session[Of(x)] EXCEPT !.sent = Len(hist),
                                         !.wired = session[Of(x)].wired \/ refresh[x].changed]
  <2>1. p \in Page /\ p.sent <= Len(hist) /\ p.life = session[Of(x)].life
    BY <1>0, <1>1 DEF Page
  <2>2. session' = [session EXCEPT ![Of(x)] = p] /\ hist' = hist
    BY <1>5 DEF SendData
  <2>3. session[Of(x)].life = "open"
    BY <1>5 DEF SendData, Live
  <2> HIDE DEF p
  <2>4. PagesOK'
    BY <1>0, <1>1, <2>1, <2>2, <2>3, PageStep
  <2> QED BY <1>5, <1>0, <2>4 DEF SendData, EndRefresh, Freed, PagesOK
<1>6. CASE RefreshFails(x)
  BY <1>6, <1>0 DEF RefreshFails, EndRefresh, Freed
<1> QED BY <1>2, <1>3, <1>4, <1>5, <1>6 DEF GoOn

LEMMA NextType == TypeOK /\ [Next]_vars => TypeOK'
<1> SUFFICES ASSUME TypeOK, [Next]_vars PROVE TypeOK'
  OBVIOUS
<1>1. CASE UNCHANGED vars
  BY <1>1 DEF vars, TypeOK
<1>2. CASE Next
  BY <1>2, OthersType, OpenType, RefreshType DEF Next
<1> QED BY <1>1, <1>2

(* Type correctness, for any ports and sessions. *)
THEOREM TypeCorrect == Spec => []TypeOK
BY InitType, NextType, PTL DEF Spec

-----------------------------------------------------------------------------
LEMMA InitSafe == Init => IInv
<1> SUFFICES ASSUME Init PROVE IInv
  OBVIOUS
<1>1. \A s \in Sessions : session[s].life = "new"
  BY DEF Init, NoSession
<1>2. \A x \in Threads : refresh[x].pc = "idle" /\ lock # x
  BY NoneAssumption DEF Init, NoRefresh, Threads
<1> QED BY InitType, <1>1, <1>2 DEF IInv, Locked, Counted, CountedRefresh

(* The lock is held by the thread that refreshes, and by none else. *)
LEMMA LockStep ==
    ASSUME TypeOK, Locked, [Next]_vars
    PROVE  Locked'
<1> USE DEF Locked, TypeOK
<1>0. None \notin Threads
  BY NoneAssumption DEF Threads
<1>1. CASE UNCHANGED <<lock, session, refresh>>
  BY <1>1
<1>2. ASSUME NEW s \in Sessions, Open(s) \/ ClosePage(s)
      PROVE  Locked'
  <2>1. UNCHANGED <<lock, refresh>>
    BY <1>2 DEF Open, OpenPage, OpenRecords, OpenCount, OpenTable, OpenData, ClosePage
  <2>2. \A t \in Sessions : session[t].life \in {"open", "closed"}
                                => session'[t].life \in {"open", "closed"}
    BY <1>2 DEF Open, OpenPage, OpenRecords, OpenCount, OpenTable, OpenData, ClosePage,
                NoSession, Page
  <2>3. \A x \in Threads : Of(x) \in Sessions
    BY DEF Threads, Of
  <2> QED BY <2>1, <2>2, <2>3
<1>3. ASSUME NEW x \in Threads, BeginRefresh(x)
      PROVE  Locked'
  BY <1>3, <1>0 DEF BeginRefresh
<1>4. ASSUME NEW x \in Threads, RenderTable(x)
      PROVE  Locked'
  <2>1. UNCHANGED lock /\ refresh[x].pc = "table" /\ refresh'[x].pc = "data"
    BY <1>4 DEF RenderTable, Refresh
  <2>2. \A y \in Threads \ {x} : refresh'[y] = refresh[y]
    BY <1>4 DEF RenderTable
  <2>3. Of(x) \in Sessions /\ \A t \in Sessions : session'[t].life = session[t].life
    BY <1>4 DEF RenderTable, Threads, Of, Page
  <2>4. \A y \in Threads : Of(y) \in Sessions
    BY DEF Threads, Of
  <2> QED BY <2>1, <2>2, <2>3, <2>4
<1>5. ASSUME NEW x \in Threads, RenderEmpty(x) \/ SendData(x) \/ RefreshFails(x)
      PROVE  Locked'
  <2>1. lock' = None /\ refresh[x].pc # "idle" /\ refresh' = [refresh EXCEPT ![x] = NoRefresh]
    BY <1>5 DEF RenderEmpty, SendData, RefreshFails, EndRefresh, Freed
  <2>2. \A y \in Threads : refresh'[y].pc = "idle"
    BY <2>1 DEF NoRefresh
  <2> QED BY <2>1, <2>2, <1>0
<1>6. CASE UNCHANGED vars
  BY <1>6 DEF vars
<1>7. CASE GostChanges \/ Collect \/ CollectFails \/ CollectorRecords
  BY <1>7, <1>1 DEF GostChanges, Collect, CollectFails, CollectorRecords
<1> QED BY <1>2, <1>3, <1>4, <1>5, <1>6, <1>7 DEF Next, GoOn

(* What the steps of main() leave, if no other session has been opened. *)
LEMMA OpenCounted ==
    ASSUME IInv, NEW t \in Sessions, Open(t) \/ ClosePage(t),
           NEW s \in Sessions, Alone(s)'
    PROVE  /\ Counted(s)'
           /\ \A x \in Threads : Of(x) = s => CountedRefresh(x)'
<1> USE DEF IInv, TypeOK
<1>1. session'[t].life # "new"
  <2>1. CASE OpenPage(t) \/ ClosePage(t)
    BY <2>1 DEF OpenPage, ClosePage, NoSession, Page
  <2>2. CASE OpenRecords(t)
    BY <2>2 DEF OpenRecords, Page
  <2>3. CASE OpenCount(t)
    BY <2>3 DEF OpenCount, Page
  <2>4. CASE OpenTable(t)
    BY <2>4 DEF OpenTable, Page
  <2>5. CASE OpenData(t)
    BY <2>5 DEF OpenData, Page
  <2> QED BY <2>1, <2>2, <2>3, <2>4, <2>5 DEF Open
<1>2. s = t
  BY <1>1 DEF Alone
<1>3. Alone(s) => Counted(s)
  OBVIOUS
<1>4. Alone(s)
  <2>1. \A u \in Sessions \ {t} : session'[u] = session[u]
    BY DEF Open, OpenPage, OpenRecords, OpenCount, OpenTable, OpenData, ClosePage
  <2> QED BY <1>2, <2>1 DEF Alone
<1>5. CASE session'[s].life = "closed"
  BY <1>5 DEF Counted, CountedRefresh
<1>6. CASE Open(s)
  <2>1. session[s].life \notin {"open", "closed"}
    BY <1>6 DEF Open, OpenPage, OpenRecords, OpenCount, OpenTable, OpenData
  <2>2. \A x \in Threads : Of(x) = s => refresh[x].pc = "idle"
    BY <2>1 DEF Locked
  <2>3. \A x \in Threads : Of(x) = s => CountedRefresh(x)'
    BY <1>6, <2>2 DEF CountedRefresh, Open, OpenPage, OpenRecords, OpenCount, OpenTable, OpenData
  <2>4. CASE OpenPage(s) \/ OpenRecords(s)
    <3>1. session'[s].life \in {"record", "count"}
      BY <2>4 DEF OpenPage, OpenRecords, Page
    <3> QED BY <2>3, <3>1 DEF Counted
  <2>5. CASE OpenCount(s)
    <3>1. /\ session'[s].life = "table" /\ session'[s].list = session[s].list
          /\ prevCount' = Len(session[s].list)
      BY <2>5 DEF OpenCount, Page
    <3> QED BY <2>3, <3>1 DEF Counted
  <2>6. CASE OpenTable(s)
    <3>1. /\ session'[s].life \in {"open", "data"} /\ session'[s].rows = session[s].list
          /\ prevCount' = prevCount /\ session[s].life = "table"
      BY <2>6 DEF OpenTable, Page
    <3> QED BY <1>3, <1>4, <2>3, <3>1 DEF Counted
  <2>7. CASE OpenData(s)
    <3>1. /\ session'[s].life \in {"open", "broken"} /\ session'[s].rows = session[s].rows
          /\ prevCount' = prevCount /\ session[s].life = "data"
      BY <2>7 DEF OpenData, Page
    <3> QED BY <1>3, <1>4, <2>3, <3>1 DEF Counted
  <2> QED BY <1>6, <2>4, <2>5, <2>6, <2>7 DEF Open
<1>7. CASE ClosePage(s)
  <2>1. session'[s].life = "closed"
    BY <1>7 DEF ClosePage, NoSession
  <2> QED BY <1>5, <2>1
<1> QED BY <1>2, <1>6, <1>7

(* What a refresh leaves, if no other session has been opened. *)
LEMMA RefreshCounted ==
    ASSUME IInv, NEW y \in Threads, BeginRefresh(y) \/ GoOn(y),
           NEW s \in Sessions, Alone(s)'
    PROVE  /\ Counted(s)'
           /\ \A x \in Threads : Of(x) = s => CountedRefresh(x)'
<1> USE DEF IInv, TypeOK
<1>0. None \notin Threads /\ Of(y) \in Sessions
  BY NoneAssumption DEF Threads, Of
<1>1. /\ \A t \in Sessions : session'[t].life = session[t].life
      /\ \A t \in Sessions \ {Of(y)} : session'[t] = session[t]
  <2>1. CASE session' = session
    BY <2>1
  <2>2. CASE RenderTable(y)
    BY <1>0, <2>2 DEF RenderTable, Page
  <2>3. CASE RenderEmpty(y)
    BY <1>0, <2>3 DEF RenderEmpty, Page
  <2>4. CASE SendData(y)
    BY <1>0, <2>4 DEF SendData, Page
  <2>5. CASE BeginRefresh(y) \/ RefreshFails(y)
    BY <2>1, <2>5 DEF BeginRefresh, RefreshFails
  <2> QED BY <2>2, <2>3, <2>4, <2>5 DEF GoOn
<1>2. session[Of(y)].life \in {"open", "closed"}
  BY DEF Locked, GoOn, BeginRefresh, RenderTable, RenderEmpty, SendData, RefreshFails
<1>3. Alone(s) /\ Of(y) = s
  BY <1>0, <1>1, <1>2 DEF Alone
<1>4. Counted(s) /\ CountedRefresh(y)
  BY <1>3
<1>5. CASE session[s].life = "closed"
  BY <1>1, <1>5 DEF Counted, CountedRefresh
<1>6. CASE session[s].life = "open" /\ BeginRefresh(y)
  <2>1. /\ lock = None /\ lock' = y /\ prevCount = Len(session[s].rows)
        /\ session' = session /\ prevCount' = Len(cached)
        /\ refresh'[y].pc = "table" /\ refresh'[y].list = cached
        /\ refresh'[y].changed = (Len(cached) # prevCount)
    BY <1>4, <1>6 DEF BeginRefresh, Counted, Changed
  <2>2. \A x \in Threads \ {y} : refresh'[x].pc = "idle"
    BY <1>0, <2>1, <1>6 DEF BeginRefresh, Locked
  <2> QED BY <1>0, <1>6, <2>1, <2>2 DEF Counted, CountedRefresh
<1>7. CASE session[s].life = "open" /\ RenderTable(y)
  <2>1. /\ lock = y /\ lock' = y /\ prevCount' = prevCount /\ prevCount = Len(refresh[y].list)
        /\ refresh'[y].pc = "data" /\ refresh'[y].list = refresh[y].list
    BY <1>3, <1>4, <1>7 DEF RenderTable, Locked, CountedRefresh, Refresh
  <2>2. Len(session'[s].rows) = Len(refresh[y].list)
    <3>1. CASE refresh[y].changed
      BY <1>3, <1>7, <3>1 DEF RenderTable, Page
    <3>2. CASE ~refresh[y].changed
      BY <1>3, <1>4, <1>7, <3>2 DEF RenderTable, CountedRefresh
    <3> QED BY <3>1, <3>2
  <2>3. \A x \in Threads \ {y} : refresh'[x].pc = "idle"
    BY <2>1, <1>7 DEF RenderTable, Locked
  <2> QED BY <1>0, <1>1, <1>3, <1>7, <2>1, <2>2, <2>3 DEF Counted, CountedRefresh
<1>8. CASE session[s].life = "open" /\ (RenderEmpty(y) \/ SendData(y) \/ RefreshFails(y))
  <2>1. /\ lock = y /\ prevCount' = prevCount /\ prevCount = Len(refresh[y].list)
        /\ refresh' = [refresh EXCEPT ![y] = NoRefresh]
    BY <1>3, <1>4, <1>8 DEF RenderEmpty, SendData, RefreshFails, EndRefresh, Locked, CountedRefresh
  <2>2. \A x \in Threads : refresh'[x].pc = "idle"
    BY <2>1 DEF Locked, NoRefresh
  <2>3. Len(session'[s].rows) = Len(refresh[y].list)
    <3>1. CASE RenderEmpty(y)
      BY <1>3, <3>1 DEF RenderEmpty, Page
    <3>2. CASE SendData(y)
      BY <1>3, <1>4, <1>8, <3>2 DEF SendData, CountedRefresh, Page
    <3>3. CASE RefreshFails(y)
      BY <1>3, <1>4, <1>8, <3>3 DEF RefreshFails, CountedRefresh, Live
    <3> QED BY <1>8, <3>1, <3>2, <3>3
  <2> QED BY <1>1, <1>8, <2>1, <2>2, <2>3 DEF Counted, CountedRefresh
<1> QED BY <1>2, <1>3, <1>5, <1>6, <1>7, <1>8 DEF GoOn

LEMMA NextSafe == IInv /\ [Next]_vars => IInv'
<1> SUFFICES ASSUME IInv, [Next]_vars PROVE IInv'
  OBVIOUS
<1>1. TypeOK' /\ Locked'
  BY NextType, LockStep DEF IInv
<1>2. ASSUME NEW s \in Sessions, Alone(s)'
      PROVE  Counted(s)' /\ \A x \in Threads : Of(x) = s => CountedRefresh(x)'
  <2>1. CASE UNCHANGED <<prevCount, lock, session, refresh>>
    <3>1. Alone(s)
      BY <1>2, <2>1 DEF Alone
    <3> QED BY <2>1, <3>1 DEF IInv, Counted, CountedRefresh
  <2>2. CASE GostChanges \/ Collect \/ CollectFails \/ CollectorRecords
    BY <2>1, <2>2 DEF GostChanges, Collect, CollectFails, CollectorRecords
  <2>3. CASE UNCHANGED vars
    BY <2>1, <2>3 DEF vars
  <2> QED BY <1>2, <2>2, <2>3, OpenCounted, RefreshCounted DEF Next
<1>3. \A x \in Threads : Of(x) \in Sessions
  BY DEF Threads, Of
<1> QED BY <1>1, <1>2, <1>3 DEF IInv

LEMMA Inductive == Spec => []IInv
BY InitSafe, NextSafe, PTL DEF Spec

(* After a refresh of the only session the table has a row per mapping of the *)
(* list it was made from, skipped and failed refreshes and pages that were     *)
(* closed notwithstanding, for any ports.                                     *)
THEOREM RowsComplete == Spec => RefreshShowsAll
<1> DEFINE Complete == \A x \in Threads :
               (refresh[x].pc # "idle" /\ refresh'[x].pc = "idle" /\ Alone(Of(x))
                    /\ session'[Of(x)].life = "open")
               => Len(session'[Of(x)].rows) = Len(refresh[x].list)
<1>1. IInv /\ [Next]_vars => [Complete]_vars
  <2> SUFFICES ASSUME IInv, [Next]_vars, NEW x \in Threads,
                      refresh[x].pc # "idle", refresh'[x].pc = "idle", Alone(Of(x)),
                      session'[Of(x)].life = "open"
               PROVE  Len(session'[Of(x)].rows) = Len(refresh[x].list)
    OBVIOUS
  <2> USE DEF IInv, TypeOK
  <2>1. lock = x /\ CountedRefresh(x) /\ Of(x) \in Sessions /\ x # None
    BY NoneAssumption DEF Locked, Threads, Of
  <2>2. ASSUME NEW y \in Threads, GoOn(y)
        PROVE  y = x
    BY <2>1, <2>2 DEF Locked, GoOn, RenderTable, RenderEmpty, SendData, RefreshFails
  <2>3. CASE RenderTable(x)
    BY <2>3 DEF RenderTable, Refresh
  <2>4. CASE RenderEmpty(x)
    BY <2>1, <2>4 DEF RenderEmpty, Page
  <2>5. CASE SendData(x)
    BY <2>1, <2>5 DEF SendData, CountedRefresh, Live, Page
  <2>6. CASE RefreshFails(x)
    BY <2>1, <2>6 DEF RefreshFails, CountedRefresh, Live
  <2>7. ~\E y \in Threads : BeginRefresh(y)
    BY <2>1 DEF BeginRefresh
  <2>8. CASE UNCHANGED refresh
    BY <2>8
  <2>9. ASSUME NEW s \in Sessions, Open(s) \/ ClosePage(s)
        PROVE  UNCHANGED refresh
    BY <2>9 DEF Open, OpenPage, OpenRecords, OpenCount, OpenTable, OpenData, ClosePage
  <2>10. GostChanges \/ Collect \/ CollectFails \/ CollectorRecords => UNCHANGED refresh
    BY DEF GostChanges, Collect, CollectFails, CollectorRecords
  <2>11. UNCHANGED vars => UNCHANGED refresh
    BY DEF vars
  <2> QED BY <2>2, <2>3, <2>4, <2>5, <2>6, <2>7, <2>8, <2>9, <2>10, <2>11 DEF Next, GoOn
<1>2. Spec => [][Complete]_vars
  BY <1>1, Inductive, PTL DEF Spec
<1> QED BY <1>2 DEF RefreshShowsAll

=============================================================================
