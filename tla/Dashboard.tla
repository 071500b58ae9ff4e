----------------------------- MODULE Dashboard -----------------------------
(***************************************************************************)
(* The table of mappings in the browsers, and the charts of its rows.  The    *)
(* collector leaves a list of the mappings for all sessions and records a     *)
(* history per port.  A session's refresh, run by its worker thread and by    *)
(* the callbacks of its buttons, renders the table anew if the number of      *)
(* mappings has changed, and otherwise patches the cells of the rows that     *)
(* are there; then it sends the histories.  The number seen last is one for   *)
(* all sessions, and so are the histories, a dictionary that the collector    *)
(* and opening sessions add to while others go through it.                    *)
(***************************************************************************)
EXTENDS Integers, Sequences, SequencesExt

CONSTANTS
    Ports,       \* external ports; "tcp/80" and the like as keys of the histories
    Total,       \* the key "__total__"
    None,        \* no thread, no list
    Sessions,    \* browser sessions, in the course of a behaviour
    ReadsFail    \* GOST may be unreachable for the collector

ASSUME KeysAssumption == Total \notin Ports
ASSUME NoneAssumption == None \notin Seq(Ports) \cup (Sessions \X {"worker", "callback"})

VARIABLES
    gost,       \* the mappings GOST has, in the order it lists them
    cached,     \* _cached_mappings
    recorder,   \* the list the collector is recording
    hist,       \* the keys of cs.history, in the order they were added
    prevCount,  \* _state.selection.prev_count
    lock,       \* _REFRESH_LOCK: the thread that holds it
    session,    \* per session: its life, what main() holds, and what its page has
    refresh     \* per thread: the refresh under way

vars == <<gost, cached, recorder, hist, prevCount, lock, session, refresh>>

(* The worker and the callbacks of a session, which are handled one by one. *)
Threads == Sessions \X {"worker", "callback"}
Of(x) == x[1]

(* A page: `rows` of the table, `wired` if the script that expands them has    *)
(* run, `sent` the number of keys of the history that window._portData has.   *)
NoSession == [life |-> "new", list |-> <<>>, size |-> 0,
              rows |-> <<>>, wired |-> FALSE, sent |-> 0]
NoRefresh == [pc |-> "idle", list |-> <<>>, changed |-> FALSE, size |-> 0]

Page == [life : {"new", "record", "count", "table", "data", "open", "broken", "closed"},
         list : Seq(Ports), size : Nat, rows : Seq(Ports), wired : BOOLEAN, sent : Nat]
Refresh == [pc : {"idle", "table", "data"}, list : Seq(Ports), changed : BOOLEAN, size : Nat]

TypeOK ==
    /\ gost \in Seq(Ports) /\ cached \in Seq(Ports)
    /\ recorder \in Seq(Ports) \cup {None}
    /\ hist \in Seq(Ports \cup {Total})
    /\ prevCount \in Nat
    /\ lock \in Threads \cup {None}
    /\ session \in [Sessions -> Page]
    /\ refresh \in [Threads -> Refresh]
    /\ \A s \in Sessions : session[s].sent <= Len(hist)
    /\ \A s \in Sessions : session[s].life \notin {"data", "open", "broken"}
                               => session[s].rows = <<>>

Init ==
    /\ gost = <<>>
    /\ cached = <<>>
    /\ recorder = None
    /\ hist = <<>>
    /\ prevCount = 0
    /\ lock = None
    /\ session = [s \in Sessions |-> NoSession]
    /\ refresh = [x \in Threads |-> NoRefresh]

-----------------------------------------------------------------------------
(* Any client may add a mapping, which comes last, or remove one. *)
GostChanges ==
    /\ \/ \E p \in Ports : ~Contains(gost, p) /\ gost' = Append(gost, p)
       \/ \E i \in 1..Len(gost) : gost' = RemoveAt(gost, i)
    /\ UNCHANGED <<cached, recorder, hist, prevCount, lock, session, refresh>>

(* _append, for the first key of the list that has no history yet; the total  *)
(* comes last.  What a history holds does not matter here.                    *)
NewKey(list, k) ==
    /\ ~Contains(hist, k)
    /\ \/ \E i \in 1..Len(list) :
             k = list[i] /\ \A j \in 1..(i - 1) : Contains(hist, list[j])
       \/ k = Total /\ \A i \in 1..Len(list) : Contains(hist, list[i])

(* setdefault makes a list that is there for good: keys are never removed. *)
AddKey(list) == \E k \in Ports \cup {Total} : NewKey(list, k) /\ hist' = Append(hist, k)

Recorded(list) == \A k \in ToSet(list) \cup {Total} : Contains(hist, k)

(* A round of the collector, first the list for the sessions. *)
Collect ==
    /\ recorder = None
    /\ cached' = gost /\ recorder' = gost
    /\ UNCHANGED <<gost, hist, prevCount, lock, session, refresh>>

(* A list that cannot be read is an empty one. *)
CollectFails ==
    /\ ReadsFail
    /\ recorder = None
    /\ cached' = <<>> /\ recorder' = <<>>
    /\ UNCHANGED <<gost, hist, prevCount, lock, session, refresh>>

CollectorRecords ==
    /\ recorder # None
    /\ \/ AddKey(recorder) /\ UNCHANGED recorder
       \/ Recorded(recorder) /\ recorder' = None /\ UNCHANGED hist
    /\ UNCHANGED <<gost, cached, prevCount, lock, session, refresh>>

-----------------------------------------------------------------------------
(* main(), when a browser opens the page                                    *)

(* An empty list is read anew, and left for the others. *)
OpenPage(s) ==
    /\ session[s].life = "new"
    /\ \/ cached # <<>> /\ UNCHANGED cached
       \/ cached = <<>> /\ cached' = gost
       \/ cached = <<>> /\ ReadsFail /\ UNCHANGED cached
    /\ session' = [session EXCEPT ![s].life = "record", ![s].list = cached']
    /\ UNCHANGED <<gost, recorder, hist, prevCount, lock, refresh>>

OpenRecords(s) ==
    /\ session[s].life = "record"
    /\ \/ AddKey(session[s].list) /\ UNCHANGED session
       \/ /\ Recorded(session[s].list) /\ UNCHANGED hist
          /\ session' = [session EXCEPT ![s].life = "count"]
    /\ UNCHANGED <<gost, cached, recorder, prevCount, lock, refresh>>

OpenCount(s) ==
    /\ session[s].life = "count"
    /\ prevCount' = Len(session[s].list)
    /\ session' = [session EXCEPT ![s].life = "table"]
    /\ UNCHANGED <<gost, cached, recorder, hist, lock, refresh>>

(* Without mappings there is no table, and nothing to send. *)
OpenTable(s) ==
    /\ session[s].life = "table"
    /\ session' = [session EXCEPT ![s].life = IF session[s].list = <<>> THEN "open" ELSE "data",
                                  ![s].rows = session[s].list, ![s].list = <<>>,
                                  ![s].size = Len(hist)]
    /\ UNCHANGED <<gost, cached, recorder, hist, prevCount, lock, refresh>>

(* A dictionary that grew while it was gone through raises: the page stays as  *)
(* it is, and main() ends before there is a worker.                           *)
OpenData(s) ==
    /\ session[s].life = "data"
    /\ session' = [session EXCEPT ![s] =
                     IF session[s].size = Len(hist)
                     THEN [@ EXCEPT !.life = "open", !.wired = TRUE, !.sent = Len(hist)]
                     ELSE [@ EXCEPT !.life = "broken"]]
    /\ UNCHANGED <<gost, cached, recorder, hist, prevCount, lock, refresh>>

ClosePage(s) ==
    /\ session[s].life = "open"
    /\ session' = [session EXCEPT ![s] = [NoSession EXCEPT !.life = "closed"]]
    /\ UNCHANGED <<gost, cached, recorder, hist, prevCount, lock, refresh>>

-----------------------------------------------------------------------------
(* _refresh                                                                 *)

(* Mutant of Changed: only a longer list counts. *)
Grown(list) == Len(list) > prevCount

Changed(list) == Len(list) # prevCount

(* A refresh that finds the lock taken is not made up for. *)
BeginRefresh(x) ==
    /\ session[Of(x)].life = "open" /\ refresh[x].pc = "idle"
    /\ lock = None
    /\ lock' = x
    /\ refresh' = [refresh EXCEPT ![x] = [pc |-> "table", list |-> cached,
                                          changed |-> Changed(cached), size |-> 0]]
    /\ prevCount' = Len(cached)
    /\ UNCHANGED <<gost, cached, recorder, hist, session>>

(* Mutant of Live: rows for a page that is gone. *)
AlwaysLive(x) == TRUE

(* The page is there; an operation on one that is gone raises. *)
Live(x) == session[Of(x)].life = "open"

(* Mutant of Freed: the lock is kept when cells are patched. *)
KeptByPatch(x) == IF refresh[x].changed THEN None ELSE lock

(* The `finally` of _refresh. *)
Freed(x) == None

EndRefresh(x) ==
    /\ lock' = Freed(x)
    /\ refresh' = [refresh EXCEPT ![x] = NoRefresh]

(* Patching finds its rows by the names of their check boxes and leaves them.  *)
RenderTable(x) ==
    /\ refresh[x].pc = "table" /\ Live(x)
    /\ refresh[x].list # <<>>
    /\ session' = IF refresh[x].changed
                  THEN [session EXCEPT ![Of(x)].rows = refresh[x].list, ![Of(x)].wired = FALSE]
                  ELSE session
    /\ refresh' = [refresh EXCEPT ![x].pc = "data", ![x].size = Len(hist)]
    /\ UNCHANGED <<gost, cached, recorder, hist, prevCount, lock>>

RenderEmpty(x) ==
    /\ refresh[x].pc = "table" /\ Live(x)
    /\ refresh[x].list = <<>>
    /\ session' = [session EXCEPT ![Of(x)].rows = <<>>, ![Of(x)].wired = FALSE]
    /\ EndRefresh(x)
    /\ UNCHANGED <<gost, cached, recorder, hist, prevCount>>

(* Mutant of SendData: a patched table gets no points. *)
SendWithTable(x) ==
    /\ refresh[x].pc = "data" /\ Live(x)
    /\ refresh[x].size = Len(hist)
    /\ session' = IF refresh[x].changed
                  THEN [session EXCEPT ![Of(x)].sent = Len(hist), ![Of(x)].wired = TRUE]
                  ELSE session
    /\ EndRefresh(x)
    /\ UNCHANGED <<gost, cached, recorder, hist, prevCount>>

(* A new table's script comes with its points. *)
SendData(x) ==
    /\ refresh[x].pc = "data" /\ Live(x)
    /\ refresh[x].size = Len(hist)
    /\ session' = [session EXCEPT ![Of(x)].sent = Len(hist),
                                  ![Of(x)].wired = @ \/ refresh[x].changed]
    /\ EndRefresh(x)
    /\ UNCHANGED <<gost, cached, recorder, hist, prevCount>>

(* The page has been closed, or the dictionary grew: what is left is skipped. *)
RefreshFails(x) ==
    /\ \/ refresh[x].pc # "idle" /\ ~Live(x)
       \/ refresh[x].pc = "data" /\ refresh[x].size # Len(hist)
    /\ EndRefresh(x)
    /\ UNCHANGED <<gost, cached, recorder, hist, prevCount, session>>

GoOn(x) == RenderTable(x) \/ RenderEmpty(x) \/ SendData(x) \/ RefreshFails(x)

-----------------------------------------------------------------------------
Open(s) == OpenPage(s) \/ OpenRecords(s) \/ OpenCount(s) \/ OpenTable(s) \/ OpenData(s)

Next ==
    \/ GostChanges \/ Collect \/ CollectFails \/ CollectorRecords
    \/ \E s \in Sessions : Open(s) \/ ClosePage(s)
    \/ \E x \in Threads : BeginRefresh(x) \/ GoOn(x)

Spec == Init /\ [][Next]_vars

(* The collector's rounds and the workers' go on; no button need be pressed.  *)
FairSpec ==
    /\ Spec
    /\ WF_vars(Collect) /\ WF_vars(CollectorRecords)
    /\ \A s \in Sessions : WF_vars(BeginRefresh(<<s, "worker">>))
    /\ \A x \in Threads : WF_vars(GoOn(x))

-----------------------------------------------------------------------------
(* The invariant of the proofs                                              *)

(* No other session has been opened. *)
Alone(s) == \A t \in Sessions \ {s} : session[t].life = "new"

Locked == \A x \in Threads :
    /\ refresh[x].pc # "idle" => lock = x
    /\ lock = x => refresh[x].pc # "idle" /\ session[Of(x)].life \in {"open", "closed"}

(* The number seen last is that of the rows a page has, or is about to get. *)
Counted(s) ==
    LET p == session[s]
    IN  /\ p.life = "table" => prevCount = Len(p.list)
        /\ p.life = "data" \/ (p.life = "open" /\ lock = None) => prevCount = Len(p.rows)

CountedRefresh(x) ==
    LET r == refresh[x]
    IN  r.pc # "idle" /\ session[Of(x)].life = "open" =>
            /\ prevCount = Len(r.list)
            /\ r.pc = "data" \/ ~r.changed => Len(session[Of(x)].rows) = Len(r.list)

IInv ==
    /\ TypeOK
    /\ Locked
    /\ \A s \in Sessions : Alone(s) => Counted(s)
    /\ \A x \in Threads : Alone(Of(x)) => CountedRefresh(x)

-----------------------------------------------------------------------------
(* What the script of a page shows                                          *)

(* The keys of window._portData, as Object.keys gives them. *)
PortKeys(s) == SelectSeq(SubSeq(hist, 1, session[s].sent), LAMBDA k : k # Total)

(* moveChartToDetail: the chart of the row with number i. *)
ChartShown(s, i) == PortKeys(s)[i]

-----------------------------------------------------------------------------
(* Properties                                                               *)

(* After a refresh a table has as many rows as there are mappings in the      *)
(* list it was made from (docs/webui.md: a changed number renders it anew),   *)
(* be the refresh cut short or not: so for one session, with its worker, its  *)
(* buttons and main().  A second session takes the change of the number away. *)
RefreshShowsAll ==
    [][\A x \in Threads :
           (refresh[x].pc # "idle" /\ refresh'[x].pc = "idle" /\ Alone(Of(x))
                /\ session'[Of(x)].life = "open")
           => Len(session'[Of(x)].rows) = Len(refresh[x].list)]_vars

Settles == <>[][~GostChanges /\ ~CollectFails]_vars

(* When the mappings stay as they are and can be read, an open table has one  *)
(* row for each at last: a refresh that was skipped is followed by another.   *)
(* For one session: with a second one, whose refresh takes the change of the   *)
(* shared count for itself, it is false.                                     *)
CatchesUp ==
    \A s \in Sessions :
        Settles /\ []Alone(s) => []<>(session[s].life = "open" => Len(session[s].rows) = Len(gost))

(* Then its page also has the points of every row at last, though a table may *)
(* be rendered before its ports are recorded and a refresh end in the middle   *)
(* because the dictionary grew.                                              *)
PointsArrive ==
    \A s \in Sessions :
        Settles => []<>(session[s].life = "open" =>
                            \A i \in 1..Len(session[s].rows) :
                                Contains(PortKeys(s), session[s].rows[i]))

(* What webui.md says of an expanded row, that it shows the chart of its own   *)
(* port.  (Violated.)                                                        *)
ChartOfRow ==
    \A s \in Sessions :
        \A i \in 1..Len(session[s].rows) :
            session[s].life = "open" /\ session[s].wired /\ i <= Len(PortKeys(s))
                => ChartShown(s, i) = session[s].rows[i]
=============================================================================
