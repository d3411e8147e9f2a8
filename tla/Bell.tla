-------------------------------- MODULE Bell --------------------------------
(***************************************************************************)
(* An account's notifications and the bell that shows them: a list that is *)
(* polled, pop-ups of what is new in it, and clicks that change the bell's *)
(* own copy before the server has heard of them.                           *)
(***************************************************************************)
EXTENDS Naturals, Sequences, FiniteSets

CONSTANTS
  PAGE,        \* how many notifications are listed
  MaxNotices, MaxLoads, MaxClicks,
  NotYet       \* not loaded, not read yet

ASSUME BellAssumption == {PAGE, MaxNotices, MaxLoads, MaxClicks} \subseteq Nat

VARIABLES
  notices,     \* the rows, by creation: whether each is read
  items,       \* the bell's list: [id, read]
  unreadCount,
  seenIds,     \* what the last list held, or NotYet
  toasts,      \* toasts[n]: how often n popped up
  listLoads,   \* listLoads[i]: a list request, [items, count] as far as they are read
  marks,       \* the requests to mark one notification, or all, that are on their way
  overlapped,  \* two loads were under way at once
  clicks       \* clicks and failures

bellVars == <<notices, items, unreadCount, seenIds, toasts, listLoads, marks, overlapped, clicks>>

Ids == 1..MaxNotices
Loads == 1..MaxLoads
NoLoad == [items |-> NotYet, count |-> NotYet, on |-> FALSE]
AllOfThem == 0   \* the mark of read-all

BellTypeOK ==
  /\ notices \in Seq(BOOLEAN) /\ Len(notices) <= MaxNotices
  /\ items \subseteq [id : Ids, read : BOOLEAN] /\ Cardinality(items) <= PAGE
  /\ unreadCount \in 0..MaxNotices /\ (seenIds = NotYet \/ seenIds \subseteq Ids)
  /\ toasts \in [Ids -> Nat] /\ marks \subseteq Ids \cup {AllOfThem} /\ clicks \in 0..MaxClicks

BellInit ==
  /\ notices = <<>> /\ items = {} /\ unreadCount = 0 /\ seenIds = NotYet /\ toasts = [n \in Ids |-> 0]
  /\ listLoads = [i \in Loads |-> NoLoad] /\ marks = {} /\ overlapped = FALSE /\ clicks = 0

PageOfNotices == {[id |-> n, read |-> notices[n]] : n \in {n \in DOMAIN notices : n > Len(notices) - PAGE}}
Unread == Cardinality({n \in DOMAIN notices : ~notices[n]})

-----------------------------------------------------------------------------
(* The server *)

\* create, when its write does not fail.
Notify ==
  /\ Len(notices) < MaxNotices /\ notices' = Append(notices, FALSE)
  /\ UNCHANGED <<items, unreadCount, seenIds, toasts, listLoads, marks, overlapped, clicks>>

\* A mark arrives, or is lost: nobody waits for it.
MarkRead(mark) ==
  /\ mark \in marks /\ marks' = marks \ {mark}
  /\ \/ notices' = [n \in DOMAIN notices |-> notices[n] \/ mark \in {n, AllOfThem}]
     \/ UNCHANGED notices
  /\ UNCHANGED <<items, unreadCount, seenIds, toasts, listLoads, overlapped, clicks>>

\* list: two queries at once.
ListItems(i) ==
  /\ listLoads[i].on /\ listLoads[i].items = NotYet /\ listLoads' = [listLoads EXCEPT ![i].items = PageOfNotices]
  /\ UNCHANGED <<notices, items, unreadCount, seenIds, toasts, marks, overlapped, clicks>>

ListCount(i) ==
  /\ listLoads[i].on /\ listLoads[i].count = NotYet /\ listLoads' = [listLoads EXCEPT ![i].count = Unread]
  /\ UNCHANGED <<notices, items, unreadCount, seenIds, toasts, marks, overlapped, clicks>>

-----------------------------------------------------------------------------
(* The bell *)

\* The interval does not wait for the load before.
Load(i) ==
  /\ ~listLoads[i].on /\ (\A j \in Loads : j < i => listLoads[j].on)
  /\ listLoads' = [listLoads EXCEPT ![i].on = TRUE]
  /\ overlapped' = (overlapped \/ \E j \in Loads : listLoads[j].on)
  /\ UNCHANGED <<notices, items, unreadCount, seenIds, toasts, marks, clicks>>

IdsOf(list) == {n.id : n \in list}
PopsUp(list) == IF seenIds = NotYet THEN {} ELSE IdsOf({n \in list : ~n.read}) \ seenIds

\* The count is the server's; the mutant counts the page.
CountOfPage(load) == Cardinality({n \in load.items : ~n.read})
CountShown(load) == load.count

LoadArrives(i) ==
  /\ listLoads[i].items # NotYet /\ listLoads[i].count # NotYet
  /\ toasts' = [n \in Ids |-> toasts[n] + IF n \in PopsUp(listLoads[i].items) THEN 1 ELSE 0]
  /\ seenIds' = IdsOf(listLoads[i].items) /\ items' = listLoads[i].items /\ unreadCount' = CountShown(listLoads[i])
  /\ listLoads' = [listLoads EXCEPT ![i] = NoLoad]
  /\ UNCHANGED <<notices, marks, overlapped, clicks>>

Click == clicks < MaxClicks /\ clicks' = clicks + 1

LoadFails(i) ==
  /\ Click /\ listLoads[i].on /\ listLoads' = [listLoads EXCEPT ![i] = NoLoad]
  /\ UNCHANGED <<notices, items, unreadCount, seenIds, toasts, marks, overlapped>>

OpenNotification(n) ==
  /\ Click /\ n \in items /\ ~n.read
  /\ items' = (items \ {n}) \cup {[n EXCEPT !.read = TRUE]}
  /\ unreadCount' = IF unreadCount = 0 THEN 0 ELSE unreadCount - 1
  /\ marks' = marks \cup {n.id}
  /\ UNCHANGED <<notices, seenIds, toasts, listLoads, overlapped>>

MarkAllRead ==
  /\ Click /\ unreadCount > 0
  /\ items' = {[n EXCEPT !.read = TRUE] : n \in items} /\ unreadCount' = 0 /\ marks' = marks \cup {AllOfThem}
  /\ UNCHANGED <<notices, seenIds, toasts, listLoads, overlapped>>

BellNext ==
  \/ Notify \/ MarkAllRead
  \/ \E mark \in marks : MarkRead(mark)
  \/ \E i \in Loads : Load(i) \/ ListItems(i) \/ ListCount(i) \/ LoadArrives(i) \/ LoadFails(i)
  \/ \E n \in items : OpenNotification(n)

-----------------------------------------------------------------------------
\* Whatever was clicked, lost or answered late, the bell ends with the server's count and
\* list; and a notification pops up at most once, unless two loads were under way at once.
BellSettles ==
  <>[](unreadCount = Unread /\ items = PageOfNotices /\ (overlapped \/ \A n \in Ids : toasts[n] <= 1))
=============================================================================
