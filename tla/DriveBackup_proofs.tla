------------------------- MODULE DriveBackup_proofs -------------------------
(***************************************************************************)
(* One upload at a time per account, for any number of files, accounts,    *)
(* requests and kicks, restarts and failed writes.  And what is in the     *)
(* store: a saved file is the recording's, a row that is done has its      *)
(* file, and Google Drive gets it once.                                    *)
(***************************************************************************)
EXTENDS DriveBackup, WellFoundedInduction, TLAPS

-----------------------------------------------------------------------------
(* The promise chains.                                                     *)

Live(d) == drain[d].pc # "idle"

Waiting(d) == drain[d].pc = "waiting"

\* The map holds the last link of each account's chain, and nobody is behind it.
LastLink ==
  \A u \in Users :
    IF queues[u] = None
    THEN \A d \in Drains : Live(d) => drain[d].user # u
    ELSE /\ Live(queues[u])
         /\ drain[queues[u]].user = u
         /\ \A d \in Drains : drain[d].after # queues[u]

\* A waiting link is behind a live link of its account, and alone behind it.
Behind ==
  \A d \in Drains :
    /\ Live(d) => drain[d].user \in Users
    /\ Waiting(d) <=> drain[d].after # None
    /\ Waiting(d) => /\ Live(drain[d].after)
                     /\ drain[drain[d].after].user = drain[d].user
                     /\ \A e \in Drains : drain[e].after = drain[d].after => e = d

\* No link is, through others, behind itself: rank counts those in front of it.
Ordered ==
  \E rank \in [Drains -> Nat] :
    \A d \in Drains : Waiting(d) => rank[drain[d].after] < rank[d]

Chains == LastLink /\ Behind /\ Ordered /\ OneAtATime

ChainType ==
  /\ queues \in [Users -> Drains \cup {None}]
  /\ drain \in [Drains -> Drain]

-----------------------------------------------------------------------------
LEMMA NoneIsNoDrain == None \notin Drains /\ None \notin Users
  BY DriveAssumption

LEMMA DrainFields ==
  ASSUME NEW c \in Drain
  PROVE  /\ c.user \in Users \cup {None}
         /\ c.after \in Drains \cup {None}
         /\ c.file \in Files \cup {None}
         /\ c.url \in Sessions \cup {None}
         /\ c.offset \in 0..Size
  BY DEF Drain

LEMMA NoDrainFields ==
  /\ NoDrain \in Drain
  /\ NoDrain.pc = "idle"
  /\ NoDrain.after = None
  BY DriveAssumption DEF NoDrain, Drain, PC, Error

LEMMA NoRowField == NoRow \in Row
  BY DriveAssumption DEF NoRow, Row, Status

LEMMA RowFields ==
  ASSUME NEW c \in Row
  PROVE  /\ c.status \in Status
         /\ c.transient \in BOOLEAN
         /\ c.attempts \in 0..MaxAttempts
         /\ c.url \in Sessions \cup {None}
  BY DEF Row

LEMMA QueuedRow ==
  ASSUME NEW c \in Row, NEW u \in Users, NEW b \in BOOLEAN
  PROVE  /\ Queued(c, u, b) \in Row
         /\ Queued(c, u, b).user = IF c.status = "none" THEN u ELSE c.user
<1>1. CASE c.status = "none"
  <2>1. Queued(c, u, b) = [status |-> "pending", user |-> u, transient |-> FALSE,
                           attempts |-> 0, url |-> None]
    BY <1>1 DEF Queued, NoRow
  <2> QED
    BY <1>1, <2>1, DriveAssumption DEF Row, Status
<1>2. CASE c.status # "none"
  <2> DEFINE k == IF b THEN 0 ELSE c.attempts
  <2>1. k \in 0..MaxAttempts
    BY RowFields, DriveAssumption
  <2>2. Queued(c, u, b) = [c EXCEPT !.status = "pending", !.transient = FALSE, !.attempts = k]
    BY <1>2 DEF Queued
  <2> HIDE DEF k
  <2> QED
    BY <1>2, <2>1, <2>2 DEF Row, Status
<1> QED
  BY <1>1, <1>2

Less == {ss \in Nat \X Nat : ss[1] < ss[2]}

LEMMA LessIsWellFounded == IsWellFoundedOn(Less, Nat)
  BY NatLessThanWellFounded, Zenon DEF OpToRel, Less

\* A set of naturals that is not empty has a least element.
LEMMA Least ==
  ASSUME NEW T \in SUBSET Nat, T # {}
  PROVE  \E x \in T : \A y \in T : ~ (y < x)
<1>1. \E x \in T : \A y \in T : ~ (<<y, x>> \in Less)
  BY WFMin, LessIsWellFounded
<1> QED
  BY <1>1 DEF Less

\* The last link of a chain that runs is alone.
LEMMA RunningLastIsAlone ==
  ASSUME ChainType, Chains, NEW u \in Users, NEW d \in Drains,
         queues[u] = d, Running(d), NEW e \in Drains, Live(e), drain[e].user = u
  PROVE  e = d
<1> SUFFICES ASSUME e # d PROVE FALSE
  OBVIOUS
<1>1. PICK rank \in [Drains -> Nat] :
        \A c \in Drains : Waiting(c) => rank[drain[c].after] < rank[c]
  BY DEF Chains, Ordered
<1> DEFINE Others == {c \in Drains : Live(c) /\ drain[c].user = u /\ c # d}
           T == {rank[c] : c \in Others}
<1>2. T \in SUBSET Nat /\ T # {}
  OBVIOUS
<1>3. PICK c \in Others : \A o \in Others : ~ (rank[o] < rank[c])
  BY <1>2, Least
<1>4. Waiting(c)
  <2>1. drain[d].user = u
    BY NoneIsNoDrain DEF Chains, LastLink
  <2>2. ~ Running(c)
    BY <1>3, <2>1 DEF Chains, OneAtATime
  <2> QED
    BY <1>3, <2>2 DEF Live, Running, Waiting
<1> DEFINE a == drain[c].after
<1>5. a \in Drains /\ Live(a) /\ drain[a].user = u
  BY <1>3, <1>4, DrainFields DEF Chains, Behind, ChainType
<1>6. a # d
  BY <1>3, NoneIsNoDrain DEF Chains, LastLink
<1>7. a \in Others
  BY <1>5, <1>6
<1> QED
  BY <1>1, <1>3, <1>4, <1>7

-----------------------------------------------------------------------------
(* What an action does to the chains.                                      *)

\* The links are where they were, each idle, waiting or running as before.
SameChains ==
  /\ ChainType'
  /\ queues' = queues
  /\ \A d \in Drains : /\ drain'[d].user = drain[d].user
                       /\ drain'[d].after = drain[d].after
                       /\ Live(d)' <=> Live(d)
                       /\ Waiting(d)' <=> Waiting(d)

LEMMA SamePreserves ==
  ASSUME ChainType, Chains, SameChains
  PROVE  Chains'
<1>1. ASSUME NEW d \in Drains PROVE Running(d)' <=> Running(d)
  BY <1>1 DEF SameChains, Live, Waiting, Running
<1>2. OneAtATime'
  BY <1>1 DEF Chains, OneAtATime, SameChains
<1>3. LastLink'
  BY NoneIsNoDrain DEF Chains, LastLink, SameChains, ChainType
<1>4. Behind'
  <2> SUFFICES ASSUME NEW d \in Drains
               PROVE  /\ Live(d)' => drain'[d].user \in Users
                      /\ Waiting(d)' <=> drain'[d].after # None
                      /\ Waiting(d)' =>
                           /\ Live(drain[d].after)'
                           /\ drain'[drain[d].after].user = drain[d].user
                           /\ \A e \in Drains : drain'[e].after = drain[d].after => e = d
    BY DEF Behind, SameChains
  <2>1. Waiting(d) => drain[d].after \in Drains
    BY DrainFields DEF Chains, Behind, ChainType
  <2> QED
    BY <2>1 DEF Chains, Behind, SameChains
<1>5. Ordered'
  <2>1. PICK rank \in [Drains -> Nat] :
          \A d \in Drains : Waiting(d) => rank[drain[d].after] < rank[d]
    BY DEF Chains, Ordered
  <2>2. \A d \in Drains : Waiting(d)' => rank[drain'[d].after] < rank[d]
    BY <2>1 DEF SameChains
  <2> QED
    BY <2>2 DEF Ordered
<1> QED
  BY <1>2, <1>3, <1>4, <1>5 DEF Chains

\* A new link behind the last one.
LEMMA KickPreserves ==
  ASSUME ChainType, Chains, NEW u \in Users, NEW d \in Drains, Kick(u, d)
  PROVE  ChainType' /\ Chains'
<1> DEFINE to == IF queues[u] = None THEN "find" ELSE "waiting"
           new == [NoDrain EXCEPT !.user = u, !.after = queues[u], !.pc = to]
<1>1. /\ new \in Drain
      /\ new.user = u
      /\ new.after = queues[u]
      /\ new.pc = to
  <2>1. to \in PC /\ queues[u] \in Drains \cup {None} /\ NoDrain \in Drain
    BY NoDrainFields DEF ChainType, PC
  <2> HIDE DEF to
  <2>2. ASSUME NEW c \in Drain
        PROVE  LET n == [c EXCEPT !.user = u, !.after = queues[u], !.pc = to]
               IN  n \in Drain /\ n.user = u /\ n.after = queues[u] /\ n.pc = to
    BY <2>1 DEF Drain
  <2> QED
    BY <2>1, <2>2
<1> HIDE DEF new
<1>2. /\ drain' = [drain EXCEPT ![d] = new]
      /\ queues' = [queues EXCEPT ![u] = d]
      /\ ~ Live(d)
      /\ drain[d].after = None
  BY NoDrainFields DEF Kick, new, Live
<1>3. ChainType'
  BY <1>1, <1>2 DEF ChainType
<1>4. /\ drain'[d] = new
      /\ \A e \in Drains \ {d} : drain'[e] = drain[e]
      /\ queues'[u] = d
      /\ \A v \in Users \ {u} : queues'[v] = queues[v]
  BY <1>2 DEF ChainType
<1>5. \A e \in Drains : drain[e].after # d
  BY <1>2, DrainFields, NoneIsNoDrain DEF Chains, Behind, ChainType
<1>6. d # None /\ d # queues[u]
  BY <1>2, NoneIsNoDrain DEF Chains, LastLink
<1>7. OneAtATime'
  <2>1. queues[u] = None => \A e \in Drains : Live(e) => drain[e].user # u
    BY DEF Chains, LastLink
  <2>2. \A e \in Drains : Running(e) => Live(e)
    BY DEF Running, Live
  <2>3. Running(d)' => queues[u] = None
    BY <1>1, <1>4 DEF Running
  <2>4. \A e \in Drains \ {d} : (Running(e)' <=> Running(e)) /\ drain'[e].user = drain[e].user
    BY <1>4 DEF Running
  <2> QED
    BY <1>1, <1>4, <2>1, <2>2, <2>3, <2>4 DEF Chains, OneAtATime
<1>8. LastLink'
  <2> SUFFICES ASSUME NEW v \in Users
               PROVE  IF queues'[v] = None
                      THEN \A e \in Drains : Live(e)' => drain'[e].user # v
                      ELSE /\ Live(queues[v])' \/ v = u
                           /\ v = u => Live(d)'
                           /\ drain'[queues'[v]].user = v
                           /\ \A e \in Drains : drain'[e].after # queues'[v]
    BY <1>4 DEF LastLink, Live
  <2>1. CASE v = u
    BY <2>1, <1>1, <1>4, <1>5, <1>6 DEF Live
  <2>2. CASE v # u /\ queues[v] = None
    BY <2>2, <1>1, <1>4 DEF Live, Chains, LastLink
  <2>3. CASE v # u /\ queues[v] # None
    <3>1. /\ queues[v] \in Drains
          /\ Live(queues[v])
          /\ drain[queues[v]].user = v
          /\ \A e \in Drains : drain[e].after # queues[v]
      BY <2>3 DEF Chains, LastLink, ChainType
    <3>2. queues[v] # d /\ (queues[u] # None => queues[u] # queues[v])
      BY <2>3, <3>1, <1>2 DEF Chains, LastLink
    <3> QED
      BY <2>3, <3>1, <3>2, <1>1, <1>4 DEF Live
  <2> QED
    BY <2>1, <2>2, <2>3
<1>9. Behind'
  <2> SUFFICES ASSUME NEW e \in Drains
               PROVE  /\ Live(e)' => drain'[e].user \in Users
                      /\ Waiting(e)' <=> drain'[e].after # None
                      /\ Waiting(e)' =>
                           /\ drain'[drain'[e].after].pc # "idle"
                           /\ drain'[drain'[e].after].user = drain'[e].user
                           /\ \A c \in Drains : drain'[c].after = drain'[e].after => c = e
    BY DEF Behind, Live
  <2>1. CASE e = d
    <3>1. queues[u] # None => /\ queues[u] \in Drains
                              /\ Live(queues[u])
                              /\ drain[queues[u]].user = u
                              /\ \A c \in Drains : drain[c].after # queues[u]
      BY DEF Chains, LastLink, ChainType
    <3>2. Live(d)' /\ (Waiting(d)' <=> queues[u] # None) /\ drain'[d].user = u
      BY <1>1, <1>4 DEF Live, Waiting
    <3>3. queues[u] # None => /\ drain'[queues[u]].pc # "idle"
                              /\ drain'[queues[u]].user = u
                              /\ \A c \in Drains \ {d} : drain'[c].after # queues[u]
      BY <3>1, <1>4, <1>6 DEF Live
    <3> QED
      BY <2>1, <3>2, <3>3, <1>1, <1>4 DEF Live
  <2>2. CASE e # d
    <3>1. /\ Live(e) => drain[e].user \in Users
          /\ Waiting(e) <=> drain[e].after # None
          /\ Waiting(e) => /\ Live(drain[e].after)
                           /\ drain[e].after \in Drains
                           /\ drain[drain[e].after].user = drain[e].user
                           /\ \A c \in Drains : drain[c].after = drain[e].after => c = e
      BY DrainFields DEF Chains, Behind, ChainType
    <3>2. Waiting(e) => drain[e].after # d /\ drain[e].after # queues[u]
      BY <1>5, <3>1 DEF Chains, LastLink
    <3> QED
      BY <2>2, <3>1, <3>2, <1>1, <1>4 DEF Live, Waiting
  <2> QED
    BY <2>1, <2>2
<1>10. Ordered'
  <2>1. PICK rank \in [Drains -> Nat] :
          \A e \in Drains : Waiting(e) => rank[drain[e].after] < rank[e]
    BY DEF Chains, Ordered
  <2> DEFINE rank2 == [rank EXCEPT ![d] = IF queues[u] = None THEN 0 ELSE rank[queues[u]] + 1]
  <2>2. rank2 \in [Drains -> Nat]
    <3>1. queues[u] # None => queues[u] \in Drains
      BY DEF ChainType
    <3> QED
      BY <3>1
  <2>3. ASSUME NEW e \in Drains, Waiting(e)' PROVE rank2[drain'[e].after] < rank2[e]
    <3>1. CASE e = d
      BY <2>3, <3>1, <1>1, <1>4, <1>6 DEF Waiting, ChainType
    <3>2. CASE e # d
      <4>1. Waiting(e) /\ drain'[e].after = drain[e].after
        BY <2>3, <3>2, <1>4 DEF Waiting
      <4>2. drain[e].after \in Drains /\ drain[e].after # d
        BY <4>1, <1>5, DrainFields DEF Chains, Behind, ChainType
      <4> QED
        BY <4>1, <4>2, <3>2, <2>1
    <3> QED
      BY <3>1, <3>2
  <2> QED
    BY <2>2, <2>3 DEF Ordered
<1> QED
  BY <1>3, <1>7, <1>8, <1>9, <1>10 DEF Chains

\* A running link ends, and the one behind it, if any, starts.
LEMMA EndPreserves ==
  ASSUME ChainType, Chains, NEW d \in Drains, Running(d), EndDrain(d)
  PROVE  ChainType' /\ Chains'
<1> DEFINE u == drain[d].user
<1>1. /\ u \in Users
      /\ Live(d)
      /\ ~ Waiting(d)
      /\ drain[d].after = None
  BY DEF Chains, Behind, Running, Live, Waiting
<1>2. ASSUME NEW e \in Drains, drain[e].after = d
      PROVE  /\ [drain[e] EXCEPT !.after = None, !.pc = "find"] \in Drain
             /\ [drain[e] EXCEPT !.after = None, !.pc = "find"].user = drain[e].user
             /\ [drain[e] EXCEPT !.after = None, !.pc = "find"].after = None
             /\ [drain[e] EXCEPT !.after = None, !.pc = "find"].pc = "find"
  <2>1. ASSUME NEW c \in Drain
        PROVE  LET n == [c EXCEPT !.after = None, !.pc = "find"]
               IN  n \in Drain /\ n.user = c.user /\ n.after = None /\ n.pc = "find"
    BY DEF Drain, PC
  <2> QED
    BY <2>1 DEF ChainType
<1>3. /\ drain'[d] = NoDrain
      /\ \A e \in Drains \ {d} :
           IF drain[e].after = d
           THEN drain'[e].user = drain[e].user /\ drain'[e].after = None /\ drain'[e].pc = "find"
           ELSE drain'[e] = drain[e]
  BY <1>2 DEF EndDrain
<1>4. ChainType'
  <2>1. drain' \in [Drains -> Drain]
    BY <1>2, NoDrainFields DEF EndDrain, ChainType
  <2>2. queues' \in [Users -> Drains \cup {None}]
    BY DEF EndDrain, ChainType
  <2> QED
    BY <2>1, <2>2 DEF ChainType
<1>5. /\ queues'[u] = IF queues[u] = d THEN None ELSE queues[u]
      /\ \A v \in Users \ {u} : queues'[v] = queues[v]
  BY <1>1 DEF EndDrain, ChainType
<1>6. ASSUME NEW e \in Drains, drain[e].after = d
      PROVE  /\ e # d
             /\ Waiting(e)
             /\ drain[e].user = u
             /\ \A c \in Drains : drain[c].after = d => c = e
  BY <1>1, <1>6, NoneIsNoDrain DEF Chains, Behind
<1>7. drain'[d].pc = "idle" /\ drain'[d].after = None
  BY <1>3, NoDrainFields
<1>8. OneAtATime'
  <2> SUFFICES ASSUME NEW e \in Drains, NEW f \in Drains, Running(e)', Running(f)',
                      drain'[e].user = drain'[f].user
               PROVE  e = f
    BY DEF OneAtATime
  <2>1. e # d /\ f # d
    BY <1>7 DEF Running
  <2>2. drain'[e].user = drain[e].user /\ drain'[f].user = drain[f].user
    BY <1>3, <2>1
  <2>3. /\ drain[e].after = d \/ Running(e)
        /\ drain[f].after = d \/ Running(f)
    BY <1>3, <2>1 DEF Running
  <2>4. \A c \in Drains : Running(c) /\ drain[c].user = u => c = d
    BY DEF Chains, OneAtATime
  <2> QED
    BY <1>6, <2>1, <2>2, <2>3, <2>4 DEF Chains, OneAtATime
<1>9. LastLink'
  <2> SUFFICES ASSUME NEW v \in Users
               PROVE  IF queues'[v] = None
                      THEN \A e \in Drains : drain'[e].pc # "idle" => drain'[e].user # v
                      ELSE /\ drain'[queues'[v]].pc # "idle"
                           /\ drain'[queues'[v]].user = v
                           /\ \A e \in Drains : drain'[e].after # queues'[v]
    BY DEF LastLink, Live
  <2>0. \A e \in Drains \ {d} : /\ drain'[e].user = drain[e].user
                                /\ drain'[e].pc # "idle" => Live(e)
                                /\ Live(e) => drain'[e].pc # "idle"
                                /\ drain'[e].after \in {drain[e].after, None}
    BY <1>3, <1>6 DEF Live, Waiting
  <2>1. CASE queues[v] = None
    <3>1. v # u /\ queues'[v] = None
      BY <2>1, <1>1, <1>5 DEF Chains, LastLink
    <3>2. \A e \in Drains : Live(e) => drain[e].user # v
      BY <2>1 DEF Chains, LastLink
    <3> QED
      BY <3>1, <3>2, <2>0, <1>7 DEF Live
  <2>2. CASE queues[v] = d
    <3>1. v = u /\ queues'[v] = None
      BY <2>2, <1>1, <1>5, NoneIsNoDrain DEF Chains, LastLink
    <3>2. \A e \in Drains : Live(e) /\ drain[e].user = u => e = d
      BY <2>2, <3>1, <1>1, RunningLastIsAlone
    <3> QED
      BY <3>1, <3>2, <2>0, <1>7 DEF Live
  <2>3. CASE queues[v] # None /\ queues[v] # d
    <3>1. queues'[v] = queues[v] /\ queues[v] \in Drains \ {d}
      BY <2>3, <1>5 DEF ChainType
    <3>2. /\ Live(queues[v])
          /\ drain[queues[v]].user = v
          /\ \A e \in Drains : drain[e].after # queues[v]
      BY <2>3 DEF Chains, LastLink
    <3> QED
      BY <2>3, <3>1, <3>2, <2>0, <1>7, NoneIsNoDrain DEF Live
  <2> QED
    BY <2>1, <2>2, <2>3
<1>10. Behind'
  <2> SUFFICES ASSUME NEW e \in Drains
               PROVE  /\ drain'[e].pc # "idle" => drain'[e].user \in Users
                      /\ drain'[e].pc = "waiting" <=> drain'[e].after # None
                      /\ drain'[e].pc = "waiting" =>
                           /\ drain'[drain'[e].after].pc # "idle"
                           /\ drain'[drain'[e].after].user = drain'[e].user
                           /\ \A c \in Drains : drain'[c].after = drain'[e].after => c = e
    BY DEF Behind, Live, Waiting
  <2>0. /\ Live(e) => drain[e].user \in Users
        /\ Waiting(e) <=> drain[e].after # None
        /\ Waiting(e) => /\ Live(drain[e].after)
                         /\ drain[e].after \in Drains
                         /\ drain[drain[e].after].user = drain[e].user
                         /\ \A c \in Drains : drain[c].after = drain[e].after => c = e
    BY DrainFields DEF Chains, Behind, ChainType
  <2>1. CASE e = d
    BY <2>1, <1>7
  <2>2. CASE e # d /\ drain[e].after = d
    BY <2>2, <1>1, <1>3, <1>6
  <2>3. CASE e # d /\ drain[e].after # d
    <3>1. drain'[e] = drain[e]
      BY <2>3, <1>3
    <3>2. CASE Waiting(e)
      <4> DEFINE a == drain[e].after
      <4>1. a \in Drains \ {d} /\ Live(a) /\ drain[a].user = drain[e].user
        BY <2>0, <2>3, <3>2
      <4>2. drain'[a].pc # "idle" /\ drain'[a].user = drain[e].user
        BY <4>1, <1>3, <1>6 DEF Live, Waiting
      <4>3. \A c \in Drains : drain'[c].after = a => c = e
        BY <4>1, <2>0, <3>2, <1>3, <1>7, NoneIsNoDrain
      <4> QED
        BY <2>0, <3>1, <3>2, <4>2, <4>3 DEF Waiting, Live
    <3>3. CASE ~ Waiting(e)
      BY <2>0, <3>1, <3>3 DEF Waiting, Live
    <3> QED
      BY <3>2, <3>3
  <2> QED
    BY <2>1, <2>2, <2>3
<1>11. Ordered'
  <2>1. PICK rank \in [Drains -> Nat] :
          \A e \in Drains : Waiting(e) => rank[drain[e].after] < rank[e]
    BY DEF Chains, Ordered
  <2>2. ASSUME NEW e \in Drains, drain'[e].pc = "waiting"
        PROVE  rank[drain'[e].after] < rank[e]
    <3>1. e # d /\ drain'[e] = drain[e]
      BY <2>2, <1>3, <1>7
    <3> QED
      BY <2>1, <2>2, <3>1 DEF Waiting
  <2> QED
    BY <2>2 DEF Ordered, Waiting
<1> QED
  BY <1>4, <1>8, <1>9, <1>10, <1>11 DEF Chains

\* No links at all, as after a start of the backend.
LEMMA NoLinks ==
  ASSUME queues = [u \in Users |-> None], drain = [d \in Drains |-> NoDrain]
  PROVE  ChainType /\ Chains
<1>1. ChainType
  BY NoDrainFields DEF ChainType
<1>2. \A d \in Drains : ~ Live(d) /\ ~ Waiting(d) /\ ~ Running(d) /\ drain[d].after = None
  BY NoDrainFields DEF Live, Waiting, Running
<1>3. Ordered
  <2>1. [d \in Drains |-> 0] \in [Drains -> Nat]
    OBVIOUS
  <2> QED
    BY <2>1, <1>2 DEF Ordered
<1> QED
  BY <1>1, <1>2, <1>3 DEF Chains, LastLink, Behind, OneAtATime

-----------------------------------------------------------------------------
(* The inductive invariant.                                                *)

Known(f) == row[f].user \in Users

\* Past its find, a link has a row that exists.
DrainWork ==
  \A d \in Drains :
    /\ drain[d].pc \notin {"idle", "waiting", "find"} => /\ drain[d].file \in Files
                                                         /\ Known(drain[d].file)
    /\ drain[d].pc = "ask" => drain[d].url \in Sessions

RowWork == \A f \in Files : row[f].status # "none" => Known(f)

AskerWork ==
  \A q \in Askers : /\ asker[q].pc # "idle" => asker[q].user \in Users
                    /\ asker[q].pc = "write" => asker[q].file \in Files

SweepWork ==
  /\ \A f \in sweep.pending \cup sweep.reset : Known(f)
  /\ sweep.pc = "write" => sweep.file \in Files /\ Known(sweep.file)

Work == DrainWork /\ RowWork /\ AskerWork /\ SweepWork

IInv == TypeOK /\ Work /\ Chains

\* Link d, which runs, goes on; the others are where they were.
Goes(d) ==
  /\ Running(d)
  /\ drain' \in [Drains -> Drain]
  /\ \A e \in Drains \ {d} : drain'[e] = drain[e]
  /\ drain'[d].user = drain[d].user
  /\ drain'[d].after = drain[d].after
  /\ drain'[d].pc \notin {"idle", "waiting"}
  /\ queues' = queues

LEMMA GoesPreserves ==
  ASSUME TypeOK, Chains, NEW d \in Drains, Goes(d)
  PROVE  Chains'
<1>1. ChainType
  BY DEF TypeOK, ChainType
<1>2. SameChains
  BY DEF TypeOK, ChainType, SameChains, Goes, Running, Live, Waiting
<1> QED
  BY <1>1, <1>2, SamePreserves

\* A link that goes on and leaves row, asker and sweep alone.
LEMMA GoesKeeps ==
  ASSUME IInv, NEW d \in Drains, Goes(d), UNCHANGED <<row, asker, sweep>>,
         drain'[d].pc # "find" => /\ drain'[d].file \in Files
                                  /\ Known(drain'[d].file),
         drain'[d].pc = "ask" => drain'[d].url \in Sessions
  PROVE  Chains' /\ Work'
<1>1. Chains'
  BY GoesPreserves DEF IInv
<1>2. RowWork' /\ AskerWork' /\ SweepWork'
  BY DEF IInv, Work, RowWork, AskerWork, SweepWork, Known
<1>3. DrainWork'
  BY DEF IInv, Work, DrainWork, Goes, Known
<1> QED
  BY <1>1, <1>2, <1>3 DEF Work

\* The links are as they were.
LEMMA StillPreserves ==
  ASSUME IInv, UNCHANGED <<drain, queues>>
  PROVE  Chains'
<1>1. ChainType /\ SameChains
  BY DEF IInv, TypeOK, ChainType, SameChains, Live, Waiting
<1> QED
  BY <1>1, SamePreserves DEF IInv

LEMMA Initially == Init => IInv
<1> SUFFICES ASSUME Init PROVE IInv
  OBVIOUS
<1>1. ChainType /\ Chains
  BY NoLinks DEF Init
<1>2. row \in [Files -> Row]
  <2>1. NoRow \in Row
    BY DriveAssumption DEF NoRow, Row, Status
  <2> QED
    BY <2>1 DEF Init
<1>3. asker \in [Askers -> Asker]
  <2>1. NoAsker \in Asker
    BY DEF NoAsker, Asker
  <2> QED
    BY <2>1 DEF Init
<1>4. sweep \in Sweep
  BY DEF Init, NoSweep, Sweep
<1>5. session \in [Sessions -> Session]
  <2>1. NoSession \in Session
    BY DriveAssumption DEF NoSession, Session
  <2> QED
    BY <2>1 DEF Init
<1>6. again \in [Files -> BOOLEAN] /\ copies \in [Files -> 0..2] /\ faults \in 0..MaxFaults
  BY DriveAssumption DEF Init
<1>7. TypeOK
  BY <1>1, <1>2, <1>3, <1>4, <1>5, <1>6 DEF TypeOK, ChainType, Init
<1>8. Work
  <2>1. DrainWork
    BY NoDrainFields DEF DrainWork, Init
  <2>2. RowWork
    BY DEF RowWork, Init, NoRow
  <2>3. AskerWork
    BY DEF AskerWork, Init, NoAsker
  <2>4. SweepWork
    BY DEF SweepWork, Init, NoSweep
  <2> QED
    BY <2>1, <2>2, <2>3, <2>4 DEF Work
<1> QED
  BY <1>1, <1>7, <1>8 DEF IInv

-----------------------------------------------------------------------------
(* queue and sweep.                                                        *)

\* What a write to the rows may do: a row that has an account keeps one.
RowsKeep ==
  /\ row' \in [Files -> Row]
  /\ \A f \in Files : /\ Known(f) => row'[f].user \in Users
                      /\ row'[f].status # "none" => row'[f].user \in Users

LEMMA RowsKeepWork ==
  ASSUME IInv, RowsKeep
  PROVE  /\ RowWork'
         /\ UNCHANGED drain => DrainWork'
         /\ UNCHANGED asker => AskerWork'
         /\ UNCHANGED sweep => SweepWork'
<1>1. \A f \in Files : Known(f) => Known(f)'
  BY DEF RowsKeep, Known
<1>2. RowWork'
  BY DEF RowsKeep, RowWork, Known
<1>3. UNCHANGED drain => DrainWork'
  BY <1>1 DEF IInv, Work, DrainWork
<1>4. UNCHANGED asker => AskerWork'
  BY DEF IInv, Work, AskerWork
<1>5. UNCHANGED sweep => SweepWork'
  <2>1. sweep.pending \cup sweep.reset \in SUBSET Files
    BY DEF IInv, TypeOK, Sweep
  <2> QED
    BY <1>1, <2>1 DEF IInv, Work, SweepWork
<1> QED
  BY <1>2, <1>3, <1>4, <1>5

LEMMA RowsStillKeep == ASSUME IInv, UNCHANGED row PROVE RowsKeep
  BY DEF IInv, TypeOK, Work, RowWork, RowsKeep, Known

\* MarkAgain's history stays a set of flags.
LEMMA MarkAgainType ==
  ASSUME again \in [Files -> BOOLEAN], NEW f \in Files, MarkAgain(f)
  PROVE  again' \in [Files -> BOOLEAN]
  BY DEF MarkAgain

LEMMA FaultType ==
  ASSUME faults \in 0..MaxFaults, Fault
  PROVE  faults' \in 0..MaxFaults
  BY DriveAssumption DEF Fault

LEMMA AskPreserves ==
  ASSUME IInv, NEW q \in Askers, NEW u \in Users, NEW manual \in BOOLEAN, Ask(q, u, manual)
  PROVE  IInv'
<1>1. PICK fs \in SUBSET Files :
        asker' = [asker EXCEPT ![q] = [NoAsker EXCEPT !.pc = "look", !.user = u,
                                                      !.manual = manual, !.todo = fs]]
  BY DEF Ask
<1> DEFINE new == [NoAsker EXCEPT !.pc = "look", !.user = u, !.manual = manual, !.todo = fs]
<1>2. new \in Asker /\ new.pc = "look" /\ new.user = u
  BY DEF NoAsker, Asker
<1> HIDE DEF new
<1>3. asker' = [asker EXCEPT ![q] = new]
  BY <1>1 DEF new
<1>4. TypeOK'
  BY <1>2, <1>3 DEF Ask, IInv, TypeOK, stores
<1>5. Work'
  <2>1. AskerWork'
    BY <1>2, <1>3 DEF IInv, TypeOK, Work, AskerWork
  <2> QED
    BY <2>1, RowsKeepWork, RowsStillKeep DEF Ask, Work
<1> QED
  BY <1>4, <1>5, StillPreserves DEF Ask, IInv

LEMMA LookPreserves ==
  ASSUME IInv, NEW q \in Askers, Look(q)
  PROVE  IInv'
<1>1. PICK f \in asker[q].todo :
        asker' = [asker EXCEPT ![q].todo = @ \ {f},
                               ![q].pc = IF LeftAlone(f, asker[q].user) THEN @ ELSE "write",
                               ![q].file = IF LeftAlone(f, asker[q].user) THEN None ELSE f]
  BY DEF Look
<1>2. /\ asker'[q] \in Asker
      /\ asker'[q].user = asker[q].user
      /\ asker'[q].pc = "write" => asker'[q].file \in Files
      /\ asker' = [asker EXCEPT ![q] = asker'[q]]
  <2>1. f \in Files /\ asker[q] \in Asker /\ asker[q].pc = "look"
    BY <1>1 DEF IInv, TypeOK, Asker, Look
  <2>2. ASSUME NEW c \in Asker, NEW pc \in {"look", "write"}, NEW g \in Files \cup {None},
               pc = "write" => g \in Files
        PROVE  LET n == [c EXCEPT !.todo = @ \ {f}, !.pc = pc, !.file = g]
               IN n \in Asker /\ n.user = c.user /\ (n.pc = "write" => n.file \in Files)
    BY <2>2 DEF Asker
  <2> DEFINE pc == IF LeftAlone(f, asker[q].user) THEN "look" ELSE "write"
             g == IF LeftAlone(f, asker[q].user) THEN None ELSE f
             new == [asker[q] EXCEPT !.todo = @ \ {f}, !.pc = pc, !.file = g]
  <2>3. new \in Asker /\ new.user = asker[q].user /\ (new.pc = "write" => new.file \in Files)
    BY <2>1, <2>2
  <2>4. asker' = [asker EXCEPT ![q] = new]
    BY <1>1, <2>1
  <2> QED
    BY <2>3, <2>4 DEF IInv, TypeOK
<1>3. TypeOK'
  BY <1>2 DEF Look, IInv, TypeOK, stores
<1>4. Work'
  <2>1. AskerWork'
    BY <1>2 DEF IInv, TypeOK, Work, AskerWork, Look
  <2> QED
    BY <2>1, RowsKeepWork, RowsStillKeep DEF Look, Work
<1> QED
  BY <1>3, <1>4, StillPreserves DEF Look, IInv

LEMMA UpsertPreserves ==
  ASSUME IInv, NEW q \in Askers, Upsert(q)
  PROVE  IInv'
<1> DEFINE f == asker[q].file
           new == Queued(row[f], asker[q].user, asker[q].manual)
<1>1. f \in Files /\ asker[q].user \in Users /\ row[f] \in Row
  BY DEF Upsert, IInv, Work, AskerWork, TypeOK
<1>2. row' = [row EXCEPT ![f] = new]
  BY DEF Upsert
<1>3. new \in Row /\ new.user \in Users
  <2>1. asker[q].manual \in BOOLEAN
    BY DEF IInv, TypeOK, Asker
  <2>2. row[f].status # "none" => row[f].user \in Users
    BY <1>1 DEF IInv, Work, RowWork, Known
  <2> QED
    BY <1>1, <2>1, <2>2, QueuedRow
<1> HIDE DEF new
<1>4. RowsKeep
  BY <1>1, <1>2, <1>3 DEF RowsKeep, IInv, TypeOK, Work, RowWork, Known
<1>5. asker' \in [Askers -> Asker] /\ AskerWork'
  <2>1. ASSUME NEW c \in Asker
        PROVE  LET n == [c EXCEPT !.pc = "look", !.file = None]
               IN  n \in Asker /\ n.pc = "look" /\ n.user = c.user
    BY DEF Asker
  <2> DEFINE m == [asker[q] EXCEPT !.pc = "look", !.file = None]
  <2>2. m \in Asker /\ m.pc = "look" /\ m.user = asker[q].user
    BY <2>1 DEF IInv, TypeOK
  <2>3. asker' = [asker EXCEPT ![q] = m]
    BY DEF Upsert
  <2> HIDE DEF m
  <2> QED
    BY <1>1, <2>2, <2>3 DEF IInv, TypeOK, Work, AskerWork
<1>6. TypeOK'
  BY <1>1, <1>4, <1>5, MarkAgainType DEF RowsKeep, Upsert, IInv, TypeOK
<1>7. Work'
  BY <1>4, <1>5, RowsKeepWork DEF Upsert, Work
<1> QED
  BY <1>6, <1>7, StillPreserves DEF Upsert, IInv

LEMMA UpsertThrowsPreserves ==
  ASSUME IInv, NEW q \in Askers, UpsertThrows(q)
  PROVE  IInv'
<1>1. NoAsker \in Asker /\ NoAsker.pc = "idle"
  BY DEF NoAsker, Asker
<1>2. asker' = [asker EXCEPT ![q] = NoAsker]
  BY DEF UpsertThrows
<1>3. asker' \in [Askers -> Asker] /\ AskerWork'
  BY <1>1, <1>2 DEF IInv, TypeOK, Work, AskerWork
<1>4. TypeOK'
  BY <1>3, FaultType DEF UpsertThrows, IInv, TypeOK, stores
<1>5. Work'
  BY <1>3, RowsKeepWork, RowsStillKeep DEF UpsertThrows, Work
<1> QED
  BY <1>4, <1>5, StillPreserves DEF UpsertThrows, IInv

\* A new link has no row yet.
LEMMA KickKeeps ==
  ASSUME IInv, NEW u \in Users, NEW d \in Drains, Kick(u, d), UNCHANGED row
  PROVE  ChainType' /\ Chains' /\ DrainWork'
<1>1. ChainType
  BY DEF IInv, TypeOK, ChainType
<1>2. ChainType' /\ Chains'
  BY <1>1, KickPreserves DEF IInv
<1>3. drain'[d].pc \in {"find", "waiting"}
  <2>1. ASSUME NEW pc \in {"find", "waiting"}
        PROVE  [NoDrain EXCEPT !.user = u, !.after = queues[u], !.pc = pc].pc = pc
    BY DEF NoDrain
  <2> QED
    BY <1>1, <2>1 DEF Kick, ChainType
<1>4. \A e \in Drains \ {d} : drain'[e] = drain[e]
  BY <1>1 DEF Kick, ChainType
<1>5. DrainWork'
  BY <1>3, <1>4 DEF IInv, Work, DrainWork, Known
<1> QED
  BY <1>2, <1>5

LEMMA QueueKickPreserves ==
  ASSUME IInv, NEW q \in Askers, NEW d \in Drains, QueueKick(q, d)
  PROVE  IInv'
<1>1. NoAsker \in Asker /\ NoAsker.pc = "idle"
  BY DEF NoAsker, Asker
<1>2. asker' = [asker EXCEPT ![q] = NoAsker]
  BY DEF QueueKick
<1>3. asker' \in [Askers -> Asker] /\ AskerWork'
  BY <1>1, <1>2 DEF IInv, TypeOK, Work, AskerWork
<1>4. asker[q].user \in Users
  BY DEF QueueKick, IInv, Work, AskerWork
<1>5. ChainType' /\ Chains' /\ DrainWork'
  BY <1>4, KickKeeps DEF QueueKick
<1>6. TypeOK'
  BY <1>3, <1>5 DEF QueueKick, ChainType, IInv, TypeOK, stores
<1>7. Work'
  BY <1>3, <1>5, RowsKeepWork, RowsStillKeep DEF QueueKick, Work
<1> QED
  BY <1>5, <1>6, <1>7 DEF IInv

\* A step of the sweep that changes nothing else.
LEMMA SweepOnly ==
  ASSUME IInv, sweep' \in Sweep, SweepWork', faults' \in 0..MaxFaults,
         UNCHANGED <<row, queues, drain, inProgress, asker, stores>>
  PROVE  IInv'
<1>1. TypeOK'
  BY DEF IInv, TypeOK, stores
<1>2. Work'
  BY RowsKeepWork, RowsStillKeep DEF Work
<1> QED
  BY <1>1, <1>2, StillPreserves DEF IInv

LEMMA NoSweepFields == /\ NoSweep \in Sweep
                       /\ NoSweep.pc = "idle"
                       /\ NoSweep.pending = {}
                       /\ NoSweep.reset = {}
  BY DEF NoSweep, Sweep

LEMMA SweepFields ==
  ASSUME NEW w \in Sweep
  PROVE  /\ w.pending \in SUBSET Files
         /\ w.reset \in SUBSET Files
         /\ w.file \in Files \cup {None}
         /\ w.users \in SUBSET Users
  BY DEF Sweep

LEMMA SweepStops ==
  ASSUME IInv, sweep' = NoSweep, faults' \in 0..MaxFaults,
         UNCHANGED <<row, queues, drain, inProgress, asker, stores>>
  PROVE  IInv'
<1>1. sweep' \in Sweep /\ SweepWork'
  BY NoSweepFields DEF SweepWork
<1> QED
  BY <1>1, SweepOnly

LEMMA SweepReadPreserves ==
  ASSUME IInv, NEW due \in SUBSET Files, SweepRead(due)
  PROVE  IInv'
<1> DEFINE pending == {f \in Files : row[f].status = "pending"}
           new == [NoSweep EXCEPT !.pc = "look", !.pending = pending, !.reset = due]
<1>1. sweep' = new
  BY DEF SweepRead
<1>2. \A f \in pending \cup due : Known(f)
  BY DEF SweepRead, Due, IInv, Work, RowWork
<1>3. pending \in SUBSET Files
  OBVIOUS
<1> HIDE DEF pending
<1>4. new \in Sweep /\ new.pc = "look" /\ new.pending = pending /\ new.reset = due
  BY <1>3 DEF NoSweep, Sweep
<1> HIDE DEF new
<1>5. sweep' \in Sweep /\ SweepWork'
  BY <1>1, <1>2, <1>4 DEF SweepWork, Known, SweepRead
<1> QED
  BY <1>5, SweepOnly DEF SweepRead, IInv, TypeOK

LEMMA SweepLookPreserves ==
  ASSUME IInv, NEW f \in Files, SweepLook(f)
  PROVE  IInv'
<1> DEFINE left == [sweep EXCEPT !.pending = @ \ {f}, !.reset = @ \ {f}]
<1>1. sweep \in Sweep /\ row[f].user \in Users
  BY DEF SweepLook, IInv, TypeOK, Work, SweepWork, Known
<1>2. /\ left \in Sweep
      /\ left.pc = "look"
      /\ left.pending \cup left.reset \subseteq sweep.pending \cup sweep.reset
      /\ left.users = sweep.users
  BY <1>1 DEF Sweep, SweepLook
<1>3. /\ [left EXCEPT !.users = @ \cup {row[f].user}] \in Sweep
      /\ [left EXCEPT !.users = @ \cup {row[f].user}].pc = "look"
      /\ [left EXCEPT !.users = @ \cup {row[f].user}].pending = left.pending
      /\ [left EXCEPT !.users = @ \cup {row[f].user}].reset = left.reset
  <2>1. ASSUME NEW w \in Sweep, NEW u \in Users
        PROVE  LET n == [w EXCEPT !.users = @ \cup {u}]
               IN  n \in Sweep /\ n.pc = w.pc /\ n.pending = w.pending /\ n.reset = w.reset
    BY DEF Sweep
  <2> HIDE DEF left
  <2> QED
    BY <1>1, <1>2, <2>1
<1>4. /\ [left EXCEPT !.pc = "write", !.file = f] \in Sweep
      /\ [left EXCEPT !.pc = "write", !.file = f].file = f
      /\ [left EXCEPT !.pc = "write", !.file = f].pending = left.pending
      /\ [left EXCEPT !.pc = "write", !.file = f].reset = left.reset
  <2> HIDE DEF left
  <2> QED
    BY <1>2 DEF Sweep
<1>5. \/ sweep' = left
      \/ sweep' = [left EXCEPT !.users = @ \cup {row[f].user}]
      \/ sweep' = [left EXCEPT !.pc = "write", !.file = f]
  BY DEF SweepLook
<1> HIDE DEF left
<1>6. \A g \in sweep.pending \cup sweep.reset : Known(g)
  BY DEF IInv, Work, SweepWork
<1>7. sweep' \in Sweep
  BY <1>2, <1>3, <1>4, <1>5
<1>8. /\ sweep'.pending = left.pending
      /\ sweep'.reset = left.reset
      /\ sweep'.pc = "write" => sweep'.file = f
  BY <1>2, <1>3, <1>4, <1>5
<1>9. SweepWork'
  BY <1>1, <1>2, <1>6, <1>8 DEF SweepWork, Known, SweepLook
<1> QED
  BY <1>7, <1>9, SweepOnly DEF SweepLook, IInv, TypeOK

LEMMA SweepWritePreserves ==
  ASSUME IInv, SweepWrite
  PROVE  IInv'
<1> DEFINE f == sweep.file
           new == [row[f] EXCEPT !.status = "pending"]
           after == [sweep EXCEPT !.pc = "look", !.file = None, !.users = @ \cup {row[f].user}]
<1>1. f \in Files /\ row[f].user \in Users /\ row[f] \in Row /\ sweep \in Sweep
  BY DEF SweepWrite, IInv, Work, SweepWork, TypeOK, Known
<1>2. new \in Row /\ new.user = row[f].user
  <2>1. ASSUME NEW c \in Row
        PROVE  LET n == [c EXCEPT !.status = "pending"] IN n \in Row /\ n.user = c.user
    BY DEF Row, Status
  <2> QED
    BY <1>1, <2>1
<1>3. row' = [row EXCEPT ![f] = new]
  BY DEF SweepWrite
<1>4. RowsKeep
  <2> HIDE DEF f, new
  <2> QED
    BY <1>1, <1>2, <1>3 DEF RowsKeep, IInv, TypeOK, Work, RowWork, Known
<1>5. /\ after \in Sweep
      /\ after.pc = "look"
      /\ after.pending = sweep.pending
      /\ after.reset = sweep.reset
  <2>1. ASSUME NEW w \in Sweep, NEW u \in Users
        PROVE  LET n == [w EXCEPT !.pc = "look", !.file = None, !.users = @ \cup {u}]
               IN  n \in Sweep /\ n.pc = "look" /\ n.pending = w.pending /\ n.reset = w.reset
    BY DEF Sweep
  <2> QED
    BY <1>1, <2>1
<1>6. sweep' = after
  BY DEF SweepWrite
<1> HIDE DEF after
<1>7. SweepWork'
  <2>1. sweep.pending \cup sweep.reset \in SUBSET Files
    BY <1>1, SweepFields
  <2> QED
    BY <1>4, <1>5, <1>6, <2>1 DEF IInv, Work, SweepWork, RowsKeep, Known
<1>8. TypeOK'
  BY <1>1, <1>4, <1>5, <1>6, MarkAgainType DEF RowsKeep, SweepWrite, IInv, TypeOK
<1>9. Work'
  BY <1>4, <1>7, RowsKeepWork DEF SweepWrite, Work
<1> QED
  BY <1>8, <1>9, StillPreserves DEF SweepWrite, IInv

LEMMA SweepKickPreserves ==
  ASSUME IInv, NEW d \in Drains, SweepKick(d)
  PROVE  IInv'
<1>1. PICK u \in sweep.users :
        /\ Kick(u, d)
        /\ sweep' = IF sweep.users = {u} THEN NoSweep
                    ELSE [sweep EXCEPT !.pc = "kick", !.users = @ \ {u}]
  BY DEF SweepKick
<1>2. sweep \in Sweep /\ u \in Users
  BY <1>1, SweepFields DEF IInv, TypeOK
<1>3. ChainType' /\ Chains' /\ DrainWork'
  BY <1>1, <1>2, KickKeeps DEF SweepKick
<1>4. sweep' \in Sweep /\ SweepWork'
  <2>1. CASE sweep.users = {u}
    BY <1>1, <2>1, NoSweepFields DEF SweepWork
  <2>2. CASE sweep.users # {u}
    <3> DEFINE new == [sweep EXCEPT !.pc = "kick", !.users = @ \ {u}]
    <3>1. /\ new \in Sweep
          /\ new.pc = "kick"
          /\ new.pending = sweep.pending
          /\ new.reset = sweep.reset
      BY <1>2 DEF Sweep
    <3>2. sweep' = new
      BY <1>1, <2>2
    <3> HIDE DEF new
    <3> QED
      BY <3>1, <3>2 DEF SweepKick, SweepWork, IInv, Work, Known
  <2> QED
    BY <2>1, <2>2
<1>5. TypeOK'
  BY <1>3, <1>4 DEF SweepKick, ChainType, IInv, TypeOK, stores
<1>6. Work'
  BY <1>3, <1>4, RowsKeepWork, RowsStillKeep DEF SweepKick, Work
<1> QED
  BY <1>3, <1>5, <1>6 DEF IInv

LEMMA SweepStepPreserves ==
  ASSUME IInv, SweepStep
  PROVE  IInv'
<1>1. CASE \E f \in Files : SweepLook(f)
  BY <1>1, SweepLookPreserves
<1>2. CASE SweepWrite
  BY <1>2, SweepWritePreserves
<1>3. CASE SweepThrows
  BY <1>3, SweepStops, FaultType DEF SweepThrows, IInv, TypeOK
<1>4. CASE SweepEnds
  BY <1>4, SweepStops DEF SweepEnds, IInv, TypeOK
<1>5. CASE \E d \in Drains : SweepKick(d)
  BY <1>5, SweepKickPreserves
<1> QED
  BY <1>1, <1>2, <1>3, <1>4, <1>5 DEF SweepStep

LEMMA AskStepPreserves ==
  ASSUME IInv, NEW q \in Askers, AskStep(q)
  PROVE  IInv'
  BY LookPreserves, UpsertPreserves, UpsertThrowsPreserves, QueueKickPreserves DEF AskStep

-----------------------------------------------------------------------------
(* drain and process.                                                      *)

\* Link d goes on as n.
LEMMA LinkGoes ==
  ASSUME IInv, NEW d \in Drains, Running(d), NEW n \in Drain,
         drain' = [drain EXCEPT ![d] = n], queues' = queues,
         n.user = drain[d].user, n.after = drain[d].after, n.pc \notin {"idle", "waiting"}
  PROVE  Goes(d) /\ drain'[d] = n
  BY DEF Goes, IInv, TypeOK

LEMMA ThrowsGoes ==
  ASSUME IInv, NEW d \in Drains, Running(d), NEW errors \in SUBSET Error, Throws(d, errors),
         queues' = queues
  PROVE  Goes(d) /\ drain'[d].pc = "failed" /\ drain'[d].file = drain[d].file
<1>1. PICK e \in errors :
        drain' = [drain EXCEPT ![d].pc = "failed", ![d].error = e, ![d].url = None,
                               ![d].offset = 0]
  BY DEF Throws
<1> DEFINE n == [drain[d] EXCEPT !.pc = "failed", !.error = e, !.url = None, !.offset = 0]
<1>2. /\ n \in Drain
      /\ n.user = drain[d].user
      /\ n.after = drain[d].after
      /\ n.pc = "failed"
      /\ n.file = drain[d].file
  <2>1. drain[d] \in Drain /\ e \in Error /\ 0 \in 0..Size
    BY DriveAssumption DEF IInv, TypeOK
  <2>2. ASSUME NEW c \in Drain, NEW o \in 0..Size
        PROVE  LET m == [c EXCEPT !.pc = "failed", !.error = e, !.url = None, !.offset = o]
               IN  /\ m \in Drain /\ m.user = c.user /\ m.after = c.after
                   /\ m.pc = "failed" /\ m.file = c.file
    BY <2>1 DEF Drain, PC
  <2> QED
    BY <2>1, <2>2
<1>3. drain' = [drain EXCEPT ![d] = n]
  BY <1>1
<1> HIDE DEF n
<1> QED
  BY <1>2, <1>3, LinkGoes

LEMMA Errors == /\ {"network", "gone", "other"} \in SUBSET Error
                /\ {"network", "other"} \in SUBSET Error
  BY DEF Error

\* A link goes on, and the rows stay.
LEMMA LinkOnly ==
  ASSUME IInv, NEW d \in Drains, Goes(d),
         inProgress' \in SUBSET Files,
         session' \in [Sessions -> Session], copies' \in [Files -> 0..2],
         faults' \in 0..MaxFaults, UNCHANGED <<store, row, asker, sweep, again>>,
         drain'[d].pc # "find" => /\ drain'[d].file \in Files
                                  /\ Known(drain'[d].file),
         drain'[d].pc = "ask" => drain'[d].url \in Sessions
  PROVE  IInv'
<1>1. TypeOK'
  BY DEF IInv, TypeOK, Goes
<1> QED
  BY <1>1, GoesKeeps DEF IInv

\* A link past its find goes on with its row, and the rows stay.
LEMMA LinkSameFile ==
  ASSUME IInv, NEW d \in Drains, Goes(d), drain[d].pc # "find",
         drain'[d].file = drain[d].file,
         session' \in [Sessions -> Session], copies' \in [Files -> 0..2],
         faults' \in 0..MaxFaults, UNCHANGED <<inProgress, store, row, asker, sweep, again>>,
         drain'[d].pc = "ask" => drain'[d].url \in Sessions
  PROVE  IInv'
<1>1. drain[d].file \in Files /\ Known(drain[d].file)
  BY DEF Goes, Running, IInv, Work, DrainWork
<1> QED
  BY <1>1, LinkOnly DEF IInv, TypeOK

\* A link past its find throws.
LEMMA LinkThrows ==
  ASSUME IInv, NEW d \in Drains, Running(d), drain[d].pc # "find",
         NEW errors \in SUBSET Error, Throws(d, errors),
         session' \in [Sessions -> Session], copies' \in [Files -> 0..2],
         faults' \in 0..MaxFaults,
         UNCHANGED <<queues, inProgress, store, row, asker, sweep, again>>
  PROVE  IInv'
  BY ThrowsGoes, LinkSameFile

\* A link past its find writes its row and goes on.
LEMMA LinkWrites ==
  ASSUME IInv, NEW d \in Drains, Goes(d), drain[d].pc # "find", RowsKeep,
         drain'[d].pc = "find" \/ drain'[d].file = drain[d].file, drain'[d].pc # "ask",
         inProgress' \in SUBSET Files, UNCHANGED <<asker, sweep, faults, stores>>
  PROVE  IInv'
<1>1. TypeOK'
  BY DEF IInv, TypeOK, Goes, RowsKeep, stores
<1>2. Chains'
  BY GoesPreserves DEF IInv
<1>3. DrainWork'
  <2>1. drain[d].file \in Files /\ Known(drain[d].file)
    BY DEF Goes, Running, IInv, Work, DrainWork
  <2>2. \A f \in Files : Known(f) => Known(f)'
    BY DEF RowsKeep, Known
  <2> QED
    BY <2>1, <2>2 DEF Goes, IInv, Work, DrainWork, Known
<1> QED
  BY <1>1, <1>2, <1>3, RowsKeepWork DEF IInv, Work

LEMMA FindPreserves ==
  ASSUME IInv, NEW d \in Drains, Find(d)
  PROVE  IInv'
<1>1. PICK f \in Pending(drain[d].user) :
        /\ drain' = [drain EXCEPT ![d].pc = "begin", ![d].file = f]
        /\ inProgress' = inProgress \cup {f}
  BY DEF Find
<1>2. f \in Files /\ Known(f)
  BY <1>1 DEF Pending, IInv, Work, RowWork
<1> DEFINE n == [drain[d] EXCEPT !.pc = "begin", !.file = f]
<1>3. /\ n \in Drain
      /\ n.user = drain[d].user
      /\ n.after = drain[d].after
      /\ n.pc = "begin"
      /\ n.file = f
  BY <1>2 DEF IInv, TypeOK, Drain, PC
<1>4. drain' = [drain EXCEPT ![d] = n]
  BY <1>1
<1> HIDE DEF n
<1>5. Goes(d) /\ drain'[d] = n
  BY <1>3, <1>4, LinkGoes DEF Find, At, Running
<1> QED
  BY <1>1, <1>2, <1>3, <1>5, LinkOnly DEF Find, IInv, TypeOK, stores

LEMMA BeginPreserves ==
  ASSUME IInv, NEW d \in Drains, Begin(d)
  PROVE  IInv'
<1> DEFINE f == drain[d].file
           k == IF row[f].attempts < MaxAttempts THEN row[f].attempts + 1 ELSE row[f].attempts
           w == [row[f] EXCEPT !.status = "uploading", !.attempts = k]
           n == [drain[d] EXCEPT !.pc = "upload", !.url = row[f].url]
<1>1. f \in Files /\ Known(f) /\ row[f] \in Row
  BY DEF Begin, At, IInv, Work, DrainWork, TypeOK
<1>2. k \in 0..MaxAttempts
  BY <1>1, RowFields, DriveAssumption
<1>3. row' = [row EXCEPT ![f] = w] /\ drain' = [drain EXCEPT ![d] = n]
  BY DEF Begin
<1> HIDE DEF k
<1>4. w \in Row /\ w.user = row[f].user
  BY <1>1, <1>2 DEF Row, Status
<1> HIDE DEF w
<1>5. RowsKeep
  BY <1>1, <1>3, <1>4 DEF RowsKeep, IInv, TypeOK, Work, RowWork, Known
<1>6. /\ n \in Drain
      /\ n.user = drain[d].user
      /\ n.after = drain[d].after
      /\ n.pc = "upload"
      /\ n.file = drain[d].file
  BY <1>1, RowFields DEF IInv, TypeOK, Drain, PC
<1> HIDE DEF n
<1>7. Goes(d) /\ drain'[d] = n
  BY <1>3, <1>6, LinkGoes DEF Begin, At, Running
<1> QED
  BY <1>5, <1>6, <1>7, LinkWrites DEF Begin, At, IInv, TypeOK

LEMMA PreparePreserves ==
  ASSUME IInv, NEW d \in Drains, Prepare(d)
  PROVE  IInv'
<1>1. Running(d) /\ drain[d].pc # "find"
  BY DEF Prepare, At, Running
<1>2. UNCHANGED <<queues, inProgress, store, row, asker, sweep, again, session, copies, faults>>
  BY DEF Prepare, stores
<1>3. session' \in [Sessions -> Session] /\ copies' \in [Files -> 0..2] /\ faults' \in 0..MaxFaults
  BY <1>2 DEF IInv, TypeOK
<1>4. CASE Throws(d, {"network", "gone", "other"})
  BY <1>1, <1>2, <1>3, <1>4, LinkThrows, Errors
<1>5. CASE drain' = [drain EXCEPT ![d].pc = IF store[drain[d].file] = "simple" THEN "send"
                                            ELSE IF drain[d].url = None THEN "open" ELSE "ask"]
  <2> DEFINE pc == IF store[drain[d].file] = "simple" THEN "send"
                   ELSE IF drain[d].url = None THEN "open" ELSE "ask"
             n == [drain[d] EXCEPT !.pc = pc]
  <2>1. pc \in {"send", "open", "ask"} /\ (pc = "ask" => drain[d].url # None)
    OBVIOUS
  <2>2. drain' = [drain EXCEPT ![d] = n]
    BY <1>5
  <2> HIDE DEF pc
  <2>3. /\ n \in Drain
        /\ n.user = drain[d].user
        /\ n.after = drain[d].after
        /\ n.file = drain[d].file
        /\ n.url = drain[d].url
        /\ n.pc = pc
    BY <2>1 DEF IInv, TypeOK, Drain, PC
  <2>4. pc = "ask" => n.url \in Sessions
    BY <2>1, <2>3, DrainFields
  <2> HIDE DEF n
  <2>5. Goes(d) /\ drain'[d] = n
    BY <1>1, <1>2, <2>1, <2>2, <2>3, LinkGoes
  <2> QED
    BY <1>1, <1>2, <1>3, <2>3, <2>4, <2>5, LinkSameFile
<1> QED
  BY <1>4, <1>5 DEF Prepare

\* A link past its find goes on with its row as n, and asks nothing.
LEMMA LinkMoves ==
  ASSUME IInv, NEW d \in Drains, Running(d), drain[d].pc # "find", NEW n \in Drain,
         n.user = drain[d].user, n.after = drain[d].after, n.file = drain[d].file,
         n.pc \notin {"idle", "waiting", "ask"}, drain' = [drain EXCEPT ![d] = n],
         session' \in [Sessions -> Session], copies' \in [Files -> 0..2],
         UNCHANGED <<queues, inProgress, store, row, asker, sweep, again, faults>>
  PROVE  IInv'
<1>1. Goes(d) /\ drain'[d] = n
  BY LinkGoes
<1> QED
  BY <1>1, LinkSameFile DEF IInv, TypeOK

\* ... with another pc only.
LEMMA LinkMovesPc ==
  ASSUME IInv, NEW d \in Drains, Running(d), drain[d].pc # "find",
         NEW pc \in PC \ {"idle", "waiting", "ask"}, drain' = [drain EXCEPT ![d].pc = pc],
         session' \in [Sessions -> Session], copies' \in [Files -> 0..2],
         UNCHANGED <<queues, inProgress, store, row, asker, sweep, again, faults>>
  PROVE  IInv'
<1> DEFINE n == [drain[d] EXCEPT !.pc = pc]
<1>1. /\ n \in Drain
      /\ n.user = drain[d].user
      /\ n.after = drain[d].after
      /\ n.file = drain[d].file
      /\ n.pc = pc
  BY DEF IInv, TypeOK, Drain
<1>2. drain' = [drain EXCEPT ![d] = n]
  OBVIOUS
<1> HIDE DEF n
<1> QED
  BY <1>1, <1>2, LinkMoves

\* ... with another pc and url.
LEMMA LinkMovesUrl ==
  ASSUME IInv, NEW d \in Drains, Running(d), drain[d].pc # "find",
         NEW pc \in PC \ {"idle", "waiting", "ask"}, NEW x \in Sessions \cup {None},
         drain' = [drain EXCEPT ![d].pc = pc, ![d].url = x],
         session' \in [Sessions -> Session], copies' \in [Files -> 0..2],
         UNCHANGED <<queues, inProgress, store, row, asker, sweep, again, faults>>
  PROVE  IInv'
<1> DEFINE n == [drain[d] EXCEPT !.pc = pc, !.url = x]
<1>1. /\ n \in Drain
      /\ n.user = drain[d].user
      /\ n.after = drain[d].after
      /\ n.file = drain[d].file
      /\ n.pc = pc
  BY DEF IInv, TypeOK, Drain
<1>2. drain' = [drain EXCEPT ![d] = n]
  OBVIOUS
<1> HIDE DEF n
<1> QED
  BY <1>1, <1>2, LinkMoves

LEMMA Pcs == /\ "open" \in PC \ {"idle", "waiting", "ask"}
             /\ "create" \in PC \ {"idle", "waiting", "ask"}
             /\ "keep" \in PC \ {"idle", "waiting", "ask"}
             /\ "send" \in PC \ {"idle", "waiting", "ask"}
             /\ "uploaded" \in PC \ {"idle", "waiting", "ask"}
  BY DEF PC

\* Whatever else such a step of the upload does, these stay.
Upload ==
  /\ session' \in [Sessions -> Session]
  /\ copies' \in [Files -> 0..2]
  /\ UNCHANGED <<queues, inProgress, store, row, asker, sweep, again, faults>>

LEMMA UploadThrows ==
  ASSUME IInv, NEW d \in Drains, Running(d), drain[d].pc # "find", Upload,
         Throws(d, {"network", "gone", "other"}) \/ Throws(d, {"network", "other"})
           \/ Throws(d, {"network"})
  PROVE  IInv'
<1>1. Throws(d, {"network", "gone", "other"})
  BY DEF Throws
<1> QED
  BY <1>1, Errors, LinkThrows DEF Upload, IInv, TypeOK

LEMMA AskStorePreserves ==
  ASSUME IInv, NEW d \in Drains, AskStore(d)
  PROVE  IInv'
<1> DEFINE s == drain[d].url
<1>1. Running(d) /\ drain[d].pc # "find" /\ s \in Sessions
  BY DEF AskStore, At, Running, IInv, Work, DrainWork
<1>2. Upload
  BY DEF Upload, AskStore, IInv, TypeOK, stores
<1>3. CASE Throws(d, {"network", "other"})
  BY <1>1, <1>2, <1>3, UploadThrows
<1>4. CASE drain' = [drain EXCEPT ![d].pc = "open", ![d].url = None]
  BY <1>1, <1>2, <1>4, Pcs, LinkMovesUrl DEF Upload
<1>5. CASE drain' = [drain EXCEPT ![d].pc = IF session[s].state = "open" THEN "open"
                                            ELSE "uploaded",
                                  ![d].offset = session[s].got]
  <2> DEFINE pc == IF session[s].state = "open" THEN "open" ELSE "uploaded"
             o == session[s].got
             n == [drain[d] EXCEPT !.pc = pc, !.offset = o]
  <2>1. pc \in {"open", "uploaded"} /\ o \in 0..Size
    BY <1>1 DEF IInv, TypeOK, Session
  <2>2. drain' = [drain EXCEPT ![d] = n]
    BY <1>5
  <2> HIDE DEF pc, o
  <2>3. /\ n \in Drain
        /\ n.user = drain[d].user
        /\ n.after = drain[d].after
        /\ n.file = drain[d].file
        /\ n.pc = pc
    BY <2>1 DEF IInv, TypeOK, Drain, PC
  <2> HIDE DEF n
  <2> QED
    BY <1>1, <1>2, <2>1, <2>2, <2>3, LinkMoves DEF Upload
<1> QED
  BY <1>3, <1>4, <1>5 DEF AskStore

LEMMA OpenZoomPreserves ==
  ASSUME IInv, NEW d \in Drains, OpenZoom(d)
  PROVE  IInv'
<1>1. Running(d) /\ drain[d].pc # "find"
  BY DEF OpenZoom, At, Running
<1>2. Upload
  BY DEF Upload, OpenZoom, IInv, TypeOK, stores
<1>3. CASE Throws(d, {"network", "gone", "other"})
  BY <1>1, <1>2, <1>3, UploadThrows
<1>4. ASSUME NEW fromStart \in BOOLEAN, NEW url,
             url = IF fromStart THEN None ELSE drain[d].url,
             drain' = [drain EXCEPT ![d].pc = IF url = None THEN "create" ELSE "send",
                                    ![d].url = url,
                                    ![d].offset = IF fromStart THEN 0 ELSE @]
      PROVE  IInv'
  <2> DEFINE pc == IF url = None THEN "create" ELSE "send"
             o == IF fromStart THEN 0 ELSE drain[d].offset
             n == [drain[d] EXCEPT !.pc = pc, !.url = url, !.offset = o]
  <2>1. drain[d] \in Drain
    BY DEF IInv, TypeOK
  <2>2. pc \in {"create", "send"} /\ url \in Sessions \cup {None} /\ o \in 0..Size
    BY <1>4, <2>1, DrainFields, DriveAssumption
  <2>3. drain' = [drain EXCEPT ![d] = n]
    BY <1>4
  <2> HIDE DEF pc, o
  <2>4. /\ n \in Drain
        /\ n.user = drain[d].user
        /\ n.after = drain[d].after
        /\ n.file = drain[d].file
        /\ n.pc = pc
    BY <2>1, <2>2 DEF Drain, PC
  <2> HIDE DEF n
  <2> QED
    BY <1>1, <1>2, <2>2, <2>3, <2>4, LinkMoves DEF Upload
<1> QED
  BY <1>3, <1>4 DEF OpenZoom

\* A session is changed into one of the same kind.
LEMMA MoreCopiesType ==
  ASSUME copies \in [Files -> 0..2], NEW f, MoreCopies(f)
  PROVE  copies' \in [Files -> 0..2]
<1>1. \A k \in 0..2 : (IF k < 2 THEN k + 1 ELSE k) \in 0..2
  OBVIOUS
<1> QED
  BY <1>1 DEF MoreCopies

LEMMA CreateSessionPreserves ==
  ASSUME IInv, NEW d \in Drains, CreateSession(d)
  PROVE  IInv'
<1>1. Running(d) /\ drain[d].pc # "find"
  BY DEF CreateSession, At, Running
<1>2. UNCHANGED <<queues, inProgress, store, row, asker, sweep, again, faults, copies>>
  BY DEF CreateSession
<1>3. copies' \in [Files -> 0..2]
  BY <1>2 DEF IInv, TypeOK
<1>4. CASE Throws(d, {"network", "other"}) /\ UNCHANGED session
  BY <1>1, <1>2, <1>3, <1>4, UploadThrows DEF Upload, IInv, TypeOK
<1>5. ASSUME NEW s \in Sessions,
             session' = [session EXCEPT ![s] = [NoSession EXCEPT !.state = "open",
                                                                 !.file = drain[d].file]],
             drain' = [drain EXCEPT ![d].pc = "keep", ![d].url = s]
      PROVE  IInv'
  <2>1. [NoSession EXCEPT !.state = "open", !.file = drain[d].file] \in Session
    <3>1. drain[d].file \in Files \cup {None}
      BY DrainFields DEF IInv, TypeOK
    <3>2. NoSession \in Session
      BY DriveAssumption DEF NoSession, Session
    <3> QED
      BY <3>1, <3>2 DEF Session
  <2>2. session' \in [Sessions -> Session]
    BY <1>5, <2>1 DEF IInv, TypeOK
  <2> QED
    BY <1>1, <1>2, <1>3, <1>5, <2>2, Pcs, LinkMovesUrl
<1> QED
  BY <1>4, <1>5 DEF CreateSession

LEMMA KeepSessionPreserves ==
  ASSUME IInv, NEW d \in Drains, KeepSession(d)
  PROVE  IInv'
<1> DEFINE f == drain[d].file
           x == drain[d].url
           w == [row[f] EXCEPT !.url = x]
           n == [drain[d] EXCEPT !.pc = "send"]
<1>1. f \in Files /\ Known(f) /\ row[f] \in Row /\ drain[d] \in Drain
  BY DEF KeepSession, At, IInv, Work, DrainWork, TypeOK
<1>2. x \in Sessions \cup {None}
  BY <1>1, DrainFields
<1>3. row' = [row EXCEPT ![f] = w] /\ drain' = [drain EXCEPT ![d] = n]
  BY DEF KeepSession
<1> HIDE DEF x
<1>4. w \in Row /\ w.user = row[f].user
  BY <1>1, <1>2 DEF Row
<1> HIDE DEF w
<1>5. RowsKeep
  BY <1>1, <1>3, <1>4 DEF RowsKeep, IInv, TypeOK, Work, RowWork, Known
<1>6. /\ n \in Drain
      /\ n.user = drain[d].user
      /\ n.after = drain[d].after
      /\ n.pc = "send"
      /\ n.file = drain[d].file
  BY <1>1 DEF Drain, PC
<1> HIDE DEF n
<1>7. Goes(d) /\ drain'[d] = n
  BY <1>3, <1>6, LinkGoes DEF KeepSession, At, Running
<1> QED
  BY <1>5, <1>6, <1>7, LinkWrites DEF KeepSession, At, IInv, TypeOK

LEMMA SendSimplePreserves ==
  ASSUME IInv, NEW d \in Drains, SendSimple(d)
  PROVE  IInv'
<1>1. Running(d) /\ drain[d].pc # "find"
  BY DEF SendSimple, At, Running
<1>2. copies' \in [Files -> 0..2]
  BY MoreCopiesType DEF SendSimple, IInv, TypeOK
<1>3. Upload
  BY <1>2 DEF Upload, SendSimple, IInv, TypeOK
<1>4. CASE drain' = [drain EXCEPT ![d].pc = "uploaded"]
  BY <1>1, <1>3, <1>4, Pcs, LinkMovesPc DEF Upload
<1>5. CASE Throws(d, {"network", "gone", "other"}) \/ Throws(d, {"network"})
  BY <1>1, <1>3, <1>5, UploadThrows
<1> QED
  BY <1>4, <1>5 DEF SendSimple

LEMMA SendBytePreserves ==
  ASSUME IInv, NEW d \in Drains, SendByte(d)
  PROVE  IInv'
<1> DEFINE s == drain[d].url
           o == drain[d].offset + 1
           n == [drain[d] EXCEPT !.offset = o]
<1>1. /\ Running(d)
      /\ drain[d].pc = "send"
      /\ drain[d] \in Drain
      /\ s \in Sessions
      /\ session[s] \in Session
  BY DrainFields DEF SendByte, At, Running, IInv, TypeOK
<1>2. copies' \in [Files -> 0..2]
  BY MoreCopiesType DEF SendByte, IInv, TypeOK
<1>3. o \in 0..Size
  BY <1>1, DrainFields, DriveAssumption DEF SendByte
<1>4. session' \in [Sessions -> Session]
  <2> DEFINE got == IF session[s].got < Size THEN session[s].got + 1 ELSE session[s].got
             exact == session[s].exact /\ session[s].got = drain[d].offset
             state == IF drain[d].offset + 1 = Size THEN "complete" ELSE session[s].state
             m == [session[s] EXCEPT !.got = got, !.exact = exact, !.state = state]
  <2>1. got \in 0..Size /\ state \in {"open", "complete"}
    BY <1>1, DriveAssumption DEF Session, SendByte
  <2>2. exact \in BOOLEAN
    OBVIOUS
  <2>3. session' = [session EXCEPT ![s] = m]
    BY DEF SendByte
  <2> HIDE DEF got, exact, state
  <2>4. m \in Session
    BY <1>1, <2>1, <2>2 DEF Session
  <2> QED
    BY <2>3, <2>4 DEF IInv, TypeOK
<1>5. drain' = [drain EXCEPT ![d] = n]
  BY DEF SendByte
<1> HIDE DEF o
<1>6. /\ n \in Drain
      /\ n.user = drain[d].user
      /\ n.after = drain[d].after
      /\ n.file = drain[d].file
      /\ n.pc = drain[d].pc
  BY <1>1, <1>3 DEF Drain
<1> HIDE DEF n
<1> QED
  BY <1>1, <1>2, <1>4, <1>5, <1>6, LinkMoves DEF SendByte

LEMMA SendEndsPreserves ==
  ASSUME IInv, NEW d \in Drains, SendEnds(d)
  PROVE  IInv'
<1>1. Running(d) /\ drain[d].pc # "find"
  BY DEF SendEnds, At, Running
<1>2. Upload
  BY DEF Upload, SendEnds, IInv, TypeOK, stores
<1> QED
  BY <1>1, <1>2, Pcs, LinkMovesPc, UploadThrows DEF SendEnds, Upload

\* The finally, after a write of the row.
LEMMA FinishPreserves ==
  ASSUME IInv, NEW d \in Drains, Running(d), drain[d].pc # "find", Finish(d), RowsKeep,
         UNCHANGED <<queues, asker, sweep, faults, stores>>
  PROVE  IInv'
<1> DEFINE n == [NoDrain EXCEPT !.pc = "find", !.user = drain[d].user]
<1>1. drain[d].user \in Users /\ drain[d].after = None
  BY DEF IInv, Chains, Behind, Running, Live, Waiting
<1>2. /\ n \in Drain
      /\ n.user = drain[d].user
      /\ n.after = None
      /\ n.pc = "find"
  <2>1. ASSUME NEW c \in Drain, NEW u \in Users
        PROVE  LET m == [c EXCEPT !.pc = "find", !.user = u]
               IN  m \in Drain /\ m.user = u /\ m.after = c.after /\ m.pc = "find"
    BY DEF Drain, PC
  <2> QED
    BY <1>1, <2>1, NoDrainFields
<1>3. drain' = [drain EXCEPT ![d] = n] /\ inProgress' \in SUBSET Files
  BY DEF Finish, IInv, TypeOK
<1> HIDE DEF n
<1>4. Goes(d) /\ drain'[d] = n
  BY <1>1, <1>2, <1>3, LinkGoes
<1> QED
  BY <1>2, <1>3, <1>4, LinkWrites

LEMMA WriteDonePreserves ==
  ASSUME IInv, NEW d \in Drains, WriteDone(d)
  PROVE  IInv'
<1> DEFINE f == drain[d].file
           w == [row[f] EXCEPT !.status = "done", !.url = None, !.transient = FALSE]
<1>1. f \in Files /\ Known(f) /\ row[f] \in Row
  BY DEF WriteDone, At, IInv, Work, DrainWork, TypeOK
<1>2. row' = [row EXCEPT ![f] = w]
  BY DEF WriteDone
<1>3. w \in Row /\ w.user = row[f].user
  BY <1>1 DEF Row, Status
<1> HIDE DEF w
<1>4. RowsKeep
  BY <1>1, <1>2, <1>3 DEF RowsKeep, IInv, TypeOK, Work, RowWork, Known
<1> QED
  BY <1>4, FinishPreserves DEF WriteDone, At, Running

LEMMA WriteFailedPreserves ==
  ASSUME IInv, NEW d \in Drains, WriteFailed(d)
  PROVE  IInv'
<1> DEFINE f == drain[d].file
           status == IF drain[d].error = "gone" THEN "skipped" ELSE "failed"
           transient == drain[d].error = "network"
           w == [row[f] EXCEPT !.status = status, !.transient = transient]
<1>1. f \in Files /\ Known(f) /\ row[f] \in Row
  BY DEF WriteFailed, At, IInv, Work, DrainWork, TypeOK
<1>2. row' = [row EXCEPT ![f] = w]
  BY DEF WriteFailed
<1>3. w \in Row /\ w.user = row[f].user
  <2>1. status \in {"skipped", "failed"} /\ transient \in BOOLEAN
    OBVIOUS
  <2> HIDE DEF status, transient
  <2> QED
    BY <1>1, <2>1 DEF Row, Status
<1> HIDE DEF w
<1>4. RowsKeep
  BY <1>1, <1>2, <1>3 DEF RowsKeep, IInv, TypeOK, Work, RowWork, Known
<1> QED
  BY <1>4, FinishPreserves DEF WriteFailed, At, Running

LEMMA ProcessStepPreserves ==
  ASSUME IInv, NEW d \in Drains, ProcessStep(d)
  PROVE  IInv'
  BY BeginPreserves, PreparePreserves, AskStorePreserves, OpenZoomPreserves,
     CreateSessionPreserves, KeepSessionPreserves, SendSimplePreserves, SendBytePreserves,
     SendEndsPreserves, WriteDonePreserves, WriteFailedPreserves
  DEF ProcessStep

\* The link that starts when another ends has no row yet.
LEMMA LinkEnds ==
  ASSUME IInv, NEW d \in Drains, Running(d), EndDrain(d), inProgress' \in SUBSET Files,
         faults' \in 0..MaxFaults, UNCHANGED <<row, asker, sweep, stores>>
  PROVE  IInv'
<1>1. ChainType' /\ Chains'
  BY EndPreserves DEF IInv, TypeOK, ChainType
<1>2. ASSUME NEW e \in Drains
      PROVE  drain'[e] = drain[e] \/ drain'[e].pc \in {"idle", "find"}
  <2>1. ASSUME NEW c \in Drain
        PROVE  [c EXCEPT !.after = None, !.pc = "find"].pc = "find"
    BY DEF Drain
  <2> QED
    BY <2>1, NoDrainFields DEF EndDrain, IInv, TypeOK
<1>3. DrainWork'
  BY <1>2 DEF IInv, Work, DrainWork, Known
<1>4. TypeOK'
  BY <1>1 DEF ChainType, IInv, TypeOK, stores
<1>5. Work'
  BY <1>3, RowsKeepWork, RowsStillKeep DEF Work
<1> QED
  BY <1>1, <1>4, <1>5 DEF IInv

LEMMA WriteThrowsPreserves ==
  ASSUME IInv, NEW d \in Drains, WriteThrows(d)
  PROVE  IInv'
<1>1. faults' \in 0..MaxFaults /\ UNCHANGED <<row, asker, sweep, stores>>
  BY FaultType DEF WriteThrows, IInv, TypeOK
<1>2. inProgress' \in SUBSET Files
  BY DEF WriteThrows, IInv, TypeOK
<1>3. CASE drain[d].pc \in {"begin", "failed"} /\ EndDrain(d)
  BY <1>1, <1>2, <1>3, LinkEnds DEF Running
<1>4. CASE /\ drain[d].pc \in {"keep", "uploaded"}
           /\ Throws(d, {"network", "other"})
           /\ UNCHANGED <<queues, inProgress>>
  BY <1>1, <1>4, LinkThrows, Errors DEF Running, stores, IInv, TypeOK
<1> QED
  BY <1>3, <1>4 DEF WriteThrows, At

LEMMA DrainStepPreserves ==
  ASSUME IInv, NEW d \in Drains, DrainStep(d)
  PROVE  IInv'
<1>1. CASE DrainEnds(d)
  BY <1>1, LinkEnds DEF DrainEnds, At, Running, IInv, TypeOK
<1> QED
  BY <1>1, FindPreserves, ProcessStepPreserves, WriteThrowsPreserves DEF DrainStep

-----------------------------------------------------------------------------
(* The stores and the host.                                                *)

LEMMA ExpirePreserves ==
  ASSUME IInv, NEW s \in Sessions, Expire(s)
  PROVE  IInv'
<1> DEFINE m == [session[s] EXCEPT !.state = "expired"]
<1>1. m \in Session
  BY DEF IInv, TypeOK, Session
<1>2. session' = [session EXCEPT ![s] = m]
  BY DEF Expire
<1> HIDE DEF m
<1>3. session' \in [Sessions -> Session]
  BY <1>1, <1>2 DEF IInv, TypeOK
<1>4. again' \in [Files -> BOOLEAN]
  BY Zenon DEF Expire, IInv, TypeOK
<1>5. TypeOK'
  BY <1>3, <1>4 DEF Expire, IInv, TypeOK
<1>6. Work'
  BY RowsKeepWork, RowsStillKeep DEF Expire, Work
<1> QED
  BY <1>5, <1>6, StillPreserves DEF Expire, IInv

Empty == queues = [u \in Users |-> None] /\ drain = [d \in Drains |-> NoDrain]

LEMMA NoLinksNext == Empty' => (ChainType /\ Chains)'
<1>1. Empty => ChainType /\ Chains
  BY NoLinks DEF Empty
<1> QED
  BY <1>1, PTL

LEMMA RestartPreserves ==
  ASSUME IInv, Restart
  PROVE  IInv'
<1>1. /\ queues' = [u \in Users |-> None]
      /\ drain' = [d \in Drains |-> NoDrain]
      /\ inProgress' = {}
      /\ asker' = [q \in Askers |-> NoAsker]
      /\ sweep' = NoSweep
      /\ UNCHANGED <<row, stores>>
      /\ faults' \in 0..MaxFaults
  BY FaultType DEF Restart, IInv, TypeOK
<1>2. (ChainType /\ Chains)'
  BY <1>1, NoLinksNext DEF Empty
<1>3. asker' \in [Askers -> Asker] /\ AskerWork'
  BY <1>1 DEF NoAsker, Asker, AskerWork
<1>4. sweep' \in Sweep /\ SweepWork'
  BY <1>1, NoSweepFields DEF SweepWork
<1>5. DrainWork'
  BY <1>1, NoDrainFields DEF DrainWork
<1>6. TypeOK'
  BY <1>1, <1>2, <1>3, <1>4 DEF ChainType, IInv, TypeOK, stores
<1>7. Work'
  BY <1>1, <1>3, <1>4, <1>5, RowsKeepWork, RowsStillKeep DEF Work
<1> QED
  BY <1>2, <1>6, <1>7 DEF IInv

LEMMA Inductive == IInv /\ [Next]_vars => IInv'
<1> SUFFICES ASSUME IInv, [Next]_vars PROVE IInv'
  OBVIOUS
<1>1. CASE UNCHANGED vars
  BY <1>1, SweepOnly DEF vars, IInv, TypeOK, Work, SweepWork, Known
<1>2. CASE Next
  BY <1>2, DrainStepPreserves, AskPreserves, AskStepPreserves, SweepReadPreserves,
     SweepStepPreserves, ExpirePreserves, RestartPreserves
  DEF Next
<1> QED
  BY <1>1, <1>2

(* The chains hold together, a drain past its find has a row that exists,  *)
(* and a row that exists has an account.                                   *)
THEOREM Invariance == Spec => []IInv
  BY Initially, Inductive, PTL DEF Spec

(* TypeOK holds in every reachable state, whatever fails.                  *)
THEOREM DriveTypeCorrect == Spec => []TypeOK
<1>1. IInv => TypeOK
  BY DEF IInv
<1> QED
  BY <1>1, Invariance, PTL

(* "One upload at a time per account", for any number of files, accounts,  *)
(* requests, sweeps and links, whichever of them fail.                     *)
THEOREM OneUploadAtATime == Spec => []OneAtATime
<1>1. IInv => OneAtATime
  BY DEF IInv, Chains
<1> QED
  BY <1>1, Invariance, PTL

-----------------------------------------------------------------------------
(* What is in the store.  The strengthening.                               *)

\* Past its find, a link has a file.
Holds(d) == drain[d].pc \notin {"idle", "waiting", "find"}

\* The file of a link is a queued file of its account.  So no two links have
\* one file (OneAtATime).
FileOfLink(d) ==
  Holds(d) => /\ drain[d].file \in Files
              /\ row[drain[d].file].user = drain[d].user
              /\ row[drain[d].file].status \notin {"none", "done"}

\* A link knows sessions of its file only, and none before it has begun.  From
\* then on, until it ends, it is the one on the row, if there is one.
UrlOfLink(d) ==
  LET f == drain[d].file
      url == drain[d].url
  IN
  /\ drain[d].pc \in {"idle", "waiting", "find", "begin"} => url = None
  /\ url # None => session[url].file = f /\ store[f] # "simple"
  /\ drain[d].pc \in {"upload", "ask"} => url = row[f].url
  /\ drain[d].pc = "open" => url \in {None, row[f].url}
  /\ drain[d].pc = "create" => url = None
  /\ drain[d].pc = "keep" => url # None
  /\ drain[d].pc = "send" /\ store[f] # "simple" => url # None /\ url = row[f].url
  /\ drain[d].pc \in {"open", "create", "keep"} => store[f] # "simple"

\* What a link sends next is what its session lacks.
OffsetOfLink(d) ==
  LET url == drain[d].url IN
  /\ drain[d].pc \notin {"open", "keep", "send", "uploaded"} => drain[d].offset = 0
  /\ url = None => drain[d].offset = 0
  /\ drain[d].pc \in {"open", "keep", "send"} /\ url # None /\ session[url].state = "open"
       => session[url].got = drain[d].offset

\* A link that is done with the upload has saved its file; one that prepares a
\* session of Google has not, unless the store or the row forgot.
SavedByLink(d) ==
  LET f == drain[d].file IN
  /\ drain[d].pc = "uploaded" => copies[f] > 0
  /\ drain[d].pc \in {"open", "create", "keep"} /\ store[f] = "google" =>
       copies[f] = 0 \/ again[f]

LinkOK(d) == FileOfLink(d) /\ UrlOfLink(d) /\ OffsetOfLink(d) /\ SavedByLink(d)

\* A file that Google has is done, or its finished session is on the row.
RowOK(f) ==
  /\ row[f].status = "none" => row[f].url = None
  /\ row[f].url # None => session[row[f].url].file = f /\ store[f] # "simple"
  /\ row[f].status = "done" => copies[f] > 0
  /\ store[f] = "google" /\ copies[f] > 0 /\ ~again[f] =>
       /\ copies[f] = 1
       /\ \/ row[f].status = "done"
          \/ row[f].url # None /\ session[row[f].url].state = "complete"

SessionOK(s) ==
  /\ session[s].exact
  /\ session[s].state = "complete" => session[s].file \in Files /\ copies[session[s].file] > 0

LinksOK == \A d \in Drains : LinkOK(d)

RowsOK == \A f \in Files : RowOK(f)

SessionsOK == \A s \in Sessions : SessionOK(s)

FilesOK == LinksOK /\ RowsOK /\ SessionsOK

-----------------------------------------------------------------------------
(* What leaves the three parts of it alone.                                *)

\* Two links have two files, and know two sessions.
LEMMA Apart ==
  ASSUME IInv, LinksOK, NEW d \in Drains, NEW e \in Drains, d # e, Holds(d)
  PROVE  /\ Holds(e) => drain[e].file # drain[d].file
         /\ drain[e].url # None => drain[e].url # drain[d].url
<1>1. Holds(e) => drain[e].file # drain[d].file
  BY DEF IInv, Chains, OneAtATime, Running, Holds, LinksOK, LinkOK, FileOfLink
<1>2. drain[e].url # None => Holds(e)
  BY DEF LinksOK, LinkOK, UrlOfLink, Holds
<1> QED
  BY <1>1, <1>2 DEF LinksOK, LinkOK, UrlOfLink

\* Link e is as it was, and so is what it reads of its row and its session.
LEMMA LinkKeeps ==
  ASSUME NEW e \in Drains, LinkOK(e), drain'[e] = drain[e], UNCHANGED store,
         LET f == drain[e].file
         IN  Holds(e) => /\ row'[f].user = row[f].user
                         /\ row'[f].url = row[f].url
                         /\ row'[f].status \notin {"none", "done"}
                         /\ copies'[f] = copies[f]
                         /\ again[f] => again'[f],
         LET s == drain[e].url
         IN  s # None => /\ session'[s].file = session[s].file
                         /\ session'[s].got = session[s].got
                         /\ session'[s].state = "open" => session[s].state = "open"
  PROVE  LinkOK(e)'
<1>1. FileOfLink(e)'
  BY DEF LinkOK, FileOfLink, Holds
<1>2. UrlOfLink(e)'
  BY DEF LinkOK, UrlOfLink, Holds
<1>3. OffsetOfLink(e)'
  BY DEF LinkOK, OffsetOfLink
<1>4. SavedByLink(e)'
  BY DEF LinkOK, SavedByLink, Holds
<1> QED
  BY <1>1, <1>2, <1>3, <1>4 DEF LinkOK

\* Row f keeps its session; if it was done, it is, or that was forgotten.
LEMMA RowKeeps ==
  ASSUME NEW f \in Files, RowOK(f), UNCHANGED store,
         row'[f].url = row[f].url,
         \/ row'[f].status = row[f].status
         \/ /\ row'[f].status \notin {"none", "done"}
            /\ row[f].status = "done" => again'[f],
         copies'[f] = copies[f],
         again[f] => again'[f],
         LET s == row[f].url
         IN  s # None => /\ session'[s].file = session[s].file
                         /\ session[s].state = "complete" =>
                              session'[s].state = "complete" \/ again'[f]
  PROVE  RowOK(f)'
  BY DEF RowOK

LEMMA SessionKeeps ==
  ASSUME IInv, NEW s \in Sessions, SessionOK(s), session'[s] = session[s],
         \A f \in Files : copies[f] > 0 => copies'[f] > 0
  PROVE  SessionOK(s)'
  BY DEF SessionOK

\* The rows, the stores and the history are as they were.
Untouched == UNCHANGED <<row, stores>>

LEMMA UntouchedKeeps ==
  ASSUME IInv, FilesOK, Untouched
  PROVE  /\ RowsOK' /\ SessionsOK'
         /\ \A e \in Drains : drain'[e] = drain[e] => LinkOK(e)'
<1>1. RowsOK'
  BY RowKeeps DEF FilesOK, RowsOK, Untouched, stores
<1>2. SessionsOK'
  BY SessionKeeps DEF FilesOK, SessionsOK, Untouched, stores
<1>3. ASSUME NEW e \in Drains, drain'[e] = drain[e] PROVE LinkOK(e)'
  <2>1. LinkOK(e)
    BY DEF FilesOK, LinksOK
  <2>2. Holds(e) => row[drain[e].file].status \notin {"none", "done"}
    BY <2>1 DEF LinkOK, FileOfLink
  <2> QED
    BY <1>3, <2>1, <2>2, LinkKeeps DEF Untouched, stores
<1> QED
  BY <1>1, <1>2, <1>3

-----------------------------------------------------------------------------
(* Steps that do not touch a file.                                         *)

LEMMA IdleIsOK ==
  ASSUME NEW d \in Drains, drain'[d].url = None, drain'[d].offset = 0,
         drain'[d].pc \in {"idle", "waiting", "find"}
  PROVE  LinkOK(d)'
  BY DEF LinkOK, FileOfLink, UrlOfLink, OffsetOfLink, SavedByLink, Holds

\* A link that runs nothing has no session.
LEMMA NoUrlYet ==
  ASSUME FilesOK, NEW d \in Drains, ~Holds(d)
  PROVE  drain[d].url = None /\ drain[d].offset = 0
  BY DEF FilesOK, LinksOK, LinkOK, UrlOfLink, OffsetOfLink, Holds

LEMMA FilesInitially == Init => FilesOK
<1> SUFFICES ASSUME Init PROVE FilesOK
  OBVIOUS
<1>1. LinksOK
  BY DEF LinksOK, LinkOK, FileOfLink, UrlOfLink, OffsetOfLink, SavedByLink, Holds, Init, NoDrain
<1>2. RowsOK
  <2> SUFFICES ASSUME NEW f \in Files PROVE RowOK(f)
    BY DEF RowsOK
  <2>1. row[f].status = "none" /\ row[f].url = None /\ copies[f] = 0
    BY DEF Init, NoRow
  <2> QED
    BY <2>1 DEF RowOK
<1>3. SessionsOK
  BY DEF SessionsOK, SessionOK, Init, NoSession
<1> QED
  BY <1>1, <1>2, <1>3 DEF FilesOK

LEMMA KickKeepsFiles ==
  ASSUME IInv, FilesOK, Untouched, NEW u \in Users, NEW d \in Drains, Kick(u, d)
  PROVE  FilesOK'
<1>1. ASSUME NEW e \in Drains PROVE LinkOK(e)'
  <2>1. CASE e = d
    <3>1. /\ drain'[d].url = None
          /\ drain'[d].offset = 0
          /\ drain'[d].pc \in {"waiting", "find"}
      BY DEF Kick, NoDrain, IInv, TypeOK
    <3> QED
      BY <2>1, <3>1, IdleIsOK
  <2>2. CASE e # d
    BY <2>2, UntouchedKeeps DEF Kick, IInv, TypeOK
  <2> QED
    BY <2>1, <2>2
<1> QED
  BY <1>1, UntouchedKeeps DEF FilesOK, LinksOK

LEMMA EndKeepsFiles ==
  ASSUME IInv, FilesOK, Untouched, NEW d \in Drains, Running(d), EndDrain(d)
  PROVE  FilesOK'
<1>1. ASSUME NEW e \in Drains PROVE LinkOK(e)'
  <2>1. CASE e = d
    <3>1. drain'[d] = NoDrain
      BY DEF EndDrain, IInv, TypeOK
    <3> QED
      BY <2>1, <3>1, IdleIsOK DEF NoDrain
  <2>2. CASE e # d /\ drain[e].after = d
    <3>1. Waiting(e)
      BY <2>2, NoneIsNoDrain DEF IInv, Chains, Behind
    <3>2. drain[e].url = None /\ drain[e].offset = 0
      BY <3>1, NoUrlYet DEF Waiting, Holds
    <3>3. drain'[e] = [drain[e] EXCEPT !.after = None, !.pc = "find"]
      BY <2>2 DEF EndDrain
    <3>4. drain'[e].url = None /\ drain'[e].offset = 0 /\ drain'[e].pc = "find"
      <4>1. drain[e] \in Drain
        BY DEF IInv, TypeOK
      <4> QED
        BY <3>2, <3>3, <4>1 DEF Drain
    <3> QED
      BY <2>2, <3>4, IdleIsOK
  <2>3. CASE e # d /\ drain[e].after # d
    BY <2>3, UntouchedKeeps DEF EndDrain
  <2> QED
    BY <2>1, <2>2, <2>3
<1> QED
  BY <1>1, UntouchedKeeps DEF FilesOK, LinksOK

LEMMA StillKeepsFiles == ASSUME IInv, FilesOK, Untouched, UNCHANGED drain PROVE FilesOK'
  BY UntouchedKeeps DEF FilesOK, LinksOK

LEMMA RestartKeepsFiles == ASSUME IInv, FilesOK, Restart PROVE FilesOK'
<1>1. Untouched /\ drain' = [d \in Drains |-> NoDrain]
  BY DEF Restart, Untouched
<1>2. ASSUME NEW d \in Drains PROVE LinkOK(d)'
  BY <1>1, IdleIsOK DEF NoDrain
<1> QED
  BY <1>1, <1>2, UntouchedKeeps DEF FilesOK, LinksOK

-----------------------------------------------------------------------------
(* Steps of a link that holds a file.                                      *)

\* What the steps of a link do to the links.
Becomes(d, pc, file, url, offset) ==
  /\ \A e \in Drains \ {d} : drain'[e] = drain[e]
  /\ drain'[d].pc = pc
  /\ drain'[d].user = drain[d].user
  /\ drain'[d].file = file
  /\ drain'[d].url = url
  /\ drain'[d].offset = offset

LEMMA LinkType ==
  ASSUME IInv, NEW d \in Drains
  PROVE  drain \in [Drains -> Drain] /\ drain[d] \in Drain
  BY DEF IInv, TypeOK

\* A link takes a step that touches no file.
LEMMA MoveKeepsFiles ==
  ASSUME IInv, FilesOK, Untouched, NEW d \in Drains,
         \A e \in Drains \ {d} : drain'[e] = drain[e], LinkOK(d)'
  PROVE  FilesOK'
  BY UntouchedKeeps DEF FilesOK, LinksOK

LEMMA ThrowsIsOK ==
  ASSUME IInv, FilesOK, NEW d \in Drains, Holds(d), NEW errors, Throws(d, errors), row' = row
  PROVE  (\A e \in Drains \ {d} : drain'[e] = drain[e]) /\ LinkOK(d)'
<1>1. Becomes(d, "failed", drain[d].file, None, 0)
  BY LinkType DEF Throws, Becomes, Drain
<1>2. FileOfLink(d)
  BY DEF FilesOK, LinksOK, LinkOK
<1>3. FileOfLink(d)'
  BY <1>1, <1>2 DEF FileOfLink, Holds, Becomes
<1>4. UrlOfLink(d)' /\ OffsetOfLink(d)' /\ SavedByLink(d)'
  BY <1>1 DEF UrlOfLink, OffsetOfLink, SavedByLink, Becomes
<1> QED
  BY <1>1, <1>3, <1>4 DEF LinkOK, Becomes

LEMMA FindKeepsFiles ==
  ASSUME IInv, FilesOK, NEW d \in Drains, Find(d)
  PROVE  FilesOK'
<1>1. Untouched
  BY DEF Find, Untouched
<1>2. PICK f \in Pending(drain[d].user) : drain' = [drain EXCEPT ![d].pc = "begin", ![d].file = f]
  BY DEF Find
<1>3. drain[d].url = None /\ drain[d].offset = 0
  BY NoUrlYet DEF Find, At, Holds
<1>4. Becomes(d, "begin", f, None, 0)
  BY <1>2, <1>3, LinkType DEF Becomes, Drain
<1>5. f \in Files /\ row[f].user = drain[d].user /\ row[f].status = "pending"
  BY DEF Pending
<1>6. LinkOK(d)'
  BY <1>1, <1>4, <1>5
  DEF LinkOK, FileOfLink, UrlOfLink, OffsetOfLink, SavedByLink, Becomes, Untouched
<1> QED
  BY <1>1, <1>4, <1>6, MoveKeepsFiles DEF Becomes

LEMMA PrepareKeepsFiles ==
  ASSUME IInv, FilesOK, NEW d \in Drains, Prepare(d)
  PROVE  FilesOK'
<1>1. Untouched /\ Holds(d) /\ row' = row
  BY DEF Prepare, Untouched, At, Holds
<1>2. CASE Throws(d, {"network", "gone", "other"})
  BY <1>1, <1>2, ThrowsIsOK, MoveKeepsFiles
<1> DEFINE pc == IF store[drain[d].file] = "simple" THEN "send"
                 ELSE IF drain[d].url = None THEN "open" ELSE "ask"
<1>3. CASE drain' = [drain EXCEPT ![d].pc = pc]
  <2>1. Becomes(d, pc, drain[d].file, drain[d].url, drain[d].offset)
    BY <1>3, LinkType DEF Becomes, Drain
  <2>2. LinkOK(d) /\ At(d, "upload")
    BY DEF FilesOK, LinksOK, Prepare
  <2>3. RowOK(drain[d].file)
    BY <1>1, <2>2 DEF FilesOK, RowsOK, LinkOK, FileOfLink
  <2>4. FileOfLink(d)' /\ UrlOfLink(d)'
    BY <1>1, <2>1, <2>2 DEF LinkOK, FileOfLink, UrlOfLink, Becomes, Untouched, stores, Holds, At
  <2>5. OffsetOfLink(d)'
    BY <1>1, <2>1, <2>2 DEF LinkOK, UrlOfLink, OffsetOfLink, Becomes, Untouched, stores, At
  <2>6. SavedByLink(d)'
    <3> DEFINE f == drain[d].file
    <3>1. /\ f \in Files
          /\ row[f].status # "done"
          /\ drain[d].url = row[f].url
          /\ copies[f] \in 0..2
      BY <1>1, <2>2 DEF LinkOK, FileOfLink, UrlOfLink, At, IInv, TypeOK
    <3>2. store[f] = "google" /\ drain[d].url = None => copies[f] = 0 \/ again[f]
      BY <2>3, <3>1 DEF RowOK
    <3> QED
      BY <1>1, <2>1, <3>2 DEF SavedByLink, Becomes, Untouched, stores
  <2> QED
    BY <1>1, <2>1, <2>4, <2>5, <2>6, MoveKeepsFiles DEF LinkOK, Becomes
<1> QED
  BY <1>2, <1>3 DEF Prepare

\* A file of a link, and what is known of it.
LEMMA HeldFile ==
  ASSUME IInv, FilesOK, NEW d \in Drains, Holds(d)
  PROVE  LET f == drain[d].file
         IN  /\ f \in Files
             /\ row[f].user = drain[d].user
             /\ row[f].status \notin {"none", "done"}
             /\ row[f] \in Row
             /\ copies[f] \in 0..2
             /\ RowOK(f)
             /\ LinkOK(d)
             /\ drain[d].url \in Sessions \cup {None}
             /\ row[f].url \in Sessions \cup {None}
<1>1. LinkOK(d)
  BY DEF FilesOK, LinksOK
<1>2. drain[d].file \in Files /\ row[drain[d].file].status \notin {"none", "done"}
         /\ row[drain[d].file].user = drain[d].user
  BY <1>1 DEF LinkOK, FileOfLink
<1> QED
  BY <1>1, <1>2, LinkType, DrainFields, RowFields DEF FilesOK, RowsOK, IInv, TypeOK

LEMMA AskStoreKeepsFiles ==
  ASSUME IInv, FilesOK, NEW d \in Drains, AskStore(d)
  PROVE  FilesOK'
<1> DEFINE f == drain[d].file
           s == drain[d].url
<1>1. Untouched /\ Holds(d) /\ row' = row
  BY DEF AskStore, Untouched, At, Holds
<1>2. /\ LinkOK(d) /\ RowOK(f) /\ f \in Files /\ copies[f] \in 0..2
      /\ row[f].status \notin {"none", "done"}
  BY <1>1, HeldFile
<1>3. s \in Sessions /\ s # None /\ s = row[f].url /\ session[s].file = f /\ store[f] # "simple"
  BY <1>2, DriveAssumption DEF IInv, Work, DrainWork, AskStore, At, LinkOK, UrlOfLink
<1>4. store[f] = "google" /\ session[s].state # "complete" => copies[f] = 0 \/ again[f]
  BY <1>2, <1>3 DEF RowOK
<1>5. CASE Throws(d, {"network", "other"})
  BY <1>1, <1>5, ThrowsIsOK, MoveKeepsFiles
<1>6. CASE /\ drain' = [drain EXCEPT ![d].pc = "open", ![d].url = None]
           /\ store[f] = "google" => session[s].state # "complete"
  <2>1. drain[d].offset = 0
    BY <1>2 DEF LinkOK, OffsetOfLink, AskStore, At
  <2>2. Becomes(d, "open", f, None, 0)
    BY <1>6, <2>1, LinkType DEF Becomes, Drain
  <2>3. LinkOK(d)'
    BY <1>1, <1>2, <1>3, <1>4, <1>6, <2>2
    DEF LinkOK, FileOfLink, UrlOfLink, OffsetOfLink, SavedByLink, Becomes, Untouched, stores, Holds
  <2> QED
    BY <1>1, <2>2, <2>3, MoveKeepsFiles DEF Becomes
<1>7. CASE /\ session[s].state = "open"
           /\ drain' = [drain EXCEPT ![d].pc = "open", ![d].offset = session[s].got]
  <2>1. Becomes(d, "open", f, s, session[s].got)
    BY <1>7, LinkType DEF Becomes, Drain
  <2>2. LinkOK(d)'
    BY <1>1, <1>2, <1>3, <1>4, <1>7, <2>1
    DEF LinkOK, FileOfLink, UrlOfLink, OffsetOfLink, SavedByLink, Becomes, Untouched, stores, Holds
  <2> QED
    BY <1>1, <2>1, <2>2, MoveKeepsFiles DEF Becomes
<1>8. CASE /\ session[s].state = "complete"
           /\ drain' = [drain EXCEPT ![d].pc = "uploaded", ![d].offset = session[s].got]
  <2>1. Becomes(d, "uploaded", f, s, session[s].got)
    BY <1>8, LinkType DEF Becomes, Drain
  <2>2. copies[f] > 0
    BY <1>3, <1>8 DEF FilesOK, SessionsOK, SessionOK
  <2>3. LinkOK(d)'
    BY <1>1, <1>2, <1>3, <2>1, <2>2
    DEF LinkOK, FileOfLink, UrlOfLink, OffsetOfLink, SavedByLink, Becomes, Untouched, stores, Holds
  <2> QED
    BY <1>1, <2>1, <2>3, MoveKeepsFiles DEF Becomes
<1> QED
  BY <1>5, <1>6, <1>7, <1>8 DEF AskStore

LEMMA OpenZoomKeepsFiles ==
  ASSUME IInv, FilesOK, NEW d \in Drains, OpenZoom(d)
  PROVE  FilesOK'
<1> DEFINE f == drain[d].file
<1>1. Untouched /\ Holds(d) /\ row' = row
  BY DEF OpenZoom, Untouched, At, Holds
<1>2. LinkOK(d) /\ At(d, "open")
  BY <1>1, HeldFile DEF OpenZoom
<1>3. CASE Throws(d, {"network", "gone", "other"})
  BY <1>1, <1>3, ThrowsIsOK, MoveKeepsFiles
<1>4. ASSUME NEW partial \in BOOLEAN, NEW again0, again0 = (drain[d].offset > 0 /\ ~partial),
             NEW url, url = (IF again0 THEN None ELSE drain[d].url),
             drain' = [drain EXCEPT ![d].pc = IF url = None THEN "create" ELSE "send",
                                    ![d].url = url,
                                    ![d].offset = IF again0 THEN 0 ELSE @]
      PROVE  FilesOK'
  <2>1. CASE url = None
    <3>1. Becomes(d, "create", f, None, 0)
      BY <1>2, <1>4, <2>1, LinkType DEF Becomes, Drain, LinkOK, OffsetOfLink
    <3>2. LinkOK(d)'
      BY <1>1, <1>2, <3>1
      DEF LinkOK, FileOfLink, UrlOfLink, OffsetOfLink, SavedByLink, Becomes, Untouched, stores,
          Holds, At
    <3> QED
      BY <1>1, <3>1, <3>2, MoveKeepsFiles DEF Becomes
  <2>2. CASE url # None
    <3>1. Becomes(d, "send", f, url, drain[d].offset) /\ url = drain[d].url
      BY <1>4, <2>2, LinkType DEF Becomes, Drain
    <3>2. LinkOK(d)'
      BY <1>1, <1>2, <2>2, <3>1
      DEF LinkOK, FileOfLink, UrlOfLink, OffsetOfLink, SavedByLink, Becomes, Untouched, stores,
          Holds, At
    <3> QED
      BY <1>1, <3>1, <3>2, MoveKeepsFiles DEF Becomes
  <2> QED
    BY <2>1, <2>2
<1> QED
  BY <1>3, <1>4 DEF OpenZoom

LEMMA SendEndsKeepsFiles ==
  ASSUME IInv, FilesOK, NEW d \in Drains, SendEnds(d)
  PROVE  FilesOK'
<1> DEFINE f == drain[d].file
           s == drain[d].url
<1>1. Untouched /\ Holds(d) /\ row' = row
  BY DEF SendEnds, Untouched, At, Holds
<1>2. LinkOK(d) /\ s \in Sessions /\ session[s].file = f
  BY <1>1, HeldFile DEF SendEnds, LinkOK, UrlOfLink
<1>3. CASE Throws(d, {"network", "gone", "other"})
  BY <1>1, <1>3, ThrowsIsOK, MoveKeepsFiles
<1>4. CASE session[s].state = "complete" /\ drain' = [drain EXCEPT ![d].pc = "uploaded"]
  <2>1. Becomes(d, "uploaded", f, s, drain[d].offset)
    BY <1>4, LinkType DEF Becomes, Drain
  <2>2. copies[f] > 0
    BY <1>2, <1>4 DEF FilesOK, SessionsOK, SessionOK
  <2>3. LinkOK(d)'
    BY <1>1, <1>2, <2>1, <2>2
    DEF LinkOK, FileOfLink, UrlOfLink, OffsetOfLink, SavedByLink, Becomes, Untouched, stores, Holds
  <2> QED
    BY <1>1, <2>1, <2>3, MoveKeepsFiles DEF Becomes
<1> QED
  BY <1>3, <1>4 DEF SendEnds

-----------------------------------------------------------------------------
(* Steps that write a row.                                                 *)

\* Row f is written: not done (that is marked), and with the session it had.
LEMMA RowWriteKeeps ==
  ASSUME IInv, FilesOK, NEW f \in Files, NEW w,
         row' = [row EXCEPT ![f] = w],
         w.url = row[f].url,
         w.status \notin {"none", "done"},
         row[f].status # "none" => w.user = row[f].user,
         \A g \in Files : again[g] => again'[g],
         row[f].status = "done" => again'[f],
         UNCHANGED <<store, session, copies>>
  PROVE  /\ RowsOK' /\ SessionsOK'
         /\ \A e \in Drains : drain'[e] = drain[e] => LinkOK(e)'
<1>1. row'[f] = w /\ \A g \in Files \ {f} : row'[g] = row[g]
  BY DEF IInv, TypeOK
<1>2. RowsOK'
  BY <1>1, RowKeeps DEF FilesOK, RowsOK
<1>3. SessionsOK'
  BY SessionKeeps DEF FilesOK, SessionsOK
<1>4. ASSUME NEW e \in Drains, drain'[e] = drain[e] PROVE LinkOK(e)'
  <2>1. LinkOK(e)
    BY DEF FilesOK, LinksOK
  <2>2. Holds(e) => LET g == drain[e].file
                    IN  /\ g \in Files
                        /\ row'[g].user = row[g].user
                        /\ row'[g].url = row[g].url
                        /\ row'[g].status \notin {"none", "done"}
                        /\ again[g] => again'[g]
    BY <1>1, <2>1 DEF LinkOK, FileOfLink
  <2> QED
    BY <1>4, <2>1, <2>2, LinkKeeps
<1> QED
  BY <1>2, <1>3, <1>4

LEMMA MarkAgainGrows ==
  ASSUME IInv, NEW f \in Files, MarkAgain(f)
  PROVE  /\ \A g \in Files : again[g] => again'[g]
         /\ row[f].status = "done" => again'[f]
  BY DEF MarkAgain, IInv, TypeOK

\* What Upsert and SweepWrite write.
LEMMA RequeueKeepsFiles ==
  ASSUME IInv, FilesOK, NEW f \in Files, NEW w,
         row' = [row EXCEPT ![f] = w],
         w.url = row[f].url,
         w.status = "pending",
         row[f].status # "none" => w.user = row[f].user,
         MarkAgain(f),
         UNCHANGED <<store, session, copies, drain>>
  PROVE  FilesOK'
  BY RowWriteKeeps, MarkAgainGrows DEF FilesOK, LinksOK

LEMMA UpsertKeepsFiles ==
  ASSUME IInv, FilesOK, NEW q \in Askers, Upsert(q)
  PROVE  FilesOK'
<1> DEFINE f == asker[q].file
           w == Queued(row[f], asker[q].user, asker[q].manual)
<1>1. f \in Files /\ row[f] \in Row /\ RowOK(f)
  BY DEF Upsert, IInv, Work, AskerWork, TypeOK, FilesOK, RowsOK
<1>2. /\ w.url = row[f].url
      /\ w.status = "pending"
      /\ row[f].status # "none" => w.user = row[f].user
  <2>1. CASE row[f].status = "none"
    <3>1. w = [NoRow EXCEPT !.status = "pending", !.user = asker[q].user]
      BY <2>1 DEF Queued
    <3> QED
      BY <1>1, <2>1, <3>1 DEF RowOK, NoRow
  <2>2. CASE row[f].status # "none"
    <3>1. PICK k : w = [row[f] EXCEPT !.status = "pending", !.transient = FALSE, !.attempts = k]
      BY <2>2 DEF Queued
    <3> QED
      BY <1>1, <3>1 DEF Row
  <2> QED
    BY <2>1, <2>2
<1> HIDE DEF w
<1> QED
  BY <1>1, <1>2, RequeueKeepsFiles DEF Upsert, w

LEMMA SweepWriteKeepsFiles ==
  ASSUME IInv, FilesOK, SweepWrite
  PROVE  FilesOK'
<1> DEFINE f == sweep.file
           w == [row[f] EXCEPT !.status = "pending"]
<1>1. f \in Files /\ row[f] \in Row
  BY DEF SweepWrite, IInv, Work, SweepWork, TypeOK
<1>2. w.url = row[f].url /\ w.status = "pending" /\ w.user = row[f].user
  BY <1>1 DEF Row
<1>3. row' = [row EXCEPT ![f] = w]
  BY DEF SweepWrite
<1> HIDE DEF w
<1> QED
  BY <1>1, <1>2, <1>3, RequeueKeepsFiles DEF SweepWrite

LEMMA BeginKeepsFiles ==
  ASSUME IInv, FilesOK, NEW d \in Drains, Begin(d)
  PROVE  FilesOK'
<1> DEFINE f == drain[d].file
           k == IF row[f].attempts < MaxAttempts THEN row[f].attempts + 1 ELSE row[f].attempts
           w == [row[f] EXCEPT !.status = "uploading", !.attempts = k]
<1>1. Holds(d) /\ UNCHANGED stores
  BY DEF Begin, At, Holds
<1>2. LinkOK(d) /\ RowOK(f) /\ f \in Files /\ row[f] \in Row
        /\ row[f].status \notin {"none", "done"}
  BY <1>1, HeldFile
<1>3. row' = [row EXCEPT ![f] = w]
  BY DEF Begin
<1> HIDE DEF k
<1>4. w.url = row[f].url /\ w.status = "uploading" /\ w.user = row[f].user
  BY <1>2 DEF Row
<1> HIDE DEF w
<1>5. drain[d].offset = 0
  BY <1>2 DEF LinkOK, OffsetOfLink, Begin, At
<1>6. Becomes(d, "upload", f, row[f].url, 0)
  BY <1>5, LinkType DEF Begin, Becomes, Drain
<1>7. row'[f] = w
  BY <1>2, <1>3 DEF IInv, TypeOK
<1>8. LinkOK(d)'
  BY <1>1, <1>2, <1>4, <1>6, <1>7
  DEF LinkOK, FileOfLink, UrlOfLink, OffsetOfLink, SavedByLink, RowOK, Becomes, stores, Holds
<1>9. RowsOK' /\ SessionsOK' /\ \A e \in Drains : drain'[e] = drain[e] => LinkOK(e)'
  BY <1>1, <1>2, <1>3, <1>4, RowWriteKeeps DEF stores
<1> QED
  BY <1>6, <1>8, <1>9 DEF FilesOK, LinksOK, Becomes

\* The id leaves inProgress, and the link holds nothing.
LEMMA FinishIsOK ==
  ASSUME IInv, NEW d \in Drains, Finish(d)
  PROVE  (\A e \in Drains \ {d} : drain'[e] = drain[e]) /\ LinkOK(d)'
<1>1. /\ \A e \in Drains \ {d} : drain'[e] = drain[e]
      /\ drain'[d] = [NoDrain EXCEPT !.pc = "find", !.user = drain[d].user]
  BY LinkType DEF Finish
<1>2. drain'[d].pc = "find" /\ drain'[d].url = None /\ drain'[d].offset = 0
  BY <1>1 DEF NoDrain
<1> QED
  BY <1>1, <1>2, IdleIsOK

LEMMA WriteFailedKeepsFiles ==
  ASSUME IInv, FilesOK, NEW d \in Drains, WriteFailed(d)
  PROVE  FilesOK'
<1> DEFINE f == drain[d].file
           status == IF drain[d].error = "gone" THEN "skipped" ELSE "failed"
           w == [row[f] EXCEPT !.status = status, !.transient = drain[d].error = "network"]
<1>1. Holds(d) /\ UNCHANGED stores
  BY DEF WriteFailed, At, Holds
<1>2. f \in Files /\ row[f] \in Row /\ row[f].status \notin {"none", "done"}
  BY <1>1, HeldFile
<1>3. row' = [row EXCEPT ![f] = w]
  BY DEF WriteFailed
<1>4. w.url = row[f].url /\ w.status \notin {"none", "done"} /\ w.user = row[f].user
  BY <1>2 DEF Row
<1> HIDE DEF w
<1>5. RowsOK' /\ SessionsOK' /\ \A e \in Drains : drain'[e] = drain[e] => LinkOK(e)'
  BY <1>1, <1>2, <1>3, <1>4, RowWriteKeeps DEF stores
<1>6. (\A e \in Drains \ {d} : drain'[e] = drain[e]) /\ LinkOK(d)'
  BY FinishIsOK DEF WriteFailed
<1> QED
  BY <1>5, <1>6 DEF FilesOK, LinksOK

\* Link d writes its row f: no other link has it.
LEMMA OthersKeep ==
  ASSUME IInv, FilesOK, NEW d \in Drains, Holds(d), NEW e \in Drains, e # d,
         drain'[e] = drain[e], UNCHANGED store,
         LET f == drain[d].file
         IN  \A g \in Files \ {f} : row'[g] = row[g] /\ copies'[g] = copies[g]
                                      /\ again'[g] = again[g],
         LET s == drain[d].url
         IN  \A r \in Sessions \ {s} : r = drain[e].url => session'[r] = session[r]
  PROVE  LinkOK(e)'
<1>1. LinkOK(e) /\ LinksOK
  BY DEF FilesOK, LinksOK
<1>2. Holds(e) => LET g == drain[e].file
                  IN  /\ g \in Files
                      /\ g # drain[d].file
                      /\ row[g].status \notin {"none", "done"}
  BY <1>1, Apart DEF LinkOK, FileOfLink
<1>3. LET s == drain[e].url IN s # None => s \in Sessions /\ s # drain[d].url
  BY <1>1, Apart, LinkType, DrainFields
<1> QED
  BY <1>1, <1>2, <1>3, LinkKeeps

LEMMA WriteDoneKeepsFiles ==
  ASSUME IInv, FilesOK, NEW d \in Drains, WriteDone(d)
  PROVE  FilesOK'
<1>1. Holds(d) /\ UNCHANGED stores
  BY DEF WriteDone, At, Holds
<1>f. PICK f \in Files : f = drain[d].file
  BY <1>1, HeldFile
<1> DEFINE w == [row[f] EXCEPT !.status = "done", !.url = None, !.transient = FALSE]
<1>2. f \in Files /\ row[f] \in Row /\ copies[f] > 0 /\ RowOK(f)
  BY <1>f, <1>1, HeldFile DEF LinkOK, SavedByLink, WriteDone, At
<1>3. row' = [row EXCEPT ![f] = w]
  BY <1>f DEF WriteDone
<1>4. w.url = None /\ w.status = "done"
  BY <1>2 DEF Row
<1> HIDE DEF w
<1>5. row'[f] = w /\ \A g \in Files \ {f} : row'[g] = row[g]
  BY <1>2, <1>3 DEF IInv, TypeOK
<1>6. RowsOK'
  <2>1. RowOK(f)'
    BY <1>1, <1>2, <1>4, <1>5 DEF RowOK, stores
  <2>2. ASSUME NEW g \in Files \ {f} PROVE RowOK(g)'
    BY <1>1, <1>5, RowKeeps DEF FilesOK, RowsOK, stores
  <2> QED
    BY <2>1, <2>2 DEF RowsOK
<1>7. SessionsOK'
  BY <1>1, SessionKeeps DEF FilesOK, SessionsOK, stores
<1>8. (\A e \in Drains \ {d} : drain'[e] = drain[e]) /\ LinkOK(d)'
  BY FinishIsOK DEF WriteDone
<1>9. ASSUME NEW e \in Drains \ {d} PROVE LinkOK(e)'
  BY <1>f, <1>1, <1>5, <1>8, OthersKeep DEF stores
<1> QED
  BY <1>6, <1>7, <1>8, <1>9 DEF FilesOK, LinksOK

LEMMA KeepSessionKeepsFiles ==
  ASSUME IInv, FilesOK, NEW d \in Drains, KeepSession(d)
  PROVE  FilesOK'
<1>1. Holds(d) /\ UNCHANGED stores
  BY DEF KeepSession, At, Holds
<1>f. PICK f \in Files, s \in Sessions \cup {None} : f = drain[d].file /\ s = drain[d].url
  BY <1>1, HeldFile
<1> DEFINE w == [row[f] EXCEPT !.url = s]
<1>2. /\ f \in Files /\ row[f] \in Row /\ copies[f] \in 0..2 /\ RowOK(f) /\ LinkOK(d)
      /\ row[f].status \notin {"none", "done"}
  BY <1>f, <1>1, HeldFile
<1>3. row' = [row EXCEPT ![f] = w]
  BY <1>f DEF KeepSession
<1>4. w.url = s /\ w.status = row[f].status /\ w.user = row[f].user
  BY <1>2 DEF Row
<1> HIDE DEF w
<1>5. row'[f] = w /\ \A g \in Files \ {f} : row'[g] = row[g]
  BY <1>2, <1>3 DEF IInv, TypeOK
<1>6. /\ s # None /\ session[s].file = f /\ store[f] # "simple"
      /\ store[f] = "google" => copies[f] = 0 \/ again[f]
  BY <1>f, <1>2 DEF LinkOK, UrlOfLink, SavedByLink, KeepSession, At
<1>7. RowsOK'
  <2>1. RowOK(f)'
    BY <1>1, <1>2, <1>4, <1>5, <1>6 DEF RowOK, stores
  <2>2. ASSUME NEW g \in Files \ {f} PROVE RowOK(g)'
    BY <1>1, <1>5, RowKeeps DEF FilesOK, RowsOK, stores
  <2> QED
    BY <2>1, <2>2 DEF RowsOK
<1>8. SessionsOK'
  BY <1>1, SessionKeeps DEF FilesOK, SessionsOK, stores
<1>9. Becomes(d, "send", f, s, drain[d].offset)
  BY <1>f, LinkType DEF KeepSession, Becomes, Drain
<1>10. LinkOK(d)'
  BY <1>f, <1>1, <1>2, <1>4, <1>5, <1>6, <1>9
  DEF LinkOK, FileOfLink, UrlOfLink, OffsetOfLink, SavedByLink, Becomes, stores, Holds,
      KeepSession, At
<1>11. ASSUME NEW e \in Drains \ {d} PROVE LinkOK(e)'
  BY <1>f, <1>1, <1>5, <1>9, OthersKeep DEF stores, Becomes
<1> QED
  BY <1>7, <1>8, <1>10, <1>11 DEF FilesOK, LinksOK

-----------------------------------------------------------------------------
(* Steps of the store.                                                     *)

LEMMA CreateSessionKeepsFiles ==
  ASSUME IInv, FilesOK, NEW d \in Drains, CreateSession(d)
  PROVE  FilesOK'
<1>1. Holds(d) /\ row' = row /\ UNCHANGED <<store, copies, again>>
  BY DEF CreateSession, At, Holds
<1>2. CASE Throws(d, {"network", "other"}) /\ UNCHANGED session
  BY <1>1, <1>2, ThrowsIsOK, MoveKeepsFiles DEF Untouched, stores
<1>3. ASSUME NEW s \in Sessions, Unknown(s),
             session' = [session EXCEPT ![s] = [NoSession EXCEPT !.state = "open",
                                                                 !.file = drain[d].file]],
             drain' = [drain EXCEPT ![d].pc = "keep", ![d].url = s]
      PROVE  FilesOK'
  <2>1. /\ session'[s].state = "open" /\ session'[s].file = drain[d].file
        /\ session'[s].got = 0 /\ session'[s].exact
        /\ \A r \in Sessions \ {s} : session'[r] = session[r]
    BY <1>3 DEF NoSession, IInv, TypeOK
  <2>2. LinkOK(d) /\ At(d, "create") /\ drain[d].offset = 0
    BY <1>1, HeldFile DEF CreateSession, At, LinkOK, OffsetOfLink
  <2>3. Becomes(d, "keep", drain[d].file, s, 0)
    BY <1>3, <2>2, LinkType DEF Becomes, Drain
  <2>4. LinkOK(d)'
    BY <1>1, <2>1, <2>2, <2>3, DriveAssumption
    DEF LinkOK, FileOfLink, UrlOfLink, OffsetOfLink, SavedByLink, Becomes, Holds, At
  <2>5. RowsOK'
    <3> SUFFICES ASSUME NEW f \in Files PROVE RowOK(f)'
      BY DEF RowsOK
    <3>1. row[f].url \in Sessions \cup {None} /\ row[f].url # s
      BY <1>3, RowFields DEF Unknown, IInv, TypeOK
    <3> QED
      BY <1>1, <2>1, <3>1, RowKeeps DEF FilesOK, RowsOK
  <2>6. SessionsOK'
    <3> SUFFICES ASSUME NEW r \in Sessions PROVE SessionOK(r)'
      BY DEF SessionsOK
    <3>1. CASE r = s
      BY <2>1, <3>1 DEF SessionOK
    <3>2. CASE r # s
      BY <1>1, <2>1, <3>2, SessionKeeps DEF FilesOK, SessionsOK
    <3> QED
      BY <3>1, <3>2
  <2>7. ASSUME NEW e \in Drains \ {d} PROVE LinkOK(e)'
    <3>1. drain[e].url # s
      BY <1>3 DEF Unknown
    <3> QED
      BY <1>1, <2>1, <2>3, <3>1, OthersKeep DEF Becomes
  <2> QED
    BY <2>4, <2>5, <2>6, <2>7 DEF FilesOK, LinksOK
<1> QED
  BY <1>1, <1>2, <1>3 DEF CreateSession

\* One copy more of f: of no other file.
LEMMA OneCopyMore ==
  ASSUME IInv, NEW f \in Files, MoreCopies(f)
  PROVE  /\ copies'[f] = IF copies[f] < 2 THEN copies[f] + 1 ELSE 2
         /\ copies'[f] \in 1..2
         /\ \A g \in Files \ {f} : copies'[g] = copies[g]
         /\ \A g \in Files : copies[g] > 0 => copies'[g] > 0
<1>1. copies \in [Files -> 0..2]
  BY DEF IInv, TypeOK
<1>2. /\ copies'[f] = IF copies[f] < 2 THEN copies[f] + 1 ELSE copies[f]
      /\ \A g \in Files \ {f} : copies'[g] = copies[g]
  BY <1>1 DEF MoreCopies
<1>3. copies[f] \in 0..2
  BY <1>1
<1> QED
  BY <1>2, <1>3

LEMMA SendSimpleKeepsFiles ==
  ASSUME IInv, FilesOK, NEW d \in Drains, SendSimple(d)
  PROVE  FilesOK'
<1>1. Holds(d) /\ row' = row /\ UNCHANGED <<store, session, again>> /\ drain[d].url = None
  BY DEF SendSimple, At, Holds
<1>f. PICK f \in Files : f = drain[d].file
  BY <1>1, HeldFile
<1>2. CASE UNCHANGED copies /\ Throws(d, {"network", "gone", "other"})
  BY <1>1, <1>2, ThrowsIsOK, MoveKeepsFiles DEF Untouched, stores
<1>3. CASE MoreCopies(f)
  <2>1. LinkOK(d) /\ RowOK(f) /\ At(d, "send") /\ store[f] # "google"
    BY <1>1, <1>f, HeldFile DEF LinkOK, UrlOfLink, SendSimple, At
  <2>2. /\ copies'[f] > 0
        /\ \A g \in Files \ {f} : copies'[g] = copies[g]
        /\ \A g \in Files : copies[g] > 0 => copies'[g] > 0
    BY <1>3, OneCopyMore
  <2>3. RowsOK'
    <3>1. RowOK(f)'
      BY <1>1, <2>1, <2>2 DEF RowOK
    <3>2. ASSUME NEW g \in Files \ {f} PROVE RowOK(g)'
      BY <1>1, <2>2, RowKeeps DEF FilesOK, RowsOK
    <3> QED
      BY <3>1, <3>2 DEF RowsOK
  <2>4. SessionsOK'
    BY <1>1, <2>2, SessionKeeps DEF FilesOK, SessionsOK
  <2>5. (\A e \in Drains \ {d} : drain'[e] = drain[e]) /\ LinkOK(d)'
    <3>1. CASE Throws(d, {"network"})
      BY <1>1, <3>1, ThrowsIsOK
    <3>2. CASE drain' = [drain EXCEPT ![d].pc = "uploaded"]
      <4>1. Becomes(d, "uploaded", f, None, drain[d].offset)
        BY <1>1, <1>f, <3>2, LinkType DEF Becomes, Drain
      <4>2. LinkOK(d)'
        BY <1>1, <1>f, <2>1, <2>2, <4>1
        DEF LinkOK, FileOfLink, UrlOfLink, OffsetOfLink, SavedByLink, Becomes, Holds
      <4> QED
        BY <4>1, <4>2 DEF Becomes
    <3>3. CASE UNCHANGED copies /\ Throws(d, {"network", "gone", "other"})
      BY <1>1, <3>3, ThrowsIsOK
    <3> QED
      BY <3>1, <3>2, <3>3 DEF SendSimple
  <2>6. ASSUME NEW e \in Drains \ {d} PROVE LinkOK(e)'
    BY <1>1, <1>f, <2>2, <2>5, OthersKeep
  <2> QED
    BY <2>3, <2>4, <2>5, <2>6 DEF FilesOK, LinksOK
<1> QED
  BY <1>f, <1>2, <1>3 DEF SendSimple

LEMMA SendByteKeepsFiles ==
  ASSUME IInv, FilesOK, NEW d \in Drains, SendByte(d)
  PROVE  FilesOK'
<1>1. Holds(d) /\ row' = row /\ UNCHANGED <<store, again>> /\ At(d, "send")
  BY DEF SendByte, At, Holds
<1>f. PICK f \in Files, s \in Sessions : f = drain[d].file /\ s = drain[d].url
  BY <1>1, HeldFile DEF SendByte
<1>2. /\ LinkOK(d) /\ RowOK(f) /\ copies[f] \in 0..2 /\ s # None
      /\ row[f].status \notin {"none", "done"}
  BY <1>1, <1>f, HeldFile, DriveAssumption
<1>3. /\ session[s].state = "open" /\ session[s].file = f /\ session[s].got = drain[d].offset
      /\ row[f].url = s /\ drain[d].offset \in 0..Size /\ drain[d].offset < Size
  BY <1>f, <1>1, <1>2, LinkType, DrainFields
  DEF SendByte, At, LinkOK, UrlOfLink, OffsetOfLink
<1>4. store[f] = "google" => copies[f] = 0 \/ again[f]
  BY <1>2, <1>3 DEF RowOK
<1> DEFINE last == drain[d].offset + 1 = Size
<1>5. /\ session'[s].file = f /\ session'[s].exact /\ session'[s].got = drain[d].offset + 1
      /\ session'[s].state = IF last THEN "complete" ELSE "open"
      /\ \A r \in Sessions \ {s} : session'[r] = session[r]
  <2>1. session[s] \in Session /\ session[s].exact
    BY DEF IInv, TypeOK, FilesOK, SessionsOK, SessionOK
  <2>2. /\ session'[s] = [session[s] EXCEPT !.got = drain[d].offset + 1, !.exact = TRUE,
                            !.state = IF last THEN "complete" ELSE "open"]
        /\ \A r \in Sessions \ {s} : session'[r] = session[r]
    BY <1>f, <1>3, <2>1 DEF SendByte, IInv, TypeOK
  <2> QED
    BY <1>3, <2>1, <2>2 DEF Session
<1>6. /\ last => /\ copies'[f] > 0
                 /\ store[f] = "google" /\ ~again[f] => copies'[f] = 1
      /\ ~last => copies'[f] = copies[f]
      /\ \A g \in Files \ {f} : copies'[g] = copies[g]
      /\ \A g \in Files : copies[g] > 0 => copies'[g] > 0
  <2>1. CASE last
    <3>1. MoreCopies(f)
      BY <1>f, <2>1 DEF SendByte
    <3> QED
      BY <1>2, <1>4, <2>1, <3>1, OneCopyMore
  <2>2. CASE ~last
    <3>1. copies' = copies
      BY <2>2 DEF SendByte
    <3> QED
      BY <2>2, <3>1
  <2> QED
    BY <2>1, <2>2
<1>7. Becomes(d, "send", f, s, drain[d].offset + 1)
  BY <1>f, <1>1, LinkType DEF SendByte, Becomes, Drain, At
<1> HIDE DEF last
<1>8. LinkOK(d)'
  BY <1>f, <1>1, <1>2, <1>3, <1>5, <1>7
  DEF LinkOK, FileOfLink, UrlOfLink, OffsetOfLink, SavedByLink, Becomes, Holds, At
<1>9. RowsOK'
  <2>1. RowOK(f)'
    BY <1>1, <1>2, <1>3, <1>4, <1>5, <1>6 DEF RowOK
  <2>2. ASSUME NEW g \in Files \ {f} PROVE RowOK(g)'
    <3>1. RowOK(g) /\ row[g].url \in Sessions \cup {None}
      BY RowFields DEF FilesOK, RowsOK, IInv, TypeOK
    <3>2. row[g].url # s
      BY <1>2, <1>3, <3>1 DEF RowOK
    <3> QED
      BY <1>1, <1>5, <1>6, <3>1, <3>2, RowKeeps
  <2> QED
    BY <2>1, <2>2 DEF RowsOK
<1>10. SessionsOK'
  <2>1. SessionOK(s)'
    BY <1>5, <1>6 DEF SessionOK
  <2>2. ASSUME NEW r \in Sessions \ {s} PROVE SessionOK(r)'
    BY <1>5, <1>6, SessionKeeps DEF FilesOK, SessionsOK
  <2> QED
    BY <2>1, <2>2 DEF SessionsOK
<1>11. ASSUME NEW e \in Drains \ {d} PROVE LinkOK(e)'
  BY <1>f, <1>1, <1>5, <1>6, <1>7, OthersKeep DEF Becomes
<1> QED
  BY <1>8, <1>9, <1>10, <1>11 DEF FilesOK, LinksOK

LEMMA ExpireKeepsFiles ==
  ASSUME IInv, FilesOK, NEW s \in Sessions, Expire(s)
  PROVE  FilesOK'
<1>1. /\ UNCHANGED <<store, row, drain, copies>>
      /\ session'[s] = [session[s] EXCEPT !.state = "expired"]
      /\ \A r \in Sessions \ {s} : session'[r] = session[r]
      /\ \A f \in Files : /\ again[f] => again'[f]
                          /\ session[s].state = "complete" /\ session[s].file = f => again'[f]
  BY DEF Expire, IInv, TypeOK
<1>2. /\ session'[s].state = "expired" /\ session'[s].file = session[s].file
      /\ session'[s].got = session[s].got /\ session'[s].exact = session[s].exact
  <2>1. session[s] \in Session
    BY DEF IInv, TypeOK
  <2> QED
    BY <1>1, <2>1 DEF Session
<1>3. ASSUME NEW f \in Files PROVE RowOK(f)'
  <2>1. RowOK(f) /\ row[f].url \in Sessions \cup {None}
    BY RowFields DEF FilesOK, RowsOK, IInv, TypeOK
  <2>2. row[f].url # None =>
          /\ session'[row[f].url].file = session[row[f].url].file
          /\ session[row[f].url].state = "complete" =>
               session'[row[f].url].state = "complete" \/ again'[f]
    BY <1>1, <1>2, <2>1 DEF RowOK
  <2> QED
    BY <1>1, <2>1, <2>2, RowKeeps
<1>4. ASSUME NEW r \in Sessions PROVE SessionOK(r)'
  BY <1>1, <1>2 DEF FilesOK, SessionsOK, SessionOK
<1>5. ASSUME NEW e \in Drains PROVE LinkOK(e)'
  <2>1. LinkOK(e) /\ drain[e].url \in Sessions \cup {None}
    BY LinkType, DrainFields DEF FilesOK, LinksOK
  <2>2. Holds(e) => drain[e].file \in Files /\ row[drain[e].file].status \notin {"none", "done"}
    BY <2>1 DEF LinkOK, FileOfLink
  <2>3. drain[e].url # None =>
          /\ session'[drain[e].url].file = session[drain[e].url].file
          /\ session'[drain[e].url].got = session[drain[e].url].got
          /\ session'[drain[e].url].state = "open" => session[drain[e].url].state = "open"
    BY <1>1, <1>2, <2>1
  <2> QED
    BY <1>1, <2>1, <2>2, <2>3, LinkKeeps
<1> QED
  BY <1>3, <1>4, <1>5 DEF FilesOK, LinksOK, RowsOK, SessionsOK

LEMMA WriteThrowsKeepsFiles ==
  ASSUME IInv, FilesOK, NEW d \in Drains, WriteThrows(d)
  PROVE  FilesOK'
<1>1. Untouched /\ row' = row
  BY DEF WriteThrows, Untouched
<1>2. CASE (At(d, "begin") \/ At(d, "failed")) /\ EndDrain(d)
  BY <1>1, <1>2, EndKeepsFiles DEF At, Running
<1>3. CASE drain[d].pc \in {"keep", "uploaded"} /\ Throws(d, {"network", "other"})
  BY <1>1, <1>3, ThrowsIsOK, MoveKeepsFiles DEF Holds
<1> QED
  BY <1>2, <1>3 DEF WriteThrows

-----------------------------------------------------------------------------
(* Every step.                                                             *)

LEMMA DrainStepKeepsFiles ==
  ASSUME IInv, FilesOK, NEW d \in Drains, DrainStep(d)
  PROVE  FilesOK'
<1>1. CASE DrainEnds(d)
  BY <1>1, EndKeepsFiles DEF DrainEnds, Untouched, At, Running
<1> QED
  BY <1>1, FindKeepsFiles, BeginKeepsFiles, PrepareKeepsFiles, AskStoreKeepsFiles,
     OpenZoomKeepsFiles, CreateSessionKeepsFiles, KeepSessionKeepsFiles, SendSimpleKeepsFiles,
     SendByteKeepsFiles, SendEndsKeepsFiles, WriteDoneKeepsFiles, WriteFailedKeepsFiles,
     WriteThrowsKeepsFiles
  DEF DrainStep, ProcessStep

LEMMA AskStepKeepsFiles ==
  ASSUME IInv, FilesOK, NEW q \in Askers, AskStep(q)
  PROVE  FilesOK'
<1>1. CASE Look(q) \/ UpsertThrows(q)
  BY <1>1, StillKeepsFiles DEF Look, UpsertThrows, Untouched
<1>2. ASSUME NEW d \in Drains, QueueKick(q, d) PROVE FilesOK'
  BY <1>2, KickKeepsFiles DEF QueueKick, Untouched, IInv, Work, AskerWork
<1> QED
  BY <1>1, <1>2, UpsertKeepsFiles DEF AskStep

LEMMA SweepStepKeepsFiles ==
  ASSUME IInv, FilesOK, SweepStep
  PROVE  FilesOK'
<1>1. ASSUME NEW f \in Files, SweepLook(f) PROVE FilesOK'
  BY <1>1, StillKeepsFiles DEF SweepLook, Untouched
<1>2. CASE SweepThrows \/ SweepEnds
  BY <1>2, StillKeepsFiles DEF SweepThrows, SweepEnds, Untouched
<1>3. ASSUME NEW d \in Drains, SweepKick(d) PROVE FilesOK'
  <2>1. PICK u \in sweep.users : Kick(u, d)
    BY <1>3 DEF SweepKick
  <2> QED
    BY <1>3, <2>1, KickKeepsFiles, SweepFields DEF SweepKick, Untouched, IInv, TypeOK, Kick
<1> QED
  BY <1>1, <1>2, <1>3, SweepWriteKeepsFiles DEF SweepStep

LEMMA FilesInductive == IInv /\ FilesOK /\ [Next]_vars => FilesOK'
<1> SUFFICES ASSUME IInv, FilesOK, [Next]_vars PROVE FilesOK'
  OBVIOUS
<1>1. ASSUME NEW q \in Askers, NEW u \in Users, NEW manual \in BOOLEAN, Ask(q, u, manual)
      PROVE  FilesOK'
  BY <1>1, StillKeepsFiles DEF Ask, Untouched
<1>2. ASSUME NEW due \in SUBSET Files, SweepRead(due) PROVE FilesOK'
  BY <1>2, StillKeepsFiles DEF SweepRead, Untouched
<1>3. CASE UNCHANGED vars
  BY <1>3, StillKeepsFiles DEF vars, Untouched
<1> QED
  BY <1>1, <1>2, <1>3, DrainStepKeepsFiles, AskStepKeepsFiles, SweepStepKeepsFiles,
     ExpireKeepsFiles, RestartKeepsFiles
  DEF Next

(* What the drains know of files and sessions stays true, whatever fails,  *)
(* expires, restarts or is kicked meanwhile (drive-backup.service.ts).     *)
THEOREM FilesInvariance == Spec => [](IInv /\ FilesOK)
<1>1. IInv /\ [Next]_vars => IInv'
  BY Inductive
<1> QED
  BY <1>1, Initially, FilesInitially, FilesInductive, PTL DEF Spec

(* A file in the store is the recording's, byte for byte, however often    *)
(* its upload was interrupted and resumed, by whichever link.              *)
THEOREM SavedFilesAreExact == Spec => []CopiesAreExact
<1>1. IInv /\ FilesOK => CopiesAreExact
  BY DEF FilesOK, SessionsOK, SessionOK, CopiesAreExact
<1> QED
  BY <1>1, FilesInvariance, PTL

(* A row that says done has its file in the store, whatever was lost,      *)
(* thrown or restarted in between.                                         *)
THEOREM DoneRowsAreSaved == Spec => []DoneIsSaved
<1>1. IInv /\ FilesOK => DoneIsSaved
  BY DEF FilesOK, RowsOK, RowOK, DoneIsSaved
<1> QED
  BY <1>1, FilesInvariance, PTL

(* Google Drive has a file once, unless its finished session was forgotten *)
(* or its row, though done, was queued again.                              *)
THEOREM GoogleHasItOnce == Spec => []SavedOnce
<1>1. IInv /\ FilesOK => SavedOnce
  <2> SUFFICES ASSUME FilesOK, NEW f \in Files, store[f] = "google", copies[f] > 1, ~again[f],
                      copies[f] \in 0..2
               PROVE  FALSE
    BY DEF SavedOnce, IInv, TypeOK
  <2> QED
    BY DEF FilesOK, RowsOK, RowOK
<1> QED
  BY <1>1, FilesInvariance, PTL

=============================================================================
