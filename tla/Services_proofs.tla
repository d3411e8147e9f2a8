--------------------------- MODULE Services_proofs ---------------------------
(***************************************************************************)
(* The safety properties of four services, for every number of jobs,       *)
(* accounts, recordings and videos: the YouTube quota, the links between   *)
(* recordings and videos, the plan a sync follows, and captions.           *)
(***************************************************************************)
EXTENDS Quota, Matching, SyncPlan, Captions, Sums_proofs, FiniteSetTheorems, SequenceTheorems

-----------------------------------------------------------------------------
(* The quota.  What is booked today and what the running jobs still have   *)
(* to book stay within the bound: a job saw room for itself, and there     *)
(* were at most all the others beside it.                                  *)

QuotaSpec == QuotaInit /\ [][QuotaNext]_quotaVars

Left(costs) == IF costs = <<>> THEN 0 ELSE IF Len(costs) = 1 THEN costs[1] ELSE costs[1] + costs[2]
Owing(o) == [j \in Jobs |-> Left(o[j])]

QuotaTyped ==
  /\ used \in [1..MaxDays -> Nat] /\ today \in 1..MaxDays
  /\ owed \in [Jobs -> Seq(Nat)]
  /\ unasked \in Nat

JobsOK ==
  \A j \in Jobs : Len(owed[j]) <= 2 /\ Left(owed[j]) <= Dearest /\ Left(owed[j]) <= QUOTA_LIMIT

QuotaIInv ==
  /\ QuotaTyped /\ JobsOK
  /\ \A d \in 1..MaxDays : d > today => used[d] = 0
  /\ used[today] + SumOf(Owing(owed), Jobs) <= QUOTA_LIMIT + (Cardinality(Jobs) - 1) * Dearest + unasked

-----------------------------------------------------------------------------
(* The links.  While no two writers overlapped, a link about to be written *)
(* is of a video that no other row of its user has or is about to get, and *)
(* a video about to be noted is nobody's.                                  *)

MatchingSpec == MatchingInit /\ [][MatchingNext]_matchVars

Link == [step : {"idle", "video", "taken", "write"}, user : Users \cup {NoMatch},
         recording : RecordingIds \cup {NoMatch}, video : VideoIds \cup {NoMatch}]

MatchingTyped ==
  /\ tracks \in [RecordingIds -> Track \cup {NoMatch}]
  /\ channel \subseteq VideoIds /\ listed \in [Users -> SUBSET channel]
  /\ suggested \in [Users -> SUBSET Pairs]
  /\ \A u \in Users : asking[u] # NoMatch => asking[u].candidates \subseteq RecordingIds
  /\ DOMAIN asking = Users
  /\ linking \in [Linkers -> Link]
  /\ \A k \in Linkers : linking[k].step # "idle" =>
       linking[k].user \in Users /\ linking[k].recording \in RecordingIds /\ linking[k].video \in VideoIds
  /\ uploaded \in Pairs \cup {NoMatch}
  /\ linksRaced \in BOOLEAN

\* Rows and answers are about videos of the channel.
OnTheChannel ==
  /\ \A r \in RecordingIds : tracks[r] # NoMatch => tracks[r].video \in channel \cup {NoMatch}
  /\ \A k \in Linkers : linking[k].step \in {"taken", "write"} => linking[k].video \in channel
  /\ uploaded # NoMatch => uploaded[2] \in channel

\* Nobody else has, or is about to write, what is about to be written.
WritesAlone ==
  /\ \A k \in Linkers : linking[k].step = "write" =>
       /\ ~Taken(linking[k])
       /\ \A j \in Linkers \ {k} :
            ~(/\ linking[j].step = "write" /\ linking[j].user = linking[k].user
              /\ linking[j].video = linking[k].video)
       /\ uploaded # NoMatch => uploaded[2] # linking[k].video
  /\ uploaded # NoMatch =>
       \A r \in RecordingIds : tracks[r] # NoMatch => tracks[r].video # uploaded[2]

MatchingIInv == MatchingTyped /\ OnTheChannel /\ LinkedOnce /\ (linksRaced \/ WritesAlone)
-----------------------------------------------------------------------------
(* The plan.  What an account was told is what its forms say, until it     *)
(* saves one; and what a running sync carries, and the columns its retry   *)
(* will read, are what it was told.                                        *)

PlanSpec == SyncPlanInit /\ [][SyncPlanNext]_planVars

OptionFields == {"privacy", "playlist", "publishAt"}
PlanFields == {"autoUpload", "title", "playlist", "privacy", "delay"}
SyncFields == {"step", "owner", "options", "attempt", "end", "title", "early"}
Running == {"prepared", "uploading", "failed", "given up", "uploaded"}

PlanTyped ==
  /\ DOMAIN workflow = Hosts /\ rules \in [Hosts -> Seq(RuleForms)]
  /\ DOMAIN promised = Hosts
  /\ clock \in Nat
  /\ DOMAIN sync = SyncFields /\ sync.end \in Nat /\ sync.owner \in Hosts \cup {Unset}
  /\ sync.step \in Steps /\ sync.early \in BOOLEAN
  /\ DOMAIN log = OptionFields
  /\ video # Unset => sync.step = "uploaded"
  /\ sync.step = "owned" => sync.owner \in Hosts

\* ResolveSyncOptions and PredictUpcoming, of the settings and the rules they read.
FirstOf(rs) == {i \in DOMAIN rs : Matches(rs[i]) /\ \A j \in 1..(i - 1) : ~Matches(rs[j])}
PlanOf(w, rs) ==
  LET s == Or(w, DefaultWorkflow)
      rule == rs[CHOOSE i \in FirstOf(rs) : TRUE]
  IN IF FirstOf(rs) = {} THEN [autoUpload |-> s.autoUpload, title |-> s.title, playlist |-> s.playlist,
                               privacy |-> s.privacy, delay |-> Unset]
     ELSE [autoUpload |-> s.autoUpload, title |-> Or(rule.title, s.title), playlist |-> Or(rule.playlist, s.playlist),
           privacy |-> Or(rule.privacy, s.privacy), delay |-> rule.delay]
ToldOf(o) == [o EXCEPT !.privacy = IF o.delay # Unset THEN "private" ELSE @]

PromisesAreCurrent ==
  \A u \in Hosts : promised[u] # Unset => promised[u] = ToldOf(PlanOf(workflow[u], rules[u]))

\* What kept says of the options a sync carries.
Carries(o) ==
  /\ kept.delay = Unset => o.privacy = kept.privacy /\ o.publishAt = Unset
  /\ kept.delay # Unset => o.publishAt = sync.end + kept.delay

KeptIsCarried ==
  kept # Unset =>
    /\ DOMAIN kept = PlanFields /\ kept.autoUpload /\ kept.delay \in Nat \cup {Unset}
    /\ sync.step \in Running /\ sync.owner \in Hosts
    /\ Carries(sync.options)
    /\ log.privacy = sync.options.privacy /\ log.publishAt = sync.options.publishAt
    /\ ~sync.early => sync.options.playlist = kept.playlist
    /\ ~sync.early /\ sync.step # "prepared" => log.playlist = sync.options.playlist
    /\ kept.title # Unset =>
         /\ PlanOf(workflow[sync.owner], rules[sync.owner]).title = kept.title
         /\ sync.step \in {"uploading", "uploaded"} => sync.title = kept.title

PlanIInv == PlanTyped /\ PromisesAreCurrent /\ KeptIsCarried /\ UploadsAsPromised
-----------------------------------------------------------------------------
(* The quota's actions *)

\* What the costs come to.
LEMMA CostsAre ==
  /\ QUOTA_LIMIT \in Nat /\ UPLOAD_COST \in Nat \ {0} /\ CaptionUploadCost \in Nat \ {0} /\ Dearest \in Nat
  /\ UPLOAD_COST <= Dearest /\ CaptionUploadCost <= Dearest
  /\ MaxDays \in Nat
  /\ CAPTION_LIST_COST \in Nat /\ CAPTION_INSERT_COST \in Nat /\ CAPTION_UPDATE_COST \in Nat
  /\ CAPTION_LIST_COST + CAPTION_INSERT_COST <= CaptionUploadCost
  /\ CaptionUploadCost = CAPTION_LIST_COST + CAPTION_UPDATE_COST
  /\ LIST_COST \in Nat /\ WRITE_COST \in Nat /\ MAX_PAGES \in Nat
<1>1. /\ QUOTA_LIMIT \in Nat \ {0} /\ UPLOAD_COST \in Nat \ {0} /\ CAPTION_LIST_COST \in Nat \ {0}
      /\ CAPTION_INSERT_COST \in Nat \ {0} /\ CAPTION_UPDATE_COST \in Nat \ {0} /\ LIST_COST \in Nat \ {0}
      /\ WRITE_COST \in Nat \ {0} /\ MAX_PAGES \in Nat \ {0} /\ MaxDays \in Nat \ {0}
      /\ CAPTION_INSERT_COST <= CAPTION_UPDATE_COST
  BY QuotaAssumption
<1>2. CaptionUploadCost = CAPTION_LIST_COST + CAPTION_UPDATE_COST /\ CaptionUploadCost \in Nat \ {0}
  BY <1>1 DEF CaptionUploadCost
<1>3. Dearest \in {UPLOAD_COST, CaptionUploadCost} /\ UPLOAD_COST <= Dearest /\ CaptionUploadCost <= Dearest
  BY <1>1, <1>2 DEF Dearest
<1>4. Dearest \in Nat
  BY <1>1, <1>2, <1>3
<1>5. CAPTION_LIST_COST + CAPTION_INSERT_COST <= CaptionUploadCost
  BY <1>1, <1>2
<1> QED BY <1>1, <1>2, <1>3, <1>4, <1>5

\* A sequence with an element is not the empty one.
LEMMA NotEmpty == ASSUME NEW s, Len(s) # 0 PROVE s # <<>>
<1>1. Len(<<>>) = 0
  BY EmptySeq
<1>2. ASSUME s = <<>> PROVE Len(s) = Len(<<>>)
  BY <1>2, Zenon
<1>3. PICK n : n = Len(s)
  OBVIOUS
<1>4. ASSUME s = <<>> PROVE n = 0
  BY <1>1, <1>2, <1>3, <1>4, Zenon
<1> QED BY <1>3, <1>4, Zenon

\* Taking the first cost off leaves that much less.
LEMMA LeftIs ==
  ASSUME NEW s \in Seq(Nat), Len(s) <= 2
  PROVE  /\ Left(s) \in Nat
         /\ s # <<>> => /\ Head(s) \in Nat /\ Tail(s) \in Seq(Nat) /\ Len(Tail(s)) <= 2
                        /\ Left(s) = Head(s) + Left(Tail(s))
<1>1. CASE s = <<>>
  BY <1>1 DEF Left
<1>2. CASE s # <<>>
  <2>1. PICK n \in Nat \ {0} : n = Len(s)
    BY <1>2, EmptySeq
  <2>2. n \in {1, 2}
    BY <2>1
  <2>3. /\ Head(s) \in Nat /\ Tail(s) \in Seq(Nat) /\ Len(Tail(s)) = Len(s) - 1
        /\ \A i \in 1..Len(Tail(s)) : Tail(s)[i] = s[i + 1]
    BY <1>2, HeadTailProperties
  <2>4. s[1] \in Nat /\ Head(s) = s[1]
    BY <1>2, <2>1
  <2>5. CASE n = 1
    <3>1. Len(Tail(s)) = 0
      BY <2>1, <2>3, <2>5
    <3>2. Tail(s) = <<>>
      BY <2>3, <3>1, EmptySeq
    <3>3. Left(s) = s[1]
      BY <1>2, <2>1, <2>5 DEF Left
    <3>4. Left(Tail(s)) = 0
      BY <3>2 DEF Left
    <3> QED BY <2>3, <2>4, <3>1, <3>3, <3>4
  <2>6. CASE n = 2
    <3>1. Len(Tail(s)) = 1
      BY <2>1, <2>3, <2>6
    <3>2. Tail(s)[1] = s[2]
      BY <2>3, <3>1
    <3>9. PICK m : m = Len(Tail(s))
      OBVIOUS
    <3>10. m = 1
      BY <3>1, <3>9, Zenon
    <3>11. m # 0 /\ m <= 2
      BY <3>10
    <3>6. Len(Tail(s)) # 0 /\ Len(Tail(s)) <= 2
      BY <3>9, <3>11, Zenon
    <3>3. Tail(s) # <<>>
      BY <3>6, NotEmpty, Zenon
    <3>4. Left(Tail(s)) = s[2]
      <4>1. PICK t : t = Tail(s)
        OBVIOUS
      <4>2. t # <<>> /\ Len(t) = 1 /\ t[1] = s[2]
        BY <3>1, <3>2, <3>3, <4>1
      <4>3. Left(t) = s[2]
        BY <4>2 DEF Left
      <4> QED BY <4>1, <4>3, Zenon
    <3>16. n # 1
      BY <2>6
    <3>17. Len(s) # 1
      BY <2>1, <3>16, Zenon
    <3>18. Left(s) = s[1] + s[2]
      BY <1>2, <3>17, Zenon DEF Left
    <3>20. 2 \in 1..n
      BY <2>6
    <3>19. s[2] \in Nat
      BY <2>1, <3>20, ElementOfSeq, Zenon
    <3>5. s[2] \in Nat /\ Left(s) = s[1] + s[2]
      BY <3>18, <3>19
    <3>7. Left(s) = Head(s) + Left(Tail(s))
      BY <2>4, <3>4, <3>5, Zenon
    <3>12. PICK a \in Nat, b \in Nat : a = s[1] /\ b = s[2]
      BY <2>4, <3>5
    <3>13. a + b \in Nat
      OBVIOUS
    <3>8. Left(s) \in Nat
      BY <3>5, <3>12, <3>13, Zenon
    <3>14. Head(s) \in Nat /\ Tail(s) \in Seq(Nat)
      BY <2>3, Zenon
    <3>15. Len(Tail(s)) <= 2
      BY <3>6, Zenon
    <3> QED BY <3>14, <3>15, <3>7, <3>8, Zenon
  <2> QED BY <2>2, <2>5, <2>6
<1> QED BY <1>1, <1>2

\* The sum of what is owed.
LEMMA OwedIs ==
  ASSUME NEW o \in [Jobs -> Seq(Nat)], \A j \in Jobs : Len(o[j]) <= 2
  PROVE  /\ AllNat(Owing(o), Jobs) /\ \A j \in Jobs : Owing(o)[j] = Left(o[j]) /\ Left(o[j]) \in Nat
         /\ SumOf(Owing(o), Jobs) \in Nat
<1>1. \A j \in Jobs : Left(o[j]) \in Nat
  BY LeftIs
<1>2. AllNat(Owing(o), Jobs) /\ \A j \in Jobs : Owing(o)[j] = Left(o[j])
  BY <1>1 DEF Owing, AllNat
<1>3. IsFiniteSet(Jobs)
  BY QuotaAssumption
<1> QED BY <1>1, <1>2, <1>3, SumNat

\* The bound: all jobs but one, each as dear as can be, and what did not look.
MostUsed == QUOTA_LIMIT + (Cardinality(Jobs) - 1) * Dearest

LEMMA BoundIs == MostUsed \in Nat /\ Cardinality(Jobs) \in Nat \ {0} /\ QUOTA_LIMIT <= MostUsed
<1>1. Cardinality(Jobs) \in Nat \ {0}
  BY QuotaAssumption, FS_CardinalityType, FS_EmptySet
<1>2. PICK n \in Nat : n = Cardinality(Jobs) - 1
  BY <1>1
<1>3. n * Dearest \in Nat
  BY CostsAre
<1> QED BY <1>1, <1>2, <1>3, CostsAre DEF MostUsed

\* What all jobs but one can cost.
LEMMA OthersAre == (Cardinality(Jobs) - 1) * Dearest \in Nat
<1>1. Cardinality(Jobs) \in Nat \ {0}
  BY BoundIs
<1>2. PICK n \in Nat : n = Cardinality(Jobs) - 1
  BY <1>1
<1>3. n * Dearest \in Nat
  BY CostsAre
<1> QED BY <1>2, <1>3

\* All jobs but one owe at most as much.
LEMMA OthersOwe ==
  ASSUME NEW f, AllNat(f, Jobs), NEW j \in Jobs, \A i \in Jobs : f[i] <= Dearest
  PROVE  SumOf(f, Jobs) <= f[j] + (Cardinality(Jobs) - 1) * Dearest
<1>1. IsFiniteSet(Jobs) /\ IsFiniteSet(Jobs \ {j}) /\ Cardinality(Jobs \ {j}) = Cardinality(Jobs) - 1
  BY QuotaAssumption, FS_RemoveElement
<1>2. AllNat(f, Jobs \ {j}) /\ \A i \in Jobs \ {j} : f[i] <= Dearest
  BY DEF AllNat
<1>3. SumOf(f, Jobs \ {j}) <= Cardinality(Jobs \ {j}) * Dearest
  BY <1>1, <1>2, CostsAre, SumBound
<1>4. SumOf(f, Jobs) = f[j] + SumOf(f, Jobs \ {j})
  BY <1>1, SumStep
<1>5. SumOf(f, Jobs \ {j}) \in Nat /\ f[j] \in Nat
  BY <1>1, <1>2, SumNat DEF AllNat
<1>6. PICK p : p = Cardinality(Jobs \ {j}) * Dearest
  OBVIOUS
<1>7. p \in Nat
  <2>1. Cardinality(Jobs \ {j}) \in Nat
    BY <1>1, FS_CardinalityType
  <2> QED BY <1>6, <2>1, CostsAre
<1>8. p = (Cardinality(Jobs) - 1) * Dearest
  BY <1>1, <1>6
<1>9. SumOf(f, Jobs) <= f[j] + p
  BY <1>3, <1>4, <1>5, <1>6, <1>7
<1> QED BY <1>8, <1>9

\* What a step has to keep, with the bound as one number.
LEMMA KeepsBound ==
  ASSUME QuotaTyped', JobsOK', \A d \in 1..MaxDays : d > today' => used'[d] = 0,
         used'[today'] + SumOf(Owing(owed'), Jobs) <= MostUsed + unasked'
  PROVE  QuotaIInv'
<1>1. SumOf(Owing(owed), Jobs)' = SumOf(Owing(owed'), Jobs)
  BY DEF SumOf, Owing, MapThenSumSet, MapThenFoldSet
<1>2. MostUsed' = MostUsed
  BY DEF MostUsed
<1>3. \A x, y, z \in Nat : x + y <= MostUsed + z => x + y <= QUOTA_LIMIT + (Cardinality(Jobs) - 1) * Dearest + z
  BY DEF MostUsed
<1>4. used'[today'] \in Nat /\ unasked' \in Nat
  BY DEF QuotaTyped
<1>5. SumOf(Owing(owed'), Jobs) \in Nat
  BY OwedIs DEF QuotaTyped, JobsOK
<1>6. used'[today'] + SumOf(Owing(owed'), Jobs) <= QUOTA_LIMIT + (Cardinality(Jobs) - 1) * Dearest + unasked'
  BY <1>3, <1>4, <1>5
<1> QED BY <1>1, <1>6 DEF QuotaIInv, Dearest, CaptionUploadCost

\* What the invariant says, with the bound as one number.
LEMMA HasBound ==
  ASSUME QuotaIInv
  PROVE  /\ QuotaTyped /\ JobsOK /\ \A d \in 1..MaxDays : d > today => used[d] = 0
         /\ used[today] + SumOf(Owing(owed), Jobs) <= MostUsed + unasked
         /\ used[today] \in Nat /\ unasked \in Nat /\ SumOf(Owing(owed), Jobs) \in Nat
         /\ AllNat(Owing(owed), Jobs) /\ \A j \in Jobs : Owing(owed)[j] = Left(owed[j]) /\ Left(owed[j]) \in Nat
<1>1. QuotaTyped /\ JobsOK /\ \A d \in 1..MaxDays : d > today => used[d] = 0
  BY DEF QuotaIInv
<1>2. used[today] \in Nat /\ unasked \in Nat /\ owed \in [Jobs -> Seq(Nat)]
  BY <1>1 DEF QuotaTyped
<1>3. /\ AllNat(Owing(owed), Jobs) /\ \A j \in Jobs : Owing(owed)[j] = Left(owed[j]) /\ Left(owed[j]) \in Nat
      /\ SumOf(Owing(owed), Jobs) \in Nat
  BY <1>1, <1>2, OwedIs DEF JobsOK
<1>4. used[today] + SumOf(Owing(owed), Jobs) <= MostUsed + unasked
  BY DEF QuotaIInv, MostUsed
<1> QED BY <1>1, <1>2, <1>3, <1>4

\* A job that looks first: there is room for it, whatever the others owe.
LEMMA StartsJobKeeps ==
  ASSUME QuotaIInv, NEW j \in Jobs, NEW needed \in Nat \ {0}, NEW costs \in Seq(Nat),
         Len(costs) <= 2, Left(costs) <= needed, needed <= Dearest, StartsJob(j, needed, costs)
  PROVE  QuotaIInv'
<1>1. PICK o : o = owed'
  OBVIOUS
<1>2. o = [owed EXCEPT ![j] = costs] /\ UNCHANGED <<used, today, unasked>> /\ UnitsRemaining >= needed
  BY <1>1 DEF StartsJob
<1>3. o \in [Jobs -> Seq(Nat)] /\ o[j] = costs /\ \A i \in Jobs \ {j} : o[i] = owed[i]
  BY <1>2, HasBound DEF QuotaTyped
<1>4. used[today] + needed <= QUOTA_LIMIT
  BY <1>2, HasBound, CostsAre DEF UnitsRemaining
<1>5. Left(costs) \in Nat /\ Left(costs) <= Dearest /\ Left(costs) <= QUOTA_LIMIT
  <2>1. Left(costs) \in Nat
    BY LeftIs
  <2> QED BY <2>1, <1>4, HasBound, CostsAre
<1>6. \A i \in Jobs : Len(o[i]) <= 2 /\ Left(o[i]) <= Dearest /\ Left(o[i]) <= QUOTA_LIMIT
  BY <1>3, <1>5, HasBound DEF JobsOK
<1>7. AllNat(Owing(o), Jobs) /\ (\A i \in Jobs : Owing(o)[i] = Left(o[i])) /\ SumOf(Owing(o), Jobs) \in Nat
  BY <1>3, <1>6, OwedIs
<1>8. SumOf(Owing(o), Jobs) <= Owing(o)[j] + (Cardinality(Jobs) - 1) * Dearest
  BY <1>6, <1>7, OthersOwe
<1>9. PICK p : p = (Cardinality(Jobs) - 1) * Dearest
  OBVIOUS
<1>10. p \in Nat /\ MostUsed = QUOTA_LIMIT + p
  BY <1>9, OthersAre DEF MostUsed
<1>11. SumOf(Owing(o), Jobs) <= needed + p
  BY <1>3, <1>5, <1>7, <1>8, <1>9, <1>10
<1>12. used[today] + SumOf(Owing(o), Jobs) <= MostUsed + unasked
  BY <1>4, <1>7, <1>10, <1>11, HasBound, CostsAre
<1>13. QuotaTyped' /\ JobsOK'
  BY <1>1, <1>2, <1>3, <1>6, HasBound DEF QuotaTyped, JobsOK
<1>14. \A d \in 1..MaxDays : d > today' => used'[d] = 0
  BY <1>2, HasBound
<1>15. used'[today'] + SumOf(Owing(owed'), Jobs) <= MostUsed + unasked'
  BY <1>1, <1>2, <1>12
<1> QED BY <1>13, <1>14, <1>15, KeepsBound

\* Both kinds of upload look for at least what they then book.
LEMMA StartsKeeps ==
  ASSUME QuotaIInv, NEW j \in Jobs, UploadManualVideo(j) \/ UploadCaptionTrack(j)
  PROVE  QuotaIInv'
<1>1. CASE UploadManualVideo(j)
  <2>1. <<UPLOAD_COST>> \in Seq(Nat) /\ Len(<<UPLOAD_COST>>) = 1 /\ <<UPLOAD_COST>> # <<>>
    BY CostsAre
  <2>2. Left(<<UPLOAD_COST>>) = UPLOAD_COST
    BY <2>1 DEF Left
  <2>3. StartsJob(j, UPLOAD_COST, <<UPLOAD_COST>>)
    BY <1>1 DEF UploadManualVideo
  <2>4. PICK c \in Seq(Nat) : c = <<UPLOAD_COST>>
    BY <2>1
  <2>5. StartsJob(j, UPLOAD_COST, c) /\ Left(c) = UPLOAD_COST /\ Len(c) = 1
    BY <2>1, <2>2, <2>3, <2>4, Zenon
  <2>6. Len(c) <= 2 /\ Left(c) <= UPLOAD_COST
    BY <2>5, CostsAre
  <2> QED BY <2>5, <2>6, CostsAre, StartsJobKeeps
<1>2. CASE UploadCaptionTrack(j)
  <2>1. PICK last \in {CAPTION_INSERT_COST, CAPTION_UPDATE_COST} :
          StartsJob(j, CaptionUploadCost, <<CAPTION_LIST_COST, last>>)
    BY <1>2 DEF UploadCaptionTrack
  <2>2. last \in Nat /\ CAPTION_LIST_COST + last <= CaptionUploadCost
    BY <2>1, CostsAre
  <2>3. <<CAPTION_LIST_COST, last>> \in Seq(Nat) /\ Len(<<CAPTION_LIST_COST, last>>) = 2
        /\ <<CAPTION_LIST_COST, last>> # <<>>
    BY <2>2, CostsAre
  <2>4. Left(<<CAPTION_LIST_COST, last>>) = CAPTION_LIST_COST + last
    BY <2>3 DEF Left
  <2>5. PICK c \in Seq(Nat) : c = <<CAPTION_LIST_COST, last>>
    BY <2>3
  <2>6. StartsJob(j, CaptionUploadCost, c) /\ Left(c) = CAPTION_LIST_COST + last /\ Len(c) = 2
    BY <2>1, <2>3, <2>4, <2>5, Zenon
  <2>7. Len(c) <= 2 /\ Left(c) <= CaptionUploadCost
    BY <2>2, <2>6, CostsAre
  <2> QED BY <2>6, <2>7, CostsAre, StartsJobKeeps
<1> QED BY <1>1, <1>2

\* A request that is booked moves its cost from what is owed to what is used; one that
\* fails only takes it off.
LEMMA BooksKeeps ==
  ASSUME QuotaIInv, NEW j \in Jobs, Books(j) \/ JobFails(j)
  PROVE  QuotaIInv'
<1>1. PICK o : o = owed'
  OBVIOUS
<1>2. PICK s \in Seq(Nat) : s = owed[j] /\ s # <<>> /\ Len(s) <= 2
  BY HasBound DEF QuotaTyped, JobsOK, Books, JobFails
<1>3. /\ Left(s) \in Nat /\ Head(s) \in Nat /\ Tail(s) \in Seq(Nat) /\ Len(Tail(s)) <= 2
      /\ Left(s) = Head(s) + Left(Tail(s))
  BY <1>2, LeftIs
<1>4. PICK t \in Seq(Nat), paid \in Nat :
        /\ o = [owed EXCEPT ![j] = t] /\ used' = [used EXCEPT ![today] = @ + paid]
        /\ Len(t) <= 2 /\ Left(t) \in Nat /\ Left(t) + paid <= Left(s) /\ UNCHANGED <<today, unasked>>
  <2>1. CASE Books(j)
    <3>1. Left(Tail(s)) \in Nat
      BY <1>3, LeftIs
    <3>2. Left(Tail(s)) + Head(s) <= Left(s)
      BY <1>3, <3>1
    <3>3. o = [owed EXCEPT ![j] = Tail(s)] /\ used' = [used EXCEPT ![today] = @ + Head(s)] /\ UNCHANGED <<today, unasked>>
      BY <2>1, <1>1, <1>2 DEF Books, TrackQuotaUsage
    <3> QED BY <1>3, <3>1, <3>2, <3>3
  <2>2. CASE JobFails(j)
    <3>1. <<>> \in Seq(Nat) /\ Len(<<>>) = 0 /\ Left(<<>>) = 0
      BY EmptySeq DEF Left
    <3>2. o = [owed EXCEPT ![j] = <<>>] /\ used' = used /\ UNCHANGED <<today, unasked>>
      BY <2>2, <1>1 DEF JobFails
    <3>3. used = [used EXCEPT ![today] = @ + 0]
      BY HasBound DEF QuotaTyped
    <3>4. PICK e \in Seq(Nat) : e = <<>>
      BY <3>1
    <3>5. Len(e) = 0 /\ Left(e) = 0 /\ o = [owed EXCEPT ![j] = e]
      BY <3>1, <3>2, <3>4, Zenon
    <3>6. Len(e) <= 2 /\ Left(e) \in Nat /\ Left(e) + 0 <= Left(s)
      BY <1>3, <3>5
    <3>7. used' = [used EXCEPT ![today] = @ + 0] /\ UNCHANGED <<today, unasked>>
      BY <3>2, <3>3
    <3> QED BY <3>5, <3>6, <3>7
  <2> QED BY <2>1, <2>2
<1>5. o \in [Jobs -> Seq(Nat)] /\ o[j] = t /\ \A i \in Jobs \ {j} : o[i] = owed[i]
  BY <1>4, HasBound DEF QuotaTyped
<1>6. Left(s) <= Dearest /\ Left(s) <= QUOTA_LIMIT
  BY <1>2, HasBound DEF JobsOK
<1>7. Left(t) <= Dearest /\ Left(t) <= QUOTA_LIMIT
  BY <1>3, <1>4, <1>6, CostsAre
<1>8. \A i \in Jobs : Len(o[i]) <= 2 /\ Left(o[i]) <= Dearest /\ Left(o[i]) <= QUOTA_LIMIT
  BY <1>4, <1>5, <1>7, HasBound DEF JobsOK
<1>9. AllNat(Owing(o), Jobs) /\ (\A i \in Jobs : Owing(o)[i] = Left(o[i])) /\ SumOf(Owing(o), Jobs) \in Nat
  BY <1>5, <1>8, OwedIs
<1>10. SumOf(Owing(o), Jobs) + Left(s) = SumOf(Owing(owed), Jobs) + Left(t)
  <2>1. \A i \in Jobs \ {j} : Owing(o)[i] = Owing(owed)[i]
    BY <1>5, <1>9, HasBound
  <2>2. SumOf(Owing(o), Jobs) + Owing(owed)[j] = SumOf(Owing(owed), Jobs) + Owing(o)[j]
    BY <1>9, <2>1, HasBound, QuotaAssumption, SumChanged
  <2> QED BY <2>2, <1>2, <1>5, <1>9, HasBound
<1>11. used' \in [1..MaxDays -> Nat] /\ used'[today] = used[today] + paid /\ today \in 1..MaxDays
       /\ \A d \in 1..MaxDays : d # today => used'[d] = used[d]
  BY <1>4, HasBound DEF QuotaTyped
<1>12. used'[today] + SumOf(Owing(o), Jobs) <= MostUsed + unasked
  <2>1. PICK u \in Nat, w \in Nat, q \in Nat, p \in Nat, l \in Nat, m \in Nat :
          /\ u = used[today] /\ w = unasked /\ q = SumOf(Owing(owed), Jobs) /\ p = SumOf(Owing(o), Jobs)
          /\ l = Left(s) /\ m = Left(t)
    BY <1>3, <1>4, <1>9, HasBound
  <2>2. m + paid <= l /\ p + l = q + m
    BY <1>4, <1>10, <2>1
  <2>3. PICK b \in Nat : b = MostUsed
    BY BoundIs
  <2>4. u + q <= b + w
    BY <2>1, <2>3, HasBound
  <2>5. (u + paid) + p <= b + w
    BY <2>2, <2>4
  <2> QED BY <1>11, <2>1, <2>3, <2>5
<1>13. QuotaTyped' /\ JobsOK'
  BY <1>1, <1>4, <1>5, <1>8, <1>11, HasBound DEF QuotaTyped, JobsOK
<1>14. \A d \in 1..MaxDays : d > today' => used'[d] = 0
  BY <1>4, <1>11, HasBound
<1>15. used'[today'] + SumOf(Owing(owed'), Jobs) <= MostUsed + unasked'
  BY <1>1, <1>4, <1>12
<1> QED BY <1>13, <1>14, <1>15, KeepsBound

\* What does not look raises both sides alike.
LEMMA SpendsKeeps ==
  ASSUME QuotaIInv, NEW units \in Nat, Spends(units)
  PROVE  QuotaIInv'
<1>1. unasked' = unasked + units /\ used' = [used EXCEPT ![today] = @ + units] /\ UNCHANGED <<today, owed>>
  BY DEF Spends, TrackQuotaUsage
<1>2. used' \in [1..MaxDays -> Nat] /\ used'[today] = used[today] + units /\ today \in 1..MaxDays
      /\ \A d \in 1..MaxDays : d # today => used'[d] = used[d]
  BY <1>1, HasBound DEF QuotaTyped
<1>3. used'[today] + SumOf(Owing(owed), Jobs) <= MostUsed + unasked'
  BY <1>1, <1>2, HasBound, BoundIs
<1>4. QuotaTyped' /\ JobsOK'
  BY <1>1, <1>2, HasBound DEF QuotaTyped, JobsOK
<1>5. \A d \in 1..MaxDays : d > today' => used'[d] = 0
  BY <1>1, <1>2, HasBound
<1>6. used'[today'] + SumOf(Owing(owed'), Jobs) <= MostUsed + unasked'
  BY <1>1, <1>3
<1> QED BY <1>4, <1>5, <1>6, KeepsBound

\* At midnight nothing is used; every job saw the limit, at least, above its own cost.
LEMMA MidnightKeeps ==
  ASSUME QuotaIInv, Midnight
  PROVE  QuotaIInv'
<1>1. today' = today + 1 /\ today < MaxDays /\ UNCHANGED <<used, owed, unasked>>
  BY DEF Midnight
<1>2. today \in 1..MaxDays /\ today' \in 1..MaxDays
  BY <1>1, HasBound, CostsAre DEF QuotaTyped
<1>3. used[today'] = 0
  BY <1>1, <1>2, HasBound
<1>4. PICK j : j \in Jobs
  BY QuotaAssumption
<1>5. \A i \in Jobs : Owing(owed)[i] <= Dearest
  BY HasBound DEF JobsOK
<1>6. SumOf(Owing(owed), Jobs) <= Owing(owed)[j] + (Cardinality(Jobs) - 1) * Dearest
  BY <1>4, <1>5, HasBound, OthersOwe
<1>7. PICK p : p = (Cardinality(Jobs) - 1) * Dearest
  OBVIOUS
<1>8. p \in Nat /\ MostUsed = QUOTA_LIMIT + p
  BY <1>7, OthersAre DEF MostUsed
<1>9. Owing(owed)[j] \in Nat /\ Owing(owed)[j] <= QUOTA_LIMIT
  BY <1>4, HasBound DEF JobsOK
<1>10. SumOf(Owing(owed), Jobs) <= MostUsed + unasked
  BY <1>6, <1>7, <1>8, <1>9, HasBound, CostsAre
<1>11. used'[today'] + SumOf(Owing(owed'), Jobs) <= MostUsed + unasked'
  BY <1>1, <1>3, <1>10, HasBound
<1>12. QuotaTyped' /\ JobsOK'
  BY <1>1, <1>2, HasBound DEF QuotaTyped, JobsOK
<1>13. \A d \in 1..MaxDays : d > today' => used'[d] = 0
  BY <1>1, <1>2, HasBound
<1> QED BY <1>11, <1>12, <1>13, KeepsBound

\* What the requests that do not look cost is a natural number.
LEMMA OthersSpend ==
  ASSUME \/ SyncUploads \/ CheckVideoProcessingStatus \/ GetConnectionStatus \/ GetRecentUploads
         \/ ListPlaylists \/ ListPlaylistItems \/ CreatePlaylist \/ AddVideoToPlaylist \/ GetVideoMetadata
         \/ UpdateVideoMetadata \/ SetThumbnail \/ UpdatePlaylist \/ DeletePlaylist \/ RemovePlaylistItem
  PROVE  \E units \in Nat : Spends(units)
<1>1. UPLOAD_COST \in Nat /\ LIST_COST \in Nat /\ WRITE_COST \in Nat /\ LIST_COST + WRITE_COST \in Nat
      /\ \A n \in Nat : n * LIST_COST \in Nat
  BY CostsAre
<1>2. ASSUME NEW pages, Lists(pages) PROVE \E units \in Nat : Spends(units)
  <2>1. PICK n \in 1..pages : Spends(n * LIST_COST)
    BY <1>2 DEF Lists
  <2>2. n \in Nat
    BY <2>1
  <2> QED BY <1>1, <2>1, <2>2
<1> QED BY <1>1, <1>2, Zenon DEF SyncUploads, CheckVideoProcessingStatus, GetConnectionStatus, GetRecentUploads,
          ListPlaylists, ListPlaylistItems, CreatePlaylist, AddVideoToPlaylist, GetVideoMetadata,
          UpdateVideoMetadata, SetThumbnail, UpdatePlaylist, DeletePlaylist, RemovePlaylistItem

\* Uploads that overlap exceed the quota of a day (YoutubeService reads it before an upload
\* and books after it) by what all but one of them cost and by what was booked without
\* looking, and by no more, for any number of jobs, any costs and any limit.
THEOREM OvershootIsBounded == QuotaSpec => []QuotaOvershoot
<1>1. QuotaInit => QuotaIInv
  <2> SUFFICES ASSUME QuotaInit PROVE QuotaIInv
    OBVIOUS
  <2>1. <<>> \in Seq(Nat) /\ Len(<<>>) = 0 /\ Left(<<>>) = 0
    BY EmptySeq DEF Left
  <2>2. owed \in [Jobs -> Seq(Nat)] /\ \A j \in Jobs : owed[j] = <<>>
    BY <2>1 DEF QuotaInit
  <2>3. JobsOK
    BY <2>1, <2>2, CostsAre DEF JobsOK
  <2>4. 1 \in 1..MaxDays
    BY QuotaAssumption
  <2>5. QuotaTyped /\ used[today] = 0 /\ unasked = 0 /\ \A d \in 1..MaxDays : d > today => used[d] = 0
    BY <2>2, <2>4 DEF QuotaInit, QuotaTyped
  <2>6. /\ AllNat(Owing(owed), Jobs) /\ SumOf(Owing(owed), Jobs) \in Nat
        /\ \A j \in Jobs : Owing(owed)[j] = 0
    BY <2>1, <2>2, OwedIs
  <2>7. PICK j : j \in Jobs
    BY QuotaAssumption
  <2>8. SumOf(Owing(owed), Jobs) <= Owing(owed)[j] + (Cardinality(Jobs) - 1) * Dearest
    BY <2>6, <2>7, CostsAre, OthersOwe
  <2>9. SumOf(Owing(owed), Jobs) <= MostUsed
    BY <2>6, <2>7, <2>8, OthersAre, CostsAre DEF MostUsed
  <2>10. used[today] + SumOf(Owing(owed), Jobs) <= QUOTA_LIMIT + (Cardinality(Jobs) - 1) * Dearest + unasked
    BY <2>5, <2>6, <2>9, BoundIs DEF MostUsed
  <2> QED BY <2>3, <2>5, <2>10 DEF QuotaIInv
<1>2. QuotaIInv /\ [QuotaNext]_quotaVars => QuotaIInv'
  <2> SUFFICES ASSUME QuotaIInv, [QuotaNext]_quotaVars PROVE QuotaIInv'
    OBVIOUS
  <2>1. ASSUME NEW j \in Jobs, UploadManualVideo(j) \/ UploadCaptionTrack(j) PROVE QuotaIInv'
    BY <2>1, StartsKeeps
  <2>2. ASSUME NEW j \in Jobs, Books(j) \/ JobFails(j) PROVE QuotaIInv'
    BY <2>2, BooksKeeps
  <2>3. ASSUME \E units \in Nat : Spends(units) PROVE QuotaIInv'
    BY <2>3, SpendsKeeps
  <2>4. CASE Midnight
    BY <2>4, MidnightKeeps
  <2>5. CASE UNCHANGED quotaVars
    <3>1. UNCHANGED <<used, today, owed, unasked>>
      BY <2>5 DEF quotaVars
    <3> QED BY <3>1 DEF QuotaIInv, QuotaTyped, JobsOK, Owing, SumOf, MapThenSumSet, MapThenFoldSet
  <2> QED BY <2>1, <2>2, <2>3, <2>4, <2>5, OthersSpend DEF QuotaNext
<1>3. QuotaIInv => QuotaOvershoot
  <2> SUFFICES ASSUME QuotaIInv PROVE QuotaOvershoot
    OBVIOUS
  <2>1. used[today] <= MostUsed + unasked
    BY HasBound, BoundIs
  <2> QED BY <2>1 DEF QuotaOvershoot, MostUsed
<1> QED BY <1>1, <1>2, <1>3, PTL DEF QuotaSpec

\* Jobs owe costs, and the days count no more than what is booked.
LEMMA QuotaTypes == QuotaInit => QuotaTypeOK
<1> SUFFICES ASSUME QuotaInit PROVE QuotaTypeOK
  OBVIOUS
<1>1. <<>> \in Seq(Costs) /\ 1 \in 1..MaxDays /\ 0 \in 0..MaxBooked
  BY QuotaAssumption
<1> QED BY <1>1 DEF QuotaInit, QuotaTypeOK

\* Each action of the quota keeps its types.
LEMMA QuotaStep == QuotaTypeOK /\ [QuotaNext]_quotaVars => QuotaTypeOK'
<1> SUFFICES ASSUME QuotaTypeOK, [QuotaNext]_quotaVars PROVE QuotaTypeOK'
  OBVIOUS
<1>1. /\ used \in [1..MaxDays -> Nat] /\ today \in 1..MaxDays
      /\ owed \in [Jobs -> Seq(Costs)] /\ unasked \in 0..MaxBooked
  BY DEF QuotaTypeOK
<1>2. MaxBooked \in Nat /\ MaxDays \in Nat
  BY QuotaAssumption
<1>3. Costs \subseteq Nat
  BY CostsAre DEF Costs
<1>4. ASSUME NEW j \in Jobs, NEW needed, NEW costs \in Seq(Costs), StartsJob(j, needed, costs)
      PROVE  QuotaTypeOK'
  <2>1. owed' = [owed EXCEPT ![j] = costs] /\ UNCHANGED <<used, today, unasked>>
    BY <1>4 DEF StartsJob
  <2> QED BY <1>1, <1>4, <2>1 DEF QuotaTypeOK
<1>5. ASSUME NEW j \in Jobs, UploadManualVideo(j) \/ UploadCaptionTrack(j) PROVE QuotaTypeOK'
  <2>1. <<UPLOAD_COST>> \in Seq(Costs)
    BY DEF Costs
  <2>2. \A last \in {CAPTION_INSERT_COST, CAPTION_UPDATE_COST} : <<CAPTION_LIST_COST, last>> \in Seq(Costs)
    BY DEF Costs
  <2>3. CASE UploadManualVideo(j)
    BY <2>3, <2>1, <1>4 DEF UploadManualVideo
  <2>4. CASE UploadCaptionTrack(j)
    BY <2>4, <2>2, <1>4 DEF UploadCaptionTrack
  <2> QED BY <1>5, <2>3, <2>4
<1>6. ASSUME NEW j \in Jobs, Books(j) PROVE QuotaTypeOK'
  <2>1. PICK s \in Seq(Costs) : s = owed[j]
    BY <1>1
  <2>2. s # <<>> /\ used' = [used EXCEPT ![today] = @ + Head(s)] /\ owed' = [owed EXCEPT ![j] = Tail(s)]
        /\ UNCHANGED <<today, unasked>>
    BY <1>6, <2>1, <1>1 DEF Books, TrackQuotaUsage
  <2>3. Head(s) \in Costs /\ Tail(s) \in Seq(Costs)
    BY <2>2, HeadTailProperties
  <2>4. PICK c \in Nat : c = Head(s)
    BY <1>3, <2>3
  <2>5. used' = [used EXCEPT ![today] = @ + c]
    BY <2>2, <2>4, Zenon
  <2>6. used[today] + c \in Nat
    BY <1>1
  <2>7. used' \in [1..MaxDays -> Nat]
    BY <1>1, <2>5, <2>6
  <2> QED BY <1>1, <2>2, <2>3, <2>7 DEF QuotaTypeOK
<1>7. ASSUME NEW j \in Jobs, JobFails(j) PROVE QuotaTypeOK'
  <2>1. owed' = [owed EXCEPT ![j] = <<>>] /\ UNCHANGED <<used, today, unasked>>
    BY <1>7 DEF JobFails
  <2>2. <<>> \in Seq(Costs)
    OBVIOUS
  <2> QED BY <1>1, <2>1, <2>2 DEF QuotaTypeOK
<1>8. ASSUME NEW units \in Nat, Spends(units) PROVE QuotaTypeOK'
  <2>1. /\ unasked + units <= MaxBooked /\ unasked' = unasked + units
        /\ used' = [used EXCEPT ![today] = @ + units] /\ UNCHANGED <<today, owed>>
    BY <1>8 DEF Spends, TrackQuotaUsage
  <2>2. used' \in [1..MaxDays -> Nat]
    BY <1>1, <1>8, <2>1
  <2>3. unasked' \in 0..MaxBooked
    BY <1>1, <1>2, <1>8, <2>1
  <2> QED BY <1>1, <2>1, <2>2, <2>3 DEF QuotaTypeOK
<1>9. CASE Midnight
  <2>1. today < MaxDays /\ today' = today + 1 /\ UNCHANGED <<used, owed, unasked>>
    BY <1>9 DEF Midnight
  <2>2. today' \in 1..MaxDays
    BY <1>1, <1>2, <2>1
  <2> QED BY <1>1, <2>1, <2>2 DEF QuotaTypeOK
<1>10. CASE UNCHANGED quotaVars
  BY <1>1, <1>10 DEF QuotaTypeOK, quotaVars
<1>11. ASSUME \E units \in Nat : Spends(units) PROVE QuotaTypeOK'
  BY <1>8, <1>11
<1> QED BY <1>5, <1>6, <1>7, <1>9, <1>10, <1>11, OthersSpend DEF QuotaNext

-----------------------------------------------------------------------------
(* The actions on links *)

\* What the invariant says of one row and of one link.
LEMMA RowsAre ==
  ASSUME MatchingIInv
  PROVE  /\ \A r \in RecordingIds : tracks[r] # NoMatch =>
              /\ tracks[r] \in Track /\ tracks[r].user \in Users
              /\ tracks[r].video \in channel \cup {NoMatch}
         /\ channel \subseteq VideoIds /\ NoMatch \notin channel
         /\ uploaded # NoMatch => uploaded[1] \in RecordingIds /\ uploaded[2] \in channel
         /\ tracks \in [RecordingIds -> Track \cup {NoMatch}] /\ linking \in [Linkers -> Link]
<1>1. tracks \in [RecordingIds -> Track \cup {NoMatch}] /\ linking \in [Linkers -> Link] /\ channel \subseteq VideoIds
  BY DEF MatchingIInv, MatchingTyped
<1>2. NoMatch \notin channel
  BY <1>1, MatchingAssumption DEF VideoIds
<1>3. uploaded # NoMatch => uploaded[1] \in RecordingIds /\ uploaded[2] \in channel
  BY DEF MatchingIInv, MatchingTyped, OnTheChannel, Pairs
<1>4. \A t \in Track : t.user \in Users
  BY DEF Track
<1>5. \A r \in RecordingIds : tracks[r] # NoMatch => tracks[r] \in Track
  BY <1>1
<1>6. \A r \in RecordingIds : tracks[r] # NoMatch => tracks[r].video \in channel \cup {NoMatch}
  BY DEF MatchingIInv, OnTheChannel
<1> QED BY <1>1, <1>2, <1>3, <1>4, <1>5, <1>6

\* A step that neither writes a row nor changes a link or the channel.
LEMMA LooksKeep ==
  ASSUME MatchingIInv, MatchingTyped', UNCHANGED <<tracks, channel, linking, uploaded, linksRaced>>
  PROVE  MatchingIInv'
BY DEF MatchingIInv, OnTheChannel, LinkedOnce, WritesAlone, Taken

\* A row that loses its video, keeps it or is gone is nobody's obstacle.
LEMMA RowsKeep ==
  ASSUME MatchingIInv, NEW r \in RecordingIds, NEW t \in Track \cup {NoMatch},
         tracks' = [tracks EXCEPT ![r] = t],
         UNCHANGED <<channel, listed, suggested, asking, linking, uploaded, linksRaced>>,
         t # NoMatch =>
           \/ t.video = NoMatch
           \/ tracks[r] # NoMatch /\ t.user = tracks[r].user /\ t.video = tracks[r].video
  PROVE  MatchingIInv'
<1>1. tracks' \in [RecordingIds -> Track \cup {NoMatch}] /\ tracks'[r] = t
      /\ \A s \in RecordingIds \ {r} : tracks'[s] = tracks[s]
  BY RowsAre
<1>2. MatchingTyped'
  BY <1>1 DEF MatchingIInv, MatchingTyped
\* A row with a video had it before.
<1>3. \A s \in RecordingIds : tracks'[s] # NoMatch =>
        \/ tracks'[s].video = NoMatch
        \/ tracks[s] # NoMatch /\ tracks'[s].user = tracks[s].user /\ tracks'[s].video = tracks[s].video
  BY <1>1
<1>4. OnTheChannel'
  BY <1>3 DEF MatchingIInv, OnTheChannel
<1>5. LinkedOnce'
  BY <1>3 DEF MatchingIInv, LinkedOnce
<1>6. ASSUME WritesAlone PROVE WritesAlone'
  <2>1. ASSUME NEW k \in Linkers, linking[k].step = "write", Taken(linking[k])' PROVE FALSE
    <3>1. PICK s \in RecordingIds \ {linking[k].recording} :
            tracks'[s] # NoMatch /\ tracks'[s].user = linking[k].user /\ tracks'[s].video = linking[k].video
      BY <2>1 DEF Taken
    <3>2. linking[k].video \in channel
      BY <2>1 DEF MatchingIInv, OnTheChannel
    <3>3. Taken(linking[k])
      BY <1>3, <3>1, <3>2, RowsAre DEF Taken
    <3> QED BY <1>6, <2>1, <3>3 DEF WritesAlone
  <2>2. ASSUME NEW s \in RecordingIds, tracks'[s] # NoMatch, uploaded # NoMatch, tracks'[s].video = uploaded[2]
        PROVE FALSE
    BY <1>3, <1>6, <2>2, RowsAre DEF WritesAlone
  <2> QED BY <1>6, <2>1, <2>2 DEF WritesAlone
<1> QED BY <1>2, <1>4, <1>5, <1>6 DEF MatchingIInv

\* A link that is not about to be written is nobody's obstacle either.
LEMMA LinksKeep ==
  ASSUME MatchingIInv, NEW k \in Linkers, NEW l \in Link, linking' = [linking EXCEPT ![k] = l],
         UNCHANGED <<tracks, channel, listed, suggested, asking, uploaded>>,
         linksRaced' \in BOOLEAN, linksRaced => linksRaced', l.step # "write",
         l.step # "idle" => l.user \in Users /\ l.recording \in RecordingIds /\ l.video \in VideoIds,
         l.step = "taken" => l.video \in channel
  PROVE  MatchingIInv'
<1>1. linking' \in [Linkers -> Link] /\ linking'[k] = l /\ \A j \in Linkers \ {k} : linking'[j] = linking[j]
  BY RowsAre
<1>2. MatchingTyped'
  BY <1>1 DEF MatchingIInv, MatchingTyped
<1>3. OnTheChannel'
  BY <1>1 DEF MatchingIInv, OnTheChannel
<1>4. LinkedOnce'
  BY DEF MatchingIInv, LinkedOnce
<1>5. ASSUME WritesAlone PROVE WritesAlone'
  <2>1. \A j \in Linkers : linking'[j].step = "write" => j # k /\ linking'[j] = linking[j]
    BY <1>1
  <2>2. \A j \in Linkers : linking'[j].step = "write" => ~Taken(linking[j])'
    BY <1>5, <2>1 DEF WritesAlone, Taken
  <2> QED BY <1>5, <2>1, <2>2 DEF WritesAlone, Taken
<1> QED BY <1>2, <1>3, <1>4, <1>5, Zenon DEF MatchingIInv

\* A listing reads, asks and shows; it writes no row.
LEMMA ListingsKeep ==
  ASSUME MatchingIInv, NEW u \in Users,
         \/ AttachMatches(u) \/ ListVideos(u) \/ MatchesAttached(u)
         \/ \E p \in Pairs : Dismiss(u, p)
  PROVE  MatchingIInv'
<1> USE DEF MatchingIInv
<1>1. UNCHANGED <<tracks, channel, linking, uploaded, linksRaced>>
  BY DEF AttachMatches, ListVideos, MatchesAttached, Dismiss
<1>2. /\ listed \in [Users -> SUBSET channel] /\ channel \subseteq VideoIds /\ suggested \in [Users -> SUBSET Pairs]
      /\ DOMAIN asking = Users
      /\ \A v \in Users : asking[v] # NoMatch => asking[v].candidates \subseteq RecordingIds
  BY DEF MatchingTyped
<1>3. CASE AttachMatches(u)
  <2>1. PICK a : /\ asking' = [asking EXCEPT ![u] = a] /\ a.candidates = {r \in RecordingIds : tracks[r] = NoMatch}
                 /\ UNCHANGED <<listed, suggested>>
    BY <1>3 DEF AttachMatches
  <2>2. a.candidates \subseteq RecordingIds
    BY <2>1
  <2>3. DOMAIN asking' = Users /\ \A v \in Users : asking'[v] # NoMatch => asking'[v].candidates \subseteq RecordingIds
    BY <1>2, <2>1, <2>2
  <2>4. MatchingTyped'
    BY <1>1, <2>1, <2>3 DEF MatchingTyped
  <2> QED BY <1>1, <2>4, LooksKeep
<1>4. CASE ListVideos(u)
  <2>1. listed' \in [Users -> SUBSET channel] /\ UNCHANGED <<suggested, asking>>
    BY <1>2, <1>4 DEF ListVideos
  <2>2. MatchingTyped'
    BY <1>1, <2>1 DEF MatchingTyped
  <2> QED BY <1>1, <2>2, LooksKeep
<1>5. CASE MatchesAttached(u)
  <2>1. PICK found \in FindMatches(asking[u].candidates, listed[u], asking[u].used, dismissed[u]) :
          suggested' = [suggested EXCEPT ![u] = found]
    BY <1>5 DEF MatchesAttached
  <2>2. asking[u] # NoMatch /\ asking' = [asking EXCEPT ![u] = NoMatch] /\ UNCHANGED listed
    BY <1>5 DEF MatchesAttached
  <2>3. found \subseteq asking[u].candidates \X listed[u]
    <3>1. \A R, V, used_, refused : \A f \in FindMatches(R, V, used_, refused) : f \subseteq R \X V
      <4> TAKE R, V, used_, refused
      <4>1. PICK E : /\ E = {p \in (R \X (V \ used_)) \ refused : ScoreMatch(p[1], p[2]) >= MATCH_THRESHOLD}
                     /\ FindMatches(R, V, used_, refused) \subseteq SUBSET E
        BY DEF FindMatches
      <4>2. E \subseteq R \X V
        BY <4>1
      <4> QED BY <4>1, <4>2
    <3> QED BY <2>1, <3>1
  <2>4. found \subseteq Pairs
    BY <1>2, <2>2, <2>3 DEF Pairs
  <2>5. suggested' \in [Users -> SUBSET Pairs]
    BY <1>2, <2>1, <2>4
  <2>6. DOMAIN asking' = Users /\ \A v \in Users : asking'[v] # NoMatch => asking'[v].candidates \subseteq RecordingIds
    BY <1>2, <2>2
  <2>7. MatchingTyped'
    BY <1>1, <2>2, <2>5, <2>6 DEF MatchingTyped
  <2> QED BY <1>1, <2>7, LooksKeep
<1>6. ASSUME NEW p \in Pairs, Dismiss(u, p) PROVE MatchingIInv'
  <2>1. suggested' \in [Users -> SUBSET Pairs] /\ UNCHANGED <<listed, asking>>
    BY <1>2, <1>6 DEF Dismiss
  <2>2. MatchingTyped'
    BY <1>1, <2>1 DEF MatchingTyped
  <2> QED BY <1>1, <2>2, LooksKeep
<1> QED BY <1>3, <1>4, <1>5, <1>6

\* A link is asked for and its video looked up; it is not written yet.
LEMMA AsksKeep ==
  ASSUME MatchingIInv, NEW k \in Linkers,
         \/ \E u \in Users : \E p \in Pairs : AskLink(k, u, p)
         \/ LinkReadsVideo(k)
  PROVE  MatchingIInv'
<1>1. CASE \E u \in Users : \E p \in Pairs : AskLink(k, u, p)
  <2>1. PICK u \in Users, p \in Pairs : AskLink(k, u, p)
    BY <1>1
  <2>2. PICK l : l = [step |-> "video", user |-> u, recording |-> p[1], video |-> p[2]]
    OBVIOUS
  <2>3. p[1] \in RecordingIds /\ p[2] \in VideoIds
    BY DEF Pairs
  <2>4. l \in Link /\ l.step = "video" /\ l.user = u /\ l.recording = p[1] /\ l.video = p[2]
    BY <2>2, <2>3 DEF Link
  <2>5. UNCHANGED <<tracks, channel, listed, suggested, asking, uploaded, linksRaced>>
    BY <2>1 DEF AskLink
  <2>6. CASE linking' = [linking EXCEPT ![k] = l]
    <3>1. linksRaced' \in BOOLEAN
      BY <2>5 DEF MatchingIInv, MatchingTyped
    <3> QED BY <2>3, <2>4, <2>5, <2>6, <3>1, LinksKeep
  <2>7. CASE UNCHANGED linking
    <3>1. MatchingTyped'
      BY <2>5, <2>7 DEF MatchingIInv, MatchingTyped
    <3> QED BY <2>5, <2>7, <3>1, LooksKeep
  <2> QED BY <2>1, <2>2, <2>6, <2>7 DEF AskLink
<1>2. CASE LinkReadsVideo(k)
  <2>1. PICK l : l = linking[k]
    OBVIOUS
  <2>2. l \in Link /\ l.step = "video" /\ l.user \in Users /\ l.recording \in RecordingIds /\ l.video \in VideoIds
    BY <1>2, <2>1 DEF LinkReadsVideo, MatchingIInv, MatchingTyped
  <2>3. UNCHANGED <<tracks, channel, listed, suggested, asking, uploaded, linksRaced>> /\ linksRaced' \in BOOLEAN
    BY <1>2 DEF LinkReadsVideo, MatchingIInv, MatchingTyped
  <2>4. linking' = [linking EXCEPT ![k] = IF l.video \in listed[l.user] THEN [l EXCEPT !.step = "taken"] ELSE NotLinking]
    BY <1>2, <2>1 DEF LinkReadsVideo
  <2>5. CASE l.video \in listed[l.user]
    <3>1. PICK m : m = [l EXCEPT !.step = "taken"]
      OBVIOUS
    <3>2. m \in Link /\ m.step = "taken" /\ m.user = l.user /\ m.recording = l.recording /\ m.video = l.video
      BY <2>2, <3>1 DEF Link
    <3>3. m.video \in channel
      BY <2>2, <2>5, <3>2 DEF MatchingIInv, MatchingTyped
    <3>4. linking' = [linking EXCEPT ![k] = m]
      BY <2>4, <2>5, <3>1
    <3> QED BY <2>2, <2>3, <3>2, <3>3, <3>4, LinksKeep
  <2>6. CASE l.video \notin listed[l.user]
    <3>1. PICK m : m = NotLinking
      OBVIOUS
    <3>2. m \in Link /\ m.step = "idle"
      BY <3>1 DEF Link, NotLinking
    <3>3. linking' = [linking EXCEPT ![k] = m]
      BY <2>4, <2>6, <3>1
    <3> QED BY <2>3, <3>2, <3>3, LinksKeep
  <2> QED BY <2>5, <2>6
<1> QED BY <1>1, <1>2

\* The last read before the write: nobody has the video, or the link ends; and if
\* somebody is about to have it the two overlap.
LEMMA ReadsTakenKeeps ==
  ASSUME MatchingIInv, NEW k \in Linkers, LinkReadsTaken(k)
  PROVE  MatchingIInv'
<1>1. PICK l : l = linking[k]
  OBVIOUS
<1>2. /\ l \in Link /\ l.step = "taken" /\ l.user \in Users /\ l.recording \in RecordingIds /\ l.video \in VideoIds
      /\ l.video \in channel
  BY <1>1 DEF LinkReadsTaken, MatchingIInv, MatchingTyped, OnTheChannel
<1>3. UNCHANGED <<tracks, channel, listed, suggested, asking, uploaded>>
  BY DEF LinkReadsTaken
<1>4. linksRaced' \in BOOLEAN /\ (linksRaced => linksRaced') /\ (linksRaced' \/ ~Overlaps(k))
  BY Zenon DEF LinkReadsTaken
<1>5. CASE Taken(l)
  <2>1. PICK m : m = NotLinking
    OBVIOUS
  <2>2. m \in Link /\ m.step = "idle"
    BY <2>1 DEF Link, NotLinking
  <2>3. linking' = [linking EXCEPT ![k] = m]
    BY <1>1, <1>5, <2>1 DEF LinkReadsTaken
  <2> QED BY <1>3, <1>4, <2>2, <2>3, LinksKeep
<1>6. CASE ~Taken(l)
  <2>1. PICK m : m = [l EXCEPT !.step = "write"]
    OBVIOUS
  <2>2. m \in Link /\ m.step = "write" /\ m.user = l.user /\ m.recording = l.recording /\ m.video = l.video
    BY <1>2, <2>1 DEF Link
  <2>3. linking' = [linking EXCEPT ![k] = m]
    BY <1>1, <1>6, <2>1 DEF LinkReadsTaken
  <2>4. linking' \in [Linkers -> Link] /\ linking'[k] = m /\ \A j \in Linkers \ {k} : linking'[j] = linking[j]
    BY <2>2, <2>3, RowsAre
  <2>5. MatchingTyped'
    BY <1>2, <1>3, <1>4, <2>2, <2>4 DEF MatchingIInv, MatchingTyped
  <2>6. OnTheChannel'
    BY <1>2, <1>3, <2>2, <2>4 DEF MatchingIInv, OnTheChannel
  <2>7. LinkedOnce'
    BY <1>3, <1>4 DEF MatchingIInv, LinkedOnce
  <2>8. ASSUME WritesAlone, ~Overlaps(k) PROVE WritesAlone'
    <3>1. ~Taken(m)'
      BY <1>3, <1>6, <2>2 DEF Taken
    <3>2. /\ uploaded # NoMatch => uploaded[2] # l.video
          /\ \A j \in Linkers \ {k} :
               ~(linking[j].step = "write" /\ linking[j].user = l.user /\ linking[j].video = l.video)
      BY <2>8, <1>1 DEF Overlaps
    <3>3. ASSUME NEW i \in Linkers, linking'[i].step = "write"
          PROVE  /\ ~Taken(linking[i])'
                 /\ \A j \in Linkers \ {i} :
                      ~(/\ linking'[j].step = "write" /\ linking'[j].user = linking'[i].user
                        /\ linking'[j].video = linking'[i].video)
                 /\ uploaded # NoMatch => uploaded[2] # linking'[i].video
      <4>1. CASE i = k
        BY <4>1, <2>2, <2>4, <3>1, <3>2
      <4>2. CASE i # k
        <5>1. linking'[i] = linking[i]
          BY <4>2, <2>4
        <5>2. ~Taken(linking[i])'
          BY <2>8, <3>3, <5>1, <1>3 DEF WritesAlone, Taken
        <5>3. uploaded # NoMatch => uploaded[2] # linking'[i].video
          BY <2>8, <3>3, <5>1 DEF WritesAlone
        <5>4. ASSUME NEW j \in Linkers \ {i}, linking'[j].step = "write", linking'[j].user = linking'[i].user,
                     linking'[j].video = linking'[i].video
              PROVE  FALSE
          <6>1. CASE j = k
            BY <6>1, <5>4, <5>1, <4>2, <3>2, <3>3, <2>2, <2>4
          <6>2. CASE j # k
            <7>1. linking'[j] = linking[j]
              BY <6>2, <2>4
            <7> QED BY <7>1, <5>1, <5>4, <2>8, <3>3 DEF WritesAlone
          <6> QED BY <6>1, <6>2
        <5> QED BY <5>2, <5>3, <5>4
      <4> QED BY <4>1, <4>2
    <3>4. uploaded # NoMatch => \A r \in RecordingIds : tracks[r] # NoMatch => tracks[r].video # uploaded[2]
      BY <2>8 DEF WritesAlone
    <3> QED BY <3>3, <3>4, <1>3 DEF WritesAlone, Taken
  <2> QED BY <1>4, <2>5, <2>6, <2>7, <2>8, Zenon DEF MatchingIInv
<1> QED BY <1>5, <1>6

\* The write: the row gets the user and the video of the link, or two writers overlapped.
LEMMA WritesKeep ==
  ASSUME MatchingIInv, NEW k \in Linkers, LinkWrites(k)
  PROVE  MatchingIInv'
<1>1. PICK l : l = linking[k]
  OBVIOUS
<1>2. /\ l \in Link /\ l.step = "write" /\ l.user \in Users /\ l.recording \in RecordingIds /\ l.video \in VideoIds
      /\ l.video \in channel
  BY <1>1 DEF LinkWrites, MatchingIInv, MatchingTyped, OnTheChannel
<1>3. PICK user : user = IF tracks[l.recording] = NoMatch THEN l.user ELSE tracks[l.recording].user
  OBVIOUS
<1>4. user \in Users
  BY <1>2, <1>3, RowsAre
<1>5. PICK t : t = [user |-> user, status |-> "COMPLETED", video |-> l.video, source |-> "linked"]
  OBVIOUS
<1>6. t \in Track /\ t.user = user /\ t.video = l.video
  BY <1>2, <1>4, <1>5 DEF Track
<1>7. tracks' = [tracks EXCEPT ![l.recording] = t] /\ linking' = [linking EXCEPT ![k] = NotLinking]
      /\ UNCHANGED <<channel, listed, suggested, asking, uploaded>>
  BY <1>1, <1>3, <1>5 DEF LinkWrites
<1>8. linksRaced' \in BOOLEAN /\ (linksRaced => linksRaced') /\ (linksRaced' \/ user = l.user)
  BY <1>1, <1>3, Zenon DEF LinkWrites
<1>9. tracks' \in [RecordingIds -> Track \cup {NoMatch}] /\ tracks'[l.recording] = t
      /\ \A r \in RecordingIds \ {l.recording} : tracks'[r] = tracks[r]
  BY <1>2, <1>6, <1>7, RowsAre
<1>10. NotLinking \in Link /\ NotLinking.step = "idle"
  BY DEF NotLinking, Link
<1>11. linking' \in [Linkers -> Link] /\ linking'[k].step = "idle" /\ \A j \in Linkers \ {k} : linking'[j] = linking[j]
  BY <1>7, <1>10, RowsAre
<1>12. MatchingTyped'
  BY <1>7, <1>8, <1>9, <1>11 DEF MatchingIInv, MatchingTyped
<1>13. OnTheChannel'
  <2>1. \A r \in RecordingIds : tracks'[r] # NoMatch => tracks'[r].video \in channel \cup {NoMatch}
    BY <1>2, <1>6, <1>9, RowsAre
  <2>2. \A j \in Linkers : linking'[j].step \in {"taken", "write"} => linking'[j].video \in channel
    BY <1>11 DEF MatchingIInv, OnTheChannel
  <2> QED BY <2>1, <2>2, <1>7 DEF MatchingIInv, OnTheChannel
<1>14. CASE linksRaced'
  BY <1>12, <1>13, <1>14, Zenon DEF MatchingIInv, LinkedOnce
<1>15. CASE ~linksRaced'
  <2>1. user = l.user /\ ~linksRaced /\ WritesAlone
    BY <1>8, <1>15, Zenon DEF MatchingIInv
\* No other row of the user had the video.
  <2>2. \A r \in RecordingIds \ {l.recording} :
          tracks[r] # NoMatch /\ tracks[r].user = l.user => tracks[r].video # l.video
    BY <2>1, <1>1, <1>2 DEF WritesAlone, Taken
\* No other link was about to write it, and no upload to note it.
  <2>3. /\ \A j \in Linkers \ {k} :
             ~(linking[j].step = "write" /\ linking[j].user = l.user /\ linking[j].video = l.video)
        /\ uploaded # NoMatch => uploaded[2] # l.video
    BY <2>1, <1>1, <1>2 DEF WritesAlone
  <2>4. \A r, s \in RecordingIds : r # s /\ tracks[r] # NoMatch /\ tracks[s] # NoMatch
          /\ tracks[r].user = tracks[s].user /\ tracks[r].video = tracks[s].video => tracks[r].video = NoMatch
    BY <2>1, Zenon DEF MatchingIInv, LinkedOnce
  <2>5. \A r, s \in RecordingIds : r # s /\ tracks'[r] # NoMatch /\ tracks'[s] # NoMatch
          /\ tracks'[r].user = tracks'[s].user /\ tracks'[r].video = tracks'[s].video => tracks'[r].video = NoMatch
    BY <1>6, <1>9, <2>1, <2>2, <2>4
  <2>6. LinkedOnce'
    BY <2>5, Zenon DEF LinkedOnce
  <2>7. ASSUME NEW i \in Linkers, linking'[i].step = "write"
        PROVE  /\ ~Taken(linking[i])'
               /\ \A j \in Linkers \ {i} :
                    ~(/\ linking'[j].step = "write" /\ linking'[j].user = linking'[i].user
                      /\ linking'[j].video = linking'[i].video)
               /\ uploaded # NoMatch => uploaded[2] # linking'[i].video
    <3>1. i # k /\ linking'[i] = linking[i]
      BY <2>7, <1>11
    <3>2. ~Taken(linking[i])
      BY <2>1, <2>7, <3>1 DEF WritesAlone
    <3>3. ~(linking[i].user = l.user /\ linking[i].video = l.video)
      BY <2>3, <2>7, <3>1
    <3>4. ~Taken(linking[i])'
      <4>1. SUFFICES ASSUME NEW s \in RecordingIds \ {linking[i].recording}, tracks'[s] # NoMatch,
                            tracks'[s].user = linking[i].user, tracks'[s].video = linking[i].video
                     PROVE  FALSE
        BY <3>1 DEF Taken
      <4>2. CASE s = l.recording
        BY <4>1, <4>2, <1>6, <1>9, <2>1, <3>3
      <4>3. CASE s # l.recording
        BY <4>1, <4>3, <1>9, <3>2 DEF Taken
      <4> QED BY <4>2, <4>3
    <3>5. uploaded # NoMatch => uploaded[2] # linking'[i].video
      BY <2>1, <2>7, <3>1 DEF WritesAlone
    <3>6. ASSUME NEW j \in Linkers \ {i}, linking'[j].step = "write", linking'[j].user = linking'[i].user,
                 linking'[j].video = linking'[i].video
          PROVE  FALSE
      <4>1. j # k /\ linking'[j] = linking[j]
        BY <3>6, <1>11
      <4> QED BY <4>1, <3>1, <3>6, <2>1, <2>7 DEF WritesAlone
    <3> QED BY <3>4, <3>5, <3>6
  <2>8. uploaded # NoMatch => \A r \in RecordingIds : tracks'[r] # NoMatch => tracks'[r].video # uploaded[2]
    BY <2>1, <2>3, <1>6, <1>9 DEF WritesAlone
  <2>9. WritesAlone'
    BY <2>7, <2>8, <1>7 DEF WritesAlone
  <2> QED BY <1>12, <1>13, <2>6, <2>9, Zenon DEF MatchingIInv
<1> QED BY <1>14, <1>15

\* A deleted row, an upload that begins or ends: no row gets a video.
LEMMA RowActionsKeep ==
  ASSUME MatchingIInv, NEW r \in RecordingIds,
         \/ \E u \in Users : Unlink(u, r) \/ UploadBegins(u, r)
         \/ \E status \in {"FAILED", "COMPLETED"} : UploadEnds(r, status)
  PROVE  MatchingIInv'
<1>1. UNCHANGED <<channel, listed, suggested, asking, linking, uploaded, linksRaced>>
  BY DEF Unlink, UploadBegins, UploadEnds
<1>2. tracks[r] # NoMatch => tracks[r] \in Track
  BY RowsAre
<1>3. ASSUME NEW status \in {"UPLOADING", "FAILED", "COMPLETED"}, tracks[r] # NoMatch,
             tracks' = [tracks EXCEPT ![r] = [tracks[r] EXCEPT !.status = status]]
      PROVE  MatchingIInv'
  <2>1. PICK t : t = [tracks[r] EXCEPT !.status = status]
    OBVIOUS
  <2>2. t \in Track /\ t.user = tracks[r].user /\ t.video = tracks[r].video
    BY <1>2, <1>3, <2>1 DEF Track
  <2>3. tracks' = [tracks EXCEPT ![r] = t]
    BY <1>3, <2>1
  <2> QED BY <1>1, <1>3, <2>2, <2>3, RowsKeep
<1>4. ASSUME NEW u \in Users, Unlink(u, r) PROVE MatchingIInv'
  <2>1. PICK t : t = NoMatch
    OBVIOUS
  <2>2. tracks' = [tracks EXCEPT ![r] = t]
    BY <1>4, <2>1 DEF Unlink
  <2> QED BY <1>1, <2>1, <2>2, RowsKeep
<1>5. ASSUME NEW u \in Users, UploadBegins(u, r) PROVE MatchingIInv'
  <2>1. CASE tracks[r] = NoMatch
    <3>1. PICK t : t = [user |-> u, status |-> "UPLOADING", video |-> NoMatch, source |-> "zoom"]
      OBVIOUS
    <3>2. t \in Track /\ t.video = NoMatch
      BY <3>1 DEF Track
    <3>3. tracks' = [tracks EXCEPT ![r] = t]
      BY <1>5, <2>1, <3>1 DEF UploadBegins
    <3> QED BY <1>1, <3>2, <3>3, RowsKeep
  <2>2. CASE tracks[r] # NoMatch
    <3>1. tracks' = [tracks EXCEPT ![r] = [tracks[r] EXCEPT !.status = "UPLOADING"]]
      BY <1>5, <2>2 DEF UploadBegins
    <3> QED BY <2>2, <3>1, <1>3
  <2> QED BY <2>1, <2>2
<1>6. ASSUME NEW status \in {"FAILED", "COMPLETED"}, UploadEnds(r, status) PROVE MatchingIInv'
  <2>1. tracks[r] # NoMatch /\ tracks' = [tracks EXCEPT ![r] = [tracks[r] EXCEPT !.status = status]]
    BY <1>6 DEF UploadEnds
  <2> QED BY <2>1, <1>3
<1> QED BY <1>4, <1>5, <1>6

\* A video that is new on the channel is nobody's yet.
LEMMA VideoInsertedKeeps ==
  ASSUME MatchingIInv, NEW r \in RecordingIds, NEW v \in VideoIds, VideoInserted(r, v)
  PROVE  MatchingIInv'
<1>1. /\ uploaded = NoMatch /\ v \notin channel /\ channel' = channel \cup {v} /\ uploaded' = <<r, v>>
      /\ UNCHANGED <<tracks, listed, suggested, asking, linking, linksRaced>>
  BY DEF VideoInserted
<1>2. uploaded'[2] = v /\ uploaded' \in Pairs /\ v # NoMatch
  BY <1>1, MatchingAssumption DEF Pairs, VideoIds
<1>3. MatchingTyped'
  <2>1. channel' \subseteq VideoIds /\ listed' \in [Users -> SUBSET channel']
    BY <1>1 DEF MatchingIInv, MatchingTyped
  <2> QED BY <1>1, <1>2, <2>1 DEF MatchingIInv, MatchingTyped
<1>4. OnTheChannel'
  BY <1>1, <1>2 DEF MatchingIInv, OnTheChannel
<1>5. LinkedOnce'
  BY <1>1 DEF MatchingIInv, LinkedOnce
<1>6. ASSUME WritesAlone PROVE WritesAlone'
  <2>1. \A k \in Linkers : linking[k].step = "write" => linking[k].video # v
    BY <1>1 DEF MatchingIInv, OnTheChannel
  <2>2. \A s \in RecordingIds : tracks[s] # NoMatch => tracks[s].video # v
    BY <1>1, <1>2, RowsAre
  <2> QED BY <1>1, <1>2, <1>6, <2>1, <2>2 DEF WritesAlone, Taken
<1> QED BY <1>1, <1>3, <1>4, <1>5, <1>6, Zenon DEF MatchingIInv

\* Its row gets it; no other row had it, and no link is about to write it.
LEMMA VideoNotedKeeps ==
  ASSUME MatchingIInv, VideoNoted
  PROVE  MatchingIInv'
<1>1. PICK r \in RecordingIds, v \in channel : uploaded # NoMatch /\ r = uploaded[1] /\ v = uploaded[2]
  BY RowsAre DEF VideoNoted
<1>2. uploaded' = NoMatch /\ UNCHANGED <<channel, listed, suggested, asking, linking, linksRaced>>
  BY DEF VideoNoted
<1>3. tracks' = [tracks EXCEPT ![r] = IF @ = NoMatch THEN @ ELSE [@ EXCEPT !.status = "PROCESSING", !.video = v]]
  BY <1>1 DEF VideoNoted
<1>4. PICK t \in Track \cup {NoMatch} :
        /\ tracks' = [tracks EXCEPT ![r] = t]
        /\ t # NoMatch => tracks[r] # NoMatch /\ t.user = tracks[r].user /\ t.video = v
  <2>1. CASE tracks[r] = NoMatch
    BY <2>1, <1>3
  <2>2. CASE tracks[r] # NoMatch
    <3>1. PICK m : m = [tracks[r] EXCEPT !.status = "PROCESSING", !.video = v]
      OBVIOUS
    <3>2. tracks[r] \in Track /\ v \in VideoIds
      BY <2>2, RowsAre
    <3>3. m \in Track /\ m.user = tracks[r].user /\ m.video = v
      BY <3>1, <3>2 DEF Track
    <3>4. tracks' = [tracks EXCEPT ![r] = m]
      BY <1>3, <2>2, <3>1
    <3> QED BY <2>2, <3>3, <3>4
  <2> QED BY <2>1, <2>2
<1>5. tracks' \in [RecordingIds -> Track \cup {NoMatch}] /\ tracks'[r] = t
      /\ \A s \in RecordingIds \ {r} : tracks'[s] = tracks[s]
  BY <1>4, RowsAre
<1>6. MatchingTyped'
  BY <1>2, <1>5 DEF MatchingIInv, MatchingTyped
<1>7. OnTheChannel'
  <2>1. \A s \in RecordingIds : tracks'[s] # NoMatch => tracks'[s].video \in channel \cup {NoMatch}
    BY <1>4, <1>5, RowsAre
  <2> QED BY <2>1, <1>2 DEF MatchingIInv, OnTheChannel
<1>8. CASE linksRaced
  BY <1>2, <1>6, <1>7, <1>8, Zenon DEF MatchingIInv, LinkedOnce
<1>9. CASE ~linksRaced
  <2>1. WritesAlone
    BY <1>9, Zenon DEF MatchingIInv
  <2>2. \A s \in RecordingIds : tracks[s] # NoMatch => tracks[s].video # v
    BY <2>1, <1>1 DEF WritesAlone
  <2>3. \A k \in Linkers : linking[k].step = "write" => linking[k].video # v
    BY <2>1, <1>1 DEF WritesAlone
  <2>4. \A p, s \in RecordingIds : p # s /\ tracks[p] # NoMatch /\ tracks[s] # NoMatch
          /\ tracks[p].user = tracks[s].user /\ tracks[p].video = tracks[s].video => tracks[p].video = NoMatch
    BY <1>9, Zenon DEF MatchingIInv, LinkedOnce
  <2>5. \A p, s \in RecordingIds : p # s /\ tracks'[p] # NoMatch /\ tracks'[s] # NoMatch
          /\ tracks'[p].user = tracks'[s].user /\ tracks'[p].video = tracks'[s].video => tracks'[p].video = NoMatch
    BY <1>4, <1>5, <2>2, <2>4
  <2>6. LinkedOnce'
    BY <2>5, Zenon DEF LinkedOnce
  <2>7. ASSUME NEW k \in Linkers, linking[k].step = "write" PROVE ~Taken(linking[k])'
    <3>1. SUFFICES ASSUME NEW s \in RecordingIds \ {linking[k].recording}, tracks'[s] # NoMatch,
                          tracks'[s].user = linking[k].user, tracks'[s].video = linking[k].video
                   PROVE  FALSE
      BY <1>2 DEF Taken
    <3>2. ~Taken(linking[k])
      BY <2>1, <2>7 DEF WritesAlone
    <3>3. CASE s = r
      BY <3>1, <3>3, <2>3, <2>7, <1>4, <1>5
    <3>4. CASE s # r
      BY <3>1, <3>4, <3>2, <1>5 DEF Taken
    <3> QED BY <3>3, <3>4
  <2>8. WritesAlone'
    BY <2>1, <2>7, <1>2 DEF WritesAlone
  <2> QED BY <1>6, <1>7, <2>6, <2>8, Zenon DEF MatchingIInv
<1> QED BY <1>8, <1>9

\* No row, link or upload to begin with.
LEMMA MatchingStart == MatchingInit => MatchingIInv
<1> SUFFICES ASSUME MatchingInit PROVE MatchingIInv
  OBVIOUS
<1>1. NotLinking \in Link /\ NotLinking.step = "idle"
  BY DEF NotLinking, Link
<1>2. /\ tracks \in [RecordingIds -> Track \cup {NoMatch}] /\ \A r \in RecordingIds : tracks[r] = NoMatch
      /\ linking \in [Linkers -> Link] /\ \A k \in Linkers : linking[k].step = "idle"
      /\ uploaded = NoMatch /\ linksRaced = FALSE
  BY <1>1 DEF MatchingInit
<1>3. MatchingTyped
  <2>1. channel \subseteq VideoIds /\ listed \in [Users -> SUBSET channel] /\ suggested \in [Users -> SUBSET Pairs]
    BY DEF MatchingInit
  <2>2. DOMAIN asking = Users /\ \A u \in Users : asking[u] = NoMatch
    BY DEF MatchingInit
  <2> QED BY <1>2, <2>1, <2>2 DEF MatchingTyped
<1>4. OnTheChannel /\ LinkedOnce /\ WritesAlone
  BY <1>2 DEF OnTheChannel, LinkedOnce, WritesAlone
<1> QED BY <1>3, <1>4 DEF MatchingIInv

\* Each action keeps the invariant of the links.
LEMMA MatchingStep == MatchingIInv /\ [MatchingNext]_matchVars => MatchingIInv'
<1> SUFFICES ASSUME MatchingIInv, [MatchingNext]_matchVars PROVE MatchingIInv'
  OBVIOUS
<1>1. ASSUME NEW u \in Users,
             AttachMatches(u) \/ ListVideos(u) \/ MatchesAttached(u) \/ \E p \in Pairs : Dismiss(u, p)
      PROVE  MatchingIInv'
  BY <1>1, ListingsKeep
<1>2. ASSUME NEW k \in Linkers, (\E u \in Users : \E p \in Pairs : AskLink(k, u, p)) \/ LinkReadsVideo(k)
      PROVE  MatchingIInv'
  BY <1>2, AsksKeep
<1>3. ASSUME NEW k \in Linkers, LinkReadsTaken(k) PROVE MatchingIInv'
  BY <1>3, ReadsTakenKeeps
<1>4. ASSUME NEW k \in Linkers, LinkWrites(k) PROVE MatchingIInv'
  BY <1>4, WritesKeep
<1>5. ASSUME NEW r \in RecordingIds,
             \/ \E u \in Users : Unlink(u, r) \/ UploadBegins(u, r)
             \/ \E status \in {"FAILED", "COMPLETED"} : UploadEnds(r, status)
      PROVE  MatchingIInv'
  BY <1>5, RowActionsKeep
<1>6. ASSUME NEW p \in Pairs, VideoInserted(p[1], p[2]) PROVE MatchingIInv'
  <2>1. p[1] \in RecordingIds /\ p[2] \in VideoIds
    BY DEF Pairs
  <2> QED BY <1>6, <2>1, VideoInsertedKeeps
<1>7. CASE VideoNoted
  BY <1>7, VideoNotedKeeps
<1>8. CASE UNCHANGED matchVars
  <2>1. UNCHANGED <<tracks, channel, listed, suggested, asking, linking, uploaded, linksRaced>>
    BY <1>8 DEF matchVars
  <2>2. MatchingTyped'
    BY <2>1 DEF MatchingIInv, MatchingTyped
  <2> QED BY <2>1, <2>2, LooksKeep
<1> QED BY <1>1, <1>2, <1>3, <1>4, <1>5, <1>6, <1>7, <1>8, Zenon DEF MatchingNext

\* Two recordings of an account never have one video, unless two of the writers that look
\* for it first (youtube-match.service.ts and the upload) overlapped: for any number of
\* users, recordings, videos and requests to link.
THEOREM VideosAreLinkedOnce == MatchingSpec => []LinkedOnce
<1>1. MatchingIInv => LinkedOnce
  BY DEF MatchingIInv
<1> QED BY MatchingStart, MatchingStep, <1>1, PTL DEF MatchingSpec

\* What the proof that videos are linked once does not need of the types.
AsksTyped ==
  /\ dismissed \in [Users -> SUBSET Pairs] /\ matchRequests \in 0..MaxMatchRequests
  /\ \A k \in Linkers : linking[k] = NotLinking \/ linking[k].step \in {"video", "taken", "write"}

MatchedIInv == MatchingIInv /\ AsksTyped

\* Each action keeps the rest of the types of links.
LEMMA AsksTypes ==
  ASSUME MatchingIInv, AsksTyped, [MatchingNext]_matchVars
  PROVE  AsksTyped'
<1>1. /\ dismissed \in [Users -> SUBSET Pairs] /\ matchRequests \in 0..MaxMatchRequests
      /\ \A k \in Linkers : linking[k] = NotLinking \/ linking[k].step \in {"video", "taken", "write"}
      /\ linking \in [Linkers -> Link] /\ MaxMatchRequests \in Nat
  BY MatchingAssumption DEF AsksTyped, MatchingIInv, MatchingTyped
<1>2. ASSUME MatchRequest PROVE matchRequests' \in 0..MaxMatchRequests
  BY <1>1, <1>2 DEF MatchRequest
<1>3. ASSUME UNCHANGED linking
      PROVE  \A k \in Linkers : linking'[k] = NotLinking \/ linking'[k].step \in {"video", "taken", "write"}
  BY <1>1, <1>3
\* One link moves on.
<1>4. ASSUME NEW k \in Linkers, NEW l, linking' = [linking EXCEPT ![k] = l],
             l = NotLinking \/ l.step \in {"video", "taken", "write"}
      PROVE  \A i \in Linkers : linking'[i] = NotLinking \/ linking'[i].step \in {"video", "taken", "write"}
  BY <1>1, <1>4
<1>5. ASSUME NEW u \in Users, AttachMatches(u) \/ ListVideos(u) \/ MatchesAttached(u) PROVE AsksTyped'
  <2>1. UNCHANGED <<dismissed, linking>> /\ (MatchRequest \/ UNCHANGED matchRequests)
    BY <1>5, Zenon DEF AttachMatches, ListVideos, MatchesAttached
  <2> QED BY <1>1, <1>2, <1>3, <2>1 DEF AsksTyped
<1>6. ASSUME NEW u \in Users, NEW p \in Pairs, Dismiss(u, p) PROVE AsksTyped'
  <2>1. MatchRequest /\ dismissed' = [dismissed EXCEPT ![u] = @ \cup {p}] /\ UNCHANGED linking
    BY <1>6 DEF Dismiss
  <2> QED BY <1>1, <1>2, <1>3, <2>1 DEF AsksTyped
<1>7. ASSUME NEW u \in Users, NEW p \in Pairs, NEW k \in Linkers, AskLink(k, u, p) PROVE AsksTyped'
  <2>1. PICK l : l = [step |-> "video", user |-> u, recording |-> p[1], video |-> p[2]]
    OBVIOUS
  <2>2. MatchRequest /\ UNCHANGED dismissed /\ (linking' = [linking EXCEPT ![k] = l] \/ UNCHANGED linking)
    BY <1>7, <2>1 DEF AskLink
  <2>3. l.step = "video"
    BY <2>1
  <2>4. \A i \in Linkers : linking'[i] = NotLinking \/ linking'[i].step \in {"video", "taken", "write"}
    BY <1>3, <1>4, <2>2, <2>3
  <2> QED BY <1>1, <1>2, <2>2, <2>4 DEF AsksTyped
<1>8. ASSUME NEW k \in Linkers, LinkReadsVideo(k) \/ LinkReadsTaken(k) PROVE AsksTyped'
  <2>1. PICK l : l = linking[k] /\ l \in Link
    BY <1>1
  <2>2. UNCHANGED <<dismissed, matchRequests>>
    BY <1>8 DEF LinkReadsVideo, LinkReadsTaken
  <2>3. \/ linking' = [linking EXCEPT ![k] = NotLinking]
        \/ \E step \in {"taken", "write"} : linking' = [linking EXCEPT ![k] = [l EXCEPT !.step = step]]
    BY <1>8, <2>1 DEF LinkReadsVideo, LinkReadsTaken
  <2>4. CASE linking' = [linking EXCEPT ![k] = NotLinking]
    BY <1>1, <1>4, <2>2, <2>4 DEF AsksTyped
  <2>5. ASSUME NEW step \in {"taken", "write"}, linking' = [linking EXCEPT ![k] = [l EXCEPT !.step = step]]
        PROVE  AsksTyped'
    <3>1. [l EXCEPT !.step = step].step \in {"video", "taken", "write"}
      BY <2>1 DEF Link
    <3> QED BY <1>1, <1>4, <2>2, <2>5, <3>1 DEF AsksTyped
  <2> QED BY <2>3, <2>4, <2>5
<1>9. ASSUME NEW k \in Linkers, LinkWrites(k) PROVE AsksTyped'
  <2>1. linking' = [linking EXCEPT ![k] = NotLinking] /\ UNCHANGED <<dismissed, matchRequests>>
    BY <1>9 DEF LinkWrites
  <2> QED BY <1>1, <1>4, <2>1 DEF AsksTyped
<1>10. ASSUME NEW r \in RecordingIds,
              \/ \E u \in Users : Unlink(u, r) \/ UploadBegins(u, r)
              \/ \E status \in {"FAILED", "COMPLETED"} : UploadEnds(r, status)
       PROVE  AsksTyped'
  <2>1. UNCHANGED <<dismissed, linking>> /\ (MatchRequest \/ UNCHANGED matchRequests)
    BY <1>10 DEF Unlink, UploadBegins, UploadEnds
  <2> QED BY <1>1, <1>2, <1>3, <2>1 DEF AsksTyped
<1>11. ASSUME VideoNoted \/ \E p \in Pairs : VideoInserted(p[1], p[2]) PROVE AsksTyped'
  <2>1. UNCHANGED <<dismissed, linking, matchRequests>>
    BY <1>11 DEF VideoNoted, VideoInserted
  <2> QED BY <1>1, <1>3, <2>1 DEF AsksTyped
<1>12. CASE UNCHANGED matchVars
  <2>1. UNCHANGED <<dismissed, linking, matchRequests>>
    BY <1>12 DEF matchVars
  <2> QED BY <1>1, <1>3, <2>1 DEF AsksTyped
<1> QED BY <1>5, <1>6, <1>7, <1>8, <1>9, <1>10, <1>11, <1>12, Zenon DEF MatchingNext

\* No link runs at first.
LEMMA MatchedInit == MatchingInit => AsksTyped
BY MatchingAssumption DEF MatchingInit, AsksTyped

\* Rows, links and pairs are typed.
LEMMA MatchedHolds == MatchedIInv => MatchingTypeOK
<1> SUFFICES ASSUME MatchedIInv PROVE MatchingTypeOK
  OBVIOUS
<1> QED BY DEF MatchedIInv, MatchingIInv, MatchingTyped, AsksTyped, MatchingTypeOK

-----------------------------------------------------------------------------
(* The actions on the plan *)

\* The options depend on the account's settings and rules only.
LEMMA OptionsAre ==
  ASSUME NEW u \in Hosts
  PROVE  /\ ResolveSyncOptions(u) = PlanOf(workflow[u], rules[u])
         /\ PredictUpcoming(u) = ToldOf(PlanOf(workflow[u], rules[u]))
<1>1. FindMatchingRule(u) = FirstOf(rules[u])
  BY DEF FindMatchingRule, FirstOf
<1>2. ResolveSyncOptions(u) = PlanOf(workflow[u], rules[u])
  BY <1>1 DEF ResolveSyncOptions, PlanOf, GetWorkflowSettings
<1>3. PredictUpcoming(u) = ToldOf(ResolveSyncOptions(u))
  BY DEF PredictUpcoming, ToldOf
<1> QED BY <1>2, <1>3

\* Their fields, and the delay, a natural number when the rule has one.
LEMMA PlanIs ==
  ASSUME NEW w, NEW rs \in Seq(RuleForms)
  PROVE  LET o == PlanOf(w, rs)
         IN DOMAIN o = PlanFields /\ o.delay \in Nat \cup {Unset}
<1>1. CASE FirstOf(rs) = {}
  <2>1. PICK a, b, c, d : PlanOf(w, rs) = [autoUpload |-> a, title |-> b, playlist |-> c, privacy |-> d, delay |-> Unset]
    BY <1>1 DEF PlanOf
  <2> QED BY <2>1 DEF PlanFields
<1>2. CASE FirstOf(rs) # {}
  <2>1. PICK i : i = CHOOSE n \in FirstOf(rs) : TRUE
    OBVIOUS
  <2>2. i \in DOMAIN rs
    BY <1>2, <2>1 DEF FirstOf
  <2>3. rs[i] \in RuleForms
    BY <2>2
  <2>4. rs[i].delay \in Nat \cup {Unset}
    BY <2>3, SyncPlanAssumption
  <2>5. PICK a, b, c, d :
          PlanOf(w, rs) = [autoUpload |-> a, title |-> b, playlist |-> c, privacy |-> d, delay |-> rs[i].delay]
    BY <1>2, <2>1 DEF PlanOf
  <2> QED BY <2>4, <2>5 DEF PlanFields
<1> QED BY <1>1, <1>2

\* What is told of a plan is the plan, private if it will be published later.
LEMMA ToldIs ==
  ASSUME NEW o, DOMAIN o = PlanFields
  PROVE  /\ DOMAIN ToldOf(o) = PlanFields
         /\ ToldOf(o).autoUpload = o.autoUpload /\ ToldOf(o).title = o.title
         /\ ToldOf(o).playlist = o.playlist /\ ToldOf(o).delay = o.delay
         /\ o.delay = Unset => ToldOf(o).privacy = o.privacy
BY DEF ToldOf, PlanFields

\* A step of a sync that is not over, with what it has to keep.
LEMMA SyncKeeps ==
  ASSUME PlanIInv, UNCHANGED <<workflow, rules, promised, clock, video>>, sync.step # "uploaded",
         DOMAIN sync' = SyncFields, sync'.end \in Nat, sync'.owner \in Hosts \cup {Unset}, sync'.step \in Steps,
         sync'.early \in BOOLEAN, sync'.step = "owned" => sync'.owner \in Hosts,
         DOMAIN log' = OptionFields, KeptIsCarried'
  PROVE  PlanIInv'
<1>1. video = Unset
  BY DEF PlanIInv, PlanTyped
<1>2. PlanTyped'
  BY <1>1 DEF PlanIInv, PlanTyped
<1>3. PromisesAreCurrent'
  BY DEF PlanIInv, PromisesAreCurrent
<1>4. UploadsAsPromised'
  BY <1>1 DEF UploadsAsPromised
<1> QED BY <1>2, <1>3, <1>4 DEF PlanIInv

\* A save of a form: it voids what its own account was told, and nobody else's.
LEMMA FormSaveKeeps ==
  ASSUME PlanIInv, NEW u \in Hosts, FormSave(u), DOMAIN workflow' = Hosts, rules' \in [Hosts -> Seq(RuleForms)],
         \A v \in Hosts \ {u} : workflow'[v] = workflow[v] /\ rules'[v] = rules[v]
  PROVE  PlanIInv'
<1>1. UNCHANGED <<clock, sync, log, video>> /\ promised' = [promised EXCEPT ![u] = Unset]
  BY DEF FormSave
<1>2. PlanTyped'
  BY <1>1 DEF PlanIInv, PlanTyped
<1>3. PromisesAreCurrent'
  <2>1. \A v \in Hosts : promised'[v] # Unset => v # u /\ promised'[v] = promised[v]
    BY <1>1 DEF PlanIInv, PlanTyped
  <2> QED BY <2>1 DEF PlanIInv, PromisesAreCurrent
<1>4. CASE kept # Unset /\ sync.owner = u
  <2>1. kept' = [kept EXCEPT !.title = Unset]
    BY <1>4 DEF FormSave
  <2>2. DOMAIN kept = PlanFields
    BY <1>4 DEF PlanIInv, KeptIsCarried
  <2>3. /\ DOMAIN kept' = PlanFields /\ kept'.title = Unset /\ kept'.autoUpload = kept.autoUpload
        /\ kept'.delay = kept.delay /\ kept'.privacy = kept.privacy /\ kept'.playlist = kept.playlist
    BY <2>1, <2>2 DEF PlanFields
  <2>4. kept.autoUpload => kept'.autoUpload
    BY <2>3, Zenon
  <2>5. KeptIsCarried'
    BY <1>1, <1>4, <2>3, <2>4 DEF PlanIInv, KeptIsCarried, Carries
  <2>6. UploadsAsPromised'
    BY <1>1, <1>4, <2>3, <2>4 DEF PlanIInv, UploadsAsPromised, PublicFrom
  <2> QED BY <1>2, <1>3, <2>5, <2>6 DEF PlanIInv
<1>5. CASE ~(kept # Unset /\ sync.owner = u)
  <2>1. kept' = kept
    BY <1>5 DEF FormSave
  <2>2. kept # Unset => sync.owner \in Hosts \ {u}
    BY <1>5 DEF PlanIInv, KeptIsCarried
  <2>3. KeptIsCarried'
    BY <1>1, <2>1, <2>2 DEF PlanIInv, KeptIsCarried, Carries
  <2>4. UploadsAsPromised'
    BY <1>1, <2>1 DEF PlanIInv, UploadsAsPromised, PublicFrom
  <2> QED BY <1>2, <1>3, <2>3, <2>4 DEF PlanIInv
<1> QED BY <1>4, <1>5

\* The forms: settings, the connection, and the rules, which stay a sequence of rules.
LEMMA FormsKeep ==
  ASSUME PlanIInv, NEW u \in Hosts,
         \/ \E active \in BOOLEAN : UpdateZoomConnection(u, active)
         \/ \E w \in Workflows : UpdateWorkflowSettings(u, w)
         \/ \E r \in RuleForms : CreateRule(u, r) \/ \E i \in 1..2 : UpdateRule(u, i, r)
         \/ \E i \in 1..2 : RemoveRule(u, i)
         \/ Len(rules[u]) = 2 /\ ReorderRules(u, <<2, 1>>)
  PROVE  PlanIInv'
<1>1. DOMAIN workflow = Hosts /\ rules \in [Hosts -> Seq(RuleForms)]
  BY DEF PlanIInv, PlanTyped
<1>2. PICK q \in Seq(RuleForms) : q = rules[u]
  BY <1>1
<1>3. ASSUME NEW rs \in Seq(RuleForms), SaveRules(u, rs) PROVE PlanIInv'
  <2>1. FormSave(u) /\ rules' = [rules EXCEPT ![u] = rs] /\ UNCHANGED workflow
    BY <1>3 DEF SaveRules
  <2>2. rules' \in [Hosts -> Seq(RuleForms)] /\ \A v \in Hosts \ {u} : rules'[v] = rules[v]
    BY <1>1, <2>1
  <2> QED BY <1>1, <2>1, <2>2, FormSaveKeeps
<1>4. ASSUME NEW active \in BOOLEAN, UpdateZoomConnection(u, active) PROVE PlanIInv'
  BY <1>1, <1>4, FormSaveKeeps DEF UpdateZoomConnection
<1>5. ASSUME NEW w \in Workflows, UpdateWorkflowSettings(u, w) PROVE PlanIInv'
  <2>1. FormSave(u) /\ workflow' = [workflow EXCEPT ![u] = w] /\ UNCHANGED rules
    BY <1>5 DEF UpdateWorkflowSettings
  <2>2. DOMAIN workflow' = Hosts /\ \A v \in Hosts \ {u} : workflow'[v] = workflow[v]
    BY <1>1, <2>1
  <2> QED BY <1>1, <2>1, <2>2, FormSaveKeeps
<1>6. ASSUME NEW r \in RuleForms, CreateRule(u, r) PROVE PlanIInv'
  <2>1. Append(q, r) \in Seq(RuleForms)
    OBVIOUS
  <2> QED BY <1>2, <1>3, <1>6, <2>1 DEF CreateRule
<1>7. ASSUME NEW r \in RuleForms, NEW i \in 1..2, UpdateRule(u, i, r) PROVE PlanIInv'
  <2>1. [q EXCEPT ![i] = r] \in Seq(RuleForms)
    BY <1>2, <1>7 DEF UpdateRule
  <2> QED BY <1>2, <1>3, <1>7, <2>1 DEF UpdateRule
<1>8. ASSUME NEW i \in 1..2, RemoveRule(u, i) PROVE PlanIInv'
  <2>1. i \in 1..Len(q)
    BY <1>2, <1>8 DEF RemoveRule
  <2>2. SubSeq(q, 1, i - 1) \in Seq(RuleForms) /\ SubSeq(q, i + 1, Len(q)) \in Seq(RuleForms)
    BY <2>1
  <2>3. SubSeq(q, 1, i - 1) \o SubSeq(q, i + 1, Len(q)) \in Seq(RuleForms)
    BY <2>2, ConcatProperties
  <2> QED BY <1>2, <1>3, <1>8, <2>3 DEF RemoveRule
<1>9. ASSUME Len(rules[u]) = 2, ReorderRules(u, <<2, 1>>) PROVE PlanIInv'
  <2>1. PICK rs : rs = [k \in DOMAIN rules[u] |-> rules[u][<<2, 1>>[k]]]
    OBVIOUS
  <2>2. DOMAIN q = 1..2 /\ q[1] \in RuleForms /\ q[2] \in RuleForms
    BY <1>2, <1>9
  <2>3. \A k \in 1..2 : <<2, 1>>[k] \in 1..2
    OBVIOUS
  <2>4. rs = [k \in 1..2 |-> q[<<2, 1>>[k]]]
    BY <1>2, <2>1, <2>2
  <2>5. rs \in [1..2 -> RuleForms]
    BY <2>2, <2>3, <2>4
  <2>6. rs \in Seq(RuleForms)
    BY <2>2, <2>3, <2>4
  <2> QED BY <1>3, <1>9, <2>1, <2>6 DEF ReorderRules
<1> QED BY <1>4, <1>5, <1>6, <1>7, <1>8, <1>9

\* The upcoming meetings: what is told is what the forms say.
LEMMA ListingKeeps ==
  ASSUME PlanIInv, NEW u \in Hosts, ListUpcomingMeetings(u)
  PROVE  PlanIInv'
<1>1. UNCHANGED <<workflow, rules, clock, sync, log, kept, video>> /\ promised' = [promised EXCEPT ![u] = PredictUpcoming(u)]
  BY DEF ListUpcomingMeetings
<1>2. PlanTyped'
  BY <1>1 DEF PlanIInv, PlanTyped
<1>3. PromisesAreCurrent'
  BY <1>1, OptionsAre DEF PlanIInv, PlanTyped, PromisesAreCurrent
<1>4. KeptIsCarried'
  BY <1>1 DEF PlanIInv, KeptIsCarried, Carries
<1>5. UploadsAsPromised'
  BY <1>1 DEF PlanIInv, UploadsAsPromised, PublicFrom
<1> QED BY <1>2, <1>3, <1>4, <1>5 DEF PlanIInv

\* What the invariant says of a sync, for the steps of it.
LEMMA SyncIs ==
  ASSUME PlanIInv
  PROVE  /\ DOMAIN sync = SyncFields /\ sync.end \in Nat /\ sync.owner \in Hosts \cup {Unset}
         /\ sync.step \in Steps /\ sync.early \in BOOLEAN /\ DOMAIN log = OptionFields
         /\ sync.step = "owned" => sync.owner \in Hosts
         /\ sync.step \notin Running => kept = Unset
BY DEF PlanIInv, PlanTyped, KeptIsCarried

\* The webhook finds the account; nothing is carried yet.
LEMMA WebhookKeeps ==
  ASSUME PlanIInv, HandleWebhook
  PROVE  PlanIInv'
<1>1. sync.step = "none" /\ kept = Unset /\ UNCHANGED <<workflow, rules, clock, promised, log, kept, video>>
  BY SyncIs DEF HandleWebhook, Running
<1>2. KeptIsCarried'
  BY <1>1 DEF KeptIsCarried
<1>3. CASE \E u \in Owners : sync' = [sync EXCEPT !.step = "owned", !.owner = u, !.end = clock]
  <2>1. PICK u \in Owners : sync' = [sync EXCEPT !.step = "owned", !.owner = u, !.end = clock]
    BY <1>3
  <2>2. u \in Hosts /\ clock \in Nat
    BY DEF Owners, MostRecent, Active, PlanIInv, PlanTyped
  <2>3. /\ DOMAIN sync' = SyncFields /\ sync'.end = clock /\ sync'.owner = u /\ sync'.step = "owned"
        /\ sync'.early = sync.early
    BY <2>1, SyncIs DEF SyncFields
  <2>4. sync'.step \in Steps /\ sync'.early \in BOOLEAN
    BY <2>3, SyncIs DEF Steps
  <2> QED BY <1>1, <1>2, <2>2, <2>3, <2>4, SyncIs, SyncKeeps
<1>4. CASE sync' = [sync EXCEPT !.step = "skipped"]
  <2>1. /\ DOMAIN sync' = SyncFields /\ sync'.end = sync.end /\ sync'.owner = sync.owner /\ sync'.step = "skipped"
        /\ sync'.early = sync.early
    BY <1>4, SyncIs DEF SyncFields
  <2>2. sync'.step \in Steps /\ sync'.early \in BOOLEAN
    BY <2>1, SyncIs DEF Steps
  <2> QED BY <1>1, <1>2, <2>1, <2>2, SyncIs, SyncKeeps
<1> QED BY <1>3, <1>4 DEF HandleWebhook

\* The recording arrives: what its account was told last is what the sync carries.
LEMMA RecordingKeeps ==
  ASSUME PlanIInv, HandleRecordingCompleted
  PROVE  PlanIInv'
<1>1. sync.step = "owned" /\ sync.owner \in Hosts /\ kept = Unset
      /\ UNCHANGED <<workflow, rules, clock, promised, video>>
  BY SyncIs DEF HandleRecordingCompleted, Running
<1>2. PICK o : o = PlanOf(workflow[sync.owner], rules[sync.owner])
  OBVIOUS
<1>3. ResolveSyncOptions(sync.owner) = o /\ DOMAIN o = PlanFields /\ o.delay \in Nat \cup {Unset}
  <2>1. rules[sync.owner] \in Seq(RuleForms)
    BY <1>1 DEF PlanIInv, PlanTyped
  <2> QED BY <1>1, <1>2, <2>1, OptionsAre, PlanIs
<1>4. PICK p : p = [privacy |-> o.privacy, playlist |-> o.playlist, publishAt |-> ComputePublishAt(sync.end, o.delay)]
  OBVIOUS
<1>5. p.privacy = o.privacy /\ p.playlist = o.playlist /\ p.publishAt = ComputePublishAt(sync.end, o.delay)
  BY <1>4
<1>6. CASE o.autoUpload /\ Prepared(p, 0) /\ kept' = promised[sync.owner]
  <2>1. /\ DOMAIN sync' = SyncFields /\ sync'.step = "prepared" /\ sync'.options = p /\ sync'.end = sync.end
        /\ sync'.owner = sync.owner /\ sync'.early = sync.early
    BY <1>6, SyncIs DEF Prepared, SyncFields
  <2>2. DOMAIN log' = OptionFields /\ log'.privacy = p.privacy /\ log'.publishAt = p.publishAt
    BY <1>6, SyncIs DEF Prepared, OptionFields
  <2>3. sync'.step \in Steps /\ sync'.step \in Running /\ sync'.early \in BOOLEAN
    BY <2>1, SyncIs DEF Steps, Running
  <2>4. kept' # Unset =>
          /\ DOMAIN kept' = PlanFields /\ kept'.autoUpload = o.autoUpload /\ kept'.title = o.title
          /\ kept'.playlist = o.playlist /\ kept'.delay = o.delay /\ (o.delay = Unset => kept'.privacy = o.privacy)
    <3>1. kept' # Unset => kept' = ToldOf(o)
      BY <1>1, <1>2, <1>6 DEF PlanIInv, PromisesAreCurrent
    <3> QED BY <1>3, <3>1, ToldIs
  <2>5. kept' # Unset => kept'.autoUpload
    BY <1>6, <2>4, Zenon
  <2>6. kept' # Unset => Carries(sync.options)'
    BY <1>3, <1>5, <2>1, <2>4 DEF Carries, ComputePublishAt
  <2>7. KeptIsCarried'
    BY <1>1, <1>2, <1>3, <1>5, <2>1, <2>2, <2>3, <2>4, <2>5, <2>6 DEF KeptIsCarried
  <2> QED BY <1>1, <2>1, <2>2, <2>3, <2>7, SyncIs, SyncKeeps
<1>7. CASE sync' = [sync EXCEPT !.step = "skipped"] /\ UNCHANGED <<log, kept>>
  <2>1. /\ DOMAIN sync' = SyncFields /\ sync'.end = sync.end /\ sync'.owner = sync.owner /\ sync'.step = "skipped"
        /\ sync'.early = sync.early
    BY <1>7, SyncIs DEF SyncFields
  <2>2. sync'.step \in Steps /\ sync'.early \in BOOLEAN
    BY <2>1, SyncIs DEF Steps
  <2>3. KeptIsCarried'
    BY <1>1, <1>7 DEF KeptIsCarried
  <2> QED BY <1>1, <1>7, <2>1, <2>2, <2>3, SyncIs, SyncKeeps
<1> QED BY <1>3, <1>4, <1>6, <1>7 DEF HandleRecordingCompleted

\* A sync by hand carries what the user chose, and nothing that was told.
LEMMA ManualKeeps ==
  ASSUME PlanIInv, NEW u \in Hosts, NEW privacy, NEW playlist, ManualSync(u, privacy, playlist)
  PROVE  PlanIInv'
<1>1. /\ sync.step \in {"skipped", "failed", "given up"} /\ kept' = Unset
      /\ UNCHANGED <<workflow, rules, clock, promised, video>>
  BY DEF ManualSync
<1>2. PICK p : sync' = [sync EXCEPT !.step = "prepared", !.owner = u, !.attempt = 0, !.options = p]
  BY DEF ManualSync
<1>3. /\ DOMAIN sync' = SyncFields /\ sync'.step = "prepared" /\ sync'.end = sync.end
      /\ sync'.owner = u /\ sync'.early = sync.early
  BY <1>2, SyncIs DEF SyncFields
<1>4. DOMAIN log' = OptionFields
  BY SyncIs DEF ManualSync
<1>5. sync'.step \in Steps /\ sync'.early \in BOOLEAN
  BY <1>3, SyncIs DEF Steps
<1>6. KeptIsCarried'
  BY <1>1 DEF KeptIsCarried
<1> QED BY <1>1, <1>3, <1>4, <1>5, <1>6, SyncIs, SyncKeeps

\* What the invariant says when something was told.
LEMMA KeptIs ==
  ASSUME PlanIInv, kept # Unset
  PROVE  /\ DOMAIN kept = PlanFields /\ kept.autoUpload /\ kept.delay \in Nat \cup {Unset}
         /\ sync.step \in Running /\ sync.owner \in Hosts /\ Carries(sync.options)
         /\ log.privacy = sync.options.privacy /\ log.publishAt = sync.options.publishAt
         /\ ~sync.early => sync.options.playlist = kept.playlist
         /\ ~sync.early /\ sync.step # "prepared" => log.playlist = sync.options.playlist
         /\ kept.title # Unset =>
              /\ PlanOf(workflow[sync.owner], rules[sync.owner]).title = kept.title
              /\ sync.step \in {"uploading", "uploaded"} => sync.title = kept.title
BY DEF PlanIInv, KeptIsCarried

\* An attempt that fails: the sync keeps its options, and whether YouTube was asked.
LEMMA FailuresKeep ==
  ASSUME PlanIInv, DownloadFails \/ UploadFails \/ RetryFails
  PROVE  PlanIInv'
<1>1. UNCHANGED <<workflow, rules, clock, promised, log, kept, video>>
  BY DEF DownloadFails, UploadFails, RetryFails
<1>2. /\ DOMAIN sync' = SyncFields /\ sync'.step \in {"failed", "given up"} /\ sync'.options = sync.options
      /\ sync'.end = sync.end /\ sync'.owner = sync.owner
      /\ sync'.early \in BOOLEAN /\ (~sync'.early => ~sync.early /\ sync.step # "prepared")
      /\ sync.step \in {"prepared", "uploading", "failed"}
  <2>1. CASE DownloadFails
    <3>x. PICK x \in {"failed", "given up"} :
             sync' = [sync EXCEPT !.step = x, !.early = sync.early \/ TRUE]
      BY <2>1 DEF DownloadFails, Fails
    <3>e. PICK e : e = (sync.early \/ TRUE)
      OBVIOUS
    <3>1. sync' = [sync EXCEPT !.step = x, !.early = e]
      BY <3>x, <3>e, Zenon
    <3>2. e = TRUE
      BY <3>e, Zenon
    <3> QED BY <2>1, <3>1, <3>2, SyncIs DEF DownloadFails, SyncFields
  <2>2. CASE UploadFails
    <3>x. PICK x \in {"failed", "given up"} :
             sync' = [sync EXCEPT !.step = x, !.early = sync.early \/ FALSE]
      BY <2>2 DEF UploadFails, Fails
    <3>e. PICK e : e = (sync.early \/ FALSE)
      OBVIOUS
    <3>1. sync' = [sync EXCEPT !.step = x, !.early = e]
      BY <3>x, <3>e, Zenon
    <3>2. PICK b \in BOOLEAN : b = sync.early
      BY SyncIs
    <3>3. e = b
      BY <3>e, <3>2, Zenon
    <3>4. /\ DOMAIN sync' = SyncFields /\ sync'.step = x /\ sync'.options = sync.options
          /\ sync'.end = sync.end /\ sync'.owner = sync.owner /\ sync'.early = b
      BY <3>1, <3>2, <3>3, SyncIs DEF SyncFields
    <3>5. sync.step = "uploading"
      BY <2>2 DEF UploadFails
    <3> QED BY <3>2, <3>4, <3>5
  <2>3. CASE RetryFails
    <3>a. PICK n : n = sync.attempt + 1
      OBVIOUS
    <3>1. PICK x \in {"failed", "given up"} : sync' = [sync EXCEPT !.attempt = n, !.step = x]
      BY <2>3, <3>a DEF RetryFails
    <3>2. /\ DOMAIN sync' = SyncFields /\ sync'.step = x /\ sync'.options = sync.options
          /\ sync'.end = sync.end /\ sync'.owner = sync.owner /\ sync'.early = sync.early
      BY <3>1, SyncIs DEF SyncFields
    <3>3. sync.step = "failed" /\ sync.early \in BOOLEAN
      BY <2>3, SyncIs DEF RetryFails
    <3> QED BY <3>2, <3>3
  <2> QED BY <2>1, <2>2, <2>3
<1>3. KeptIsCarried'
  <2> SUFFICES ASSUME kept' # Unset PROVE KeptIsCarried'
    BY DEF KeptIsCarried
  <2>1. kept # Unset /\ kept' = kept
    BY <1>1
  <2>2. Carries(sync.options)'
    BY <1>1, <1>2, <2>1, KeptIs DEF Carries
  <2>3. sync'.step \in Running /\ sync'.step \notin {"prepared", "uploading", "uploaded"}
    BY <1>2 DEF Running
  <2> QED BY <1>1, <1>2, <2>1, <2>2, <2>3, KeptIs DEF KeptIsCarried
<1>4. sync.step # "uploaded" /\ sync'.step \in Steps /\ sync'.step # "owned"
  BY <1>2 DEF Steps
<1> QED BY <1>1, <1>2, <1>3, <1>4, SyncIs, SyncKeeps

\* The upload starts with the text of the rules as they are now; if the account saved
\* nothing since it is the one it was told.
LEMMA UploadStartsKeeps ==
  ASSUME PlanIInv, UploadStarts
  PROVE  PlanIInv'
<1>1. sync.step = "prepared" /\ UNCHANGED <<workflow, rules, clock, promised, kept, video>>
  BY DEF UploadStarts
<1>2. PICK t : t = ResolveSyncOptions(sync.owner).title
  OBVIOUS
<1>3. /\ DOMAIN sync' = SyncFields /\ sync'.step = "uploading" /\ sync'.options = sync.options
      /\ sync'.end = sync.end /\ sync'.owner = sync.owner /\ sync'.early = sync.early /\ sync'.title = t
  BY <1>2, SyncIs DEF UploadStarts, SyncFields
<1>4. /\ DOMAIN log' = OptionFields /\ log'.privacy = log.privacy /\ log'.publishAt = log.publishAt
      /\ log'.playlist = sync.options.playlist
  BY SyncIs DEF UploadStarts, OptionFields
<1>5. KeptIsCarried'
  <2> SUFFICES ASSUME kept' # Unset PROVE KeptIsCarried'
    BY DEF KeptIsCarried
  <2>1. kept # Unset /\ kept' = kept
    BY <1>1
  <2>2. Carries(sync.options)'
    BY <1>3, <2>1, KeptIs DEF Carries
  <2>3. sync'.step \in Running
    BY <1>3 DEF Running
  <2>4. kept.title # Unset => t = kept.title
    BY <1>2, <2>1, KeptIs, OptionsAre
  <2> QED BY <1>1, <1>3, <1>4, <2>1, <2>2, <2>3, <2>4, KeptIs DEF KeptIsCarried
<1>6. sync.step # "uploaded" /\ sync'.step \in Steps /\ sync'.step # "owned" /\ sync'.early \in BOOLEAN
  BY <1>1, <1>3, SyncIs DEF Steps
<1> QED BY <1>1, <1>3, <1>4, <1>5, <1>6, SyncIs, SyncKeeps

\* A retry reads the columns of the log, which hold what the sync carried.
LEMMA RetryKeeps ==
  ASSUME PlanIInv, RunRetry
  PROVE  PlanIInv'
<1>1. sync.step = "failed" /\ UNCHANGED <<workflow, rules, clock, promised, kept, video>>
  BY DEF RunRetry
<1>2. Prepared(log, sync.attempt + 1)
  BY DEF RunRetry, RetryOptions
<1>3. /\ DOMAIN sync' = SyncFields /\ sync'.step = "prepared" /\ sync'.options = log
      /\ sync'.end = sync.end /\ sync'.owner = sync.owner /\ sync'.early = sync.early
  BY <1>2, SyncIs DEF Prepared, SyncFields
<1>4. DOMAIN log' = OptionFields /\ log'.privacy = log.privacy /\ log'.publishAt = log.publishAt
  BY <1>2, SyncIs DEF Prepared, OptionFields
<1>5. KeptIsCarried'
  <2> SUFFICES ASSUME kept' # Unset PROVE KeptIsCarried'
    BY DEF KeptIsCarried
  <2>1. kept # Unset /\ kept' = kept
    BY <1>1
  <2>2. Carries(sync.options)'
    BY <1>3, <2>1, KeptIs DEF Carries
  <2>3. sync'.step \in Running
    BY <1>3 DEF Running
  <2>4. ~sync.early => log.playlist = kept.playlist
    BY <1>1, <2>1, KeptIs
  <2> QED BY <1>1, <1>3, <1>4, <2>1, <2>2, <2>3, <2>4, KeptIs DEF KeptIsCarried
<1>6. sync.step # "uploaded" /\ sync'.step \in Steps /\ sync'.step # "owned" /\ sync'.early \in BOOLEAN
  BY <1>1, <1>3, SyncIs DEF Steps
<1> QED BY <1>1, <1>3, <1>4, <1>5, <1>6, SyncIs, SyncKeeps

\* The upload ends: the video has what the sync carried, and is public no later than
\* was told, or than it was there at all.
LEMMA UploadsKeeps ==
  ASSUME PlanIInv, Uploads
  PROVE  PlanIInv'
<1>1. sync.step = "uploading" /\ UNCHANGED <<workflow, rules, clock, promised, log, kept>>
  BY DEF Uploads
<1>2. /\ DOMAIN sync' = SyncFields /\ sync'.step = "uploaded" /\ sync'.options = sync.options
      /\ sync'.end = sync.end /\ sync'.owner = sync.owner /\ sync'.early = sync.early /\ sync'.title = sync.title
  BY SyncIs DEF Uploads, SyncFields
<1>3. PICK s : s = ScheduledPrivacy(sync.options.publishAt, sync.options.privacy)
  OBVIOUS
<1>4. /\ video'.privacy = s[1] /\ video'.publishAt = s[2] /\ video'.at = clock
      /\ video'.playlist = sync.options.playlist /\ video'.title = sync.title
  BY <1>3 DEF Uploads
<1>5. PlanTyped'
  <2>1. sync'.step \in Steps
    BY <1>2 DEF Steps
  <2> QED BY <1>1, <1>2, <2>1, SyncIs DEF PlanIInv, PlanTyped
<1>6. PromisesAreCurrent'
  BY <1>1 DEF PlanIInv, PromisesAreCurrent
<1>7. CASE kept = Unset
  BY <1>1, <1>5, <1>6, <1>7 DEF PlanIInv, KeptIsCarried, UploadsAsPromised
<1>8. CASE kept # Unset
  <2>1. KeptIsCarried'
    <3>1. Carries(sync.options)'
      BY <1>1, <1>2, <1>8, KeptIs DEF Carries
    <3>2. sync'.step \in Running
      BY <1>2 DEF Running
    <3> QED BY <1>1, <1>2, <1>8, <3>1, <3>2, KeptIs DEF KeptIsCarried
  <2>2. kept.autoUpload /\ (~sync.early => video'.playlist = kept.playlist)
        /\ (kept.title # Unset => video'.title = kept.title)
    BY <1>1, <1>4, <1>8, KeptIs
  <2>3. CASE kept.delay = Unset
    <3>1. sync.options.privacy = kept.privacy /\ sync.options.publishAt = Unset
      BY <1>8, <2>3, KeptIs DEF Carries
    <3>2. s = <<kept.privacy, Unset>>
      BY <1>3, <3>1 DEF ScheduledPrivacy
    <3>3. video'.privacy = kept.privacy
      BY <1>4, <3>2
    <3>4. UploadsAsPromised'
      BY <1>1, <1>2, <2>2, <2>3, <3>3 DEF UploadsAsPromised
    <3> QED BY <1>5, <1>6, <2>1, <3>4 DEF PlanIInv
  <2>4. CASE kept.delay # Unset
    <3>1. PICK p \in Nat : p = sync.end + kept.delay /\ p = sync.options.publishAt
      BY <1>8, <2>4, SyncIs, KeptIs DEF Carries
    <3>2. clock \in Nat /\ MIN_SCHEDULE_LEAD \in Nat /\ MIN_SCHEDULE_LEAD > 0 /\ Unset \notin Nat
      BY SyncPlanAssumption DEF PlanIInv, PlanTyped
    <3>3. s = IF p < clock + MIN_SCHEDULE_LEAD THEN <<"public", Unset>> ELSE <<"private", p>>
      BY <1>3, <3>1, <3>2 DEF ScheduledPrivacy
    <3>4. PICK f \in Nat : f = PublicFrom' /\ f + MIN_SCHEDULE_LEAD > p /\ f <= IF clock > p THEN clock ELSE p
      <4>1. CASE p < clock + MIN_SCHEDULE_LEAD
        <5>1. PublicFrom' = clock
          BY <4>1, <3>3, <1>4 DEF PublicFrom
        <5> QED BY <4>1, <5>1, <3>2
      <4>2. CASE ~(p < clock + MIN_SCHEDULE_LEAD)
        <5>1. PublicFrom' = p
          BY <4>2, <3>3, <1>4 DEF PublicFrom
        <5> QED BY <4>2, <5>1, <3>2
      <4> QED BY <4>1, <4>2
    <3>5. /\ PublicFrom' # Unset /\ PublicFrom' + MIN_SCHEDULE_LEAD > sync.end + kept.delay
          /\ PublicFrom' <= IF video'.at > sync.end + kept.delay THEN video'.at ELSE sync.end + kept.delay
      BY <1>4, <3>1, <3>2, <3>4
    <3>6. UploadsAsPromised'
      BY <1>1, <1>2, <2>2, <2>4, <3>5 DEF UploadsAsPromised
    <3> QED BY <1>5, <1>6, <2>1, <3>6 DEF PlanIInv
  <2> QED BY <2>3, <2>4
<1> QED BY <1>7, <1>8

\* Nothing was told and nothing is carried to begin with.
LEMMA PlanStart == SyncPlanInit => PlanIInv
<1> SUFFICES ASSUME SyncPlanInit PROVE PlanIInv
  OBVIOUS
<1>1. DOMAIN workflow = Hosts /\ rules \in [Hosts -> Seq(RuleForms)]
  BY SyncPlanAssumption DEF SyncPlanInit
<1>2. /\ DOMAIN sync = SyncFields /\ sync.end = 0 /\ sync.owner = Unset /\ sync.step = "none" /\ sync.early = FALSE
      /\ DOMAIN log = OptionFields
  BY DEF SyncPlanInit, SyncFields, NoOptions, OptionFields
<1>3. "none" \in Steps /\ clock = 0 /\ kept = Unset /\ video = Unset /\ DOMAIN promised = Hosts
      /\ \A u \in Hosts : promised[u] = Unset
  BY DEF Steps, SyncPlanInit
<1>6. sync.early \in BOOLEAN
  <2>1. PICK b : b = sync.early
    OBVIOUS
  <2>2. b = FALSE
    BY <1>2, <2>1, Zenon
  <2> QED BY <2>1, <2>2
<1>5. sync.early \in BOOLEAN /\ sync.end \in Nat /\ clock \in Nat /\ sync.step \in Steps /\ sync.step # "owned"
  BY <1>2, <1>3, <1>6
<1>4. PlanTyped
  BY <1>1, <1>2, <1>3, <1>5 DEF PlanTyped
<1> QED BY <1>3, <1>4 DEF PlanIInv, PromisesAreCurrent, KeptIsCarried, UploadsAsPromised

\* Each action keeps the invariant of the plan.
LEMMA PlanStep == PlanIInv /\ [SyncPlanNext]_planVars => PlanIInv'
<1> SUFFICES ASSUME PlanIInv, [SyncPlanNext]_planVars PROVE PlanIInv'
  OBVIOUS
<1>1. ASSUME NEW u \in Hosts,
             \/ \E active \in BOOLEAN : UpdateZoomConnection(u, active)
             \/ \E w \in Workflows : UpdateWorkflowSettings(u, w)
             \/ \E r \in RuleForms : CreateRule(u, r) \/ \E i \in 1..2 : UpdateRule(u, i, r)
             \/ \E i \in 1..2 : RemoveRule(u, i)
             \/ Len(rules[u]) = 2 /\ ReorderRules(u, <<2, 1>>)
      PROVE  PlanIInv'
  BY <1>1, FormsKeep
<1>2. ASSUME NEW u \in Hosts, ListUpcomingMeetings(u) PROVE PlanIInv'
  BY <1>2, ListingKeeps
<1>3. ASSUME NEW u \in Hosts, \E privacy \in {"private", "public"} : ManualSync(u, privacy, "q") PROVE PlanIInv'
  BY <1>3, ManualKeeps
<1>4. CASE PlanTick
  <2>1. UNCHANGED <<workflow, rules, promised, sync, log, kept, video>> /\ clock' = clock + 1
    BY <1>4 DEF PlanTick
  <2>2. PlanTyped'
    BY <2>1 DEF PlanIInv, PlanTyped
  <2> QED BY <2>1, <2>2 DEF PlanIInv, PromisesAreCurrent, KeptIsCarried, Carries, UploadsAsPromised, PublicFrom
<1>5. CASE UNCHANGED planVars
  <2>1. UNCHANGED <<workflow, rules, clock, promised, sync, log, kept, video>>
    BY <1>5 DEF planVars
  <2>2. PlanTyped'
    BY <2>1 DEF PlanIInv, PlanTyped
  <2> QED BY <2>1, <2>2 DEF PlanIInv, PromisesAreCurrent, KeptIsCarried, Carries, UploadsAsPromised, PublicFrom
<1> QED BY <1>1, <1>2, <1>3, <1>4, <1>5, WebhookKeeps, RecordingKeeps, UploadStartsKeeps, FailuresKeep, UploadsKeeps,
           RetryKeeps, Zenon DEF SyncPlanNext

\* A video that the webhook uploaded is what the upcoming meetings told its account
\* (sync-rules.ts, zoom-meeting.service.ts and the sync), however often it was retried and
\* whatever was edited meanwhile: for any accounts, settings, rules, delays and retries.
THEOREM VideosAreAsPromised == PlanSpec => []UploadsAsPromised
<1>1. PlanIInv => UploadsAsPromised
  BY DEF PlanIInv
<1> QED BY PlanStart, PlanStep, <1>1, PTL DEF PlanSpec

\* What the proof of the promises does not need of the types: the settings and the options
\* are those that forms can send, and a sync that failed may be tried once more.
PlansTyped ==
  /\ config \in [Hosts -> [active : BOOLEAN, updated : 0..MaxFormSaves]]
  /\ workflow \in [Hosts -> Workflows \cup {Unset}]
  /\ clock \in 0..MaxClock /\ saves \in 0..MaxFormSaves
  /\ sync.options \in Options /\ log \in Options
  /\ sync.attempt \in 0..MAX_AUTO_RETRIES /\ (sync.step = "failed" => sync.attempt < MAX_AUTO_RETRIES)

\* The bounds are natural numbers.
LEMMA PlanLimits == MaxClock \in Nat /\ MaxFormSaves \in Nat /\ MAX_AUTO_RETRIES \in Nat
BY SyncPlanAssumption

\* Settings and rules that were saved make options that a sync can carry.
LEMMA PlanOptions ==
  ASSUME NEW w \in Workflows \cup {Unset}, NEW rs \in Seq(RuleForms)
  PROVE  PlanOf(w, rs).privacy \in Privacies /\ PlanOf(w, rs).playlist \in Playlists
<1>1. PICK s : s = Or(w, DefaultWorkflow)
  OBVIOUS
<1>2. s.privacy \in Privacies /\ s.playlist \in Playlists
  <2>1. CASE w = Unset
    BY <2>1, <1>1 DEF Or, DefaultWorkflow, Privacies, Playlists
  <2>2. CASE w # Unset
    <3>1. s = w /\ w \in Workflows
      BY <2>2, <1>1 DEF Or
    <3> QED BY <3>1, SyncPlanAssumption DEF Playlists
  <2> QED BY <2>1, <2>2
<1>3. CASE FirstOf(rs) = {}
  <2>1. PlanOf(w, rs) = [autoUpload |-> s.autoUpload, title |-> s.title, playlist |-> s.playlist,
                         privacy |-> s.privacy, delay |-> Unset]
    BY <1>1, <1>3 DEF PlanOf
  <2> QED BY <1>2, <2>1
<1>4. CASE FirstOf(rs) # {}
  <2>1. PICK i : i = CHOOSE n \in FirstOf(rs) : TRUE
    OBVIOUS
  <2>2. i \in DOMAIN rs
    BY <1>4, <2>1 DEF FirstOf
  <2>3. PICK r \in RuleForms : r = rs[i]
    BY <2>2
  <2>4. r.privacy \in Privacies \cup {Unset} /\ r.playlist \in Playlists
    BY SyncPlanAssumption DEF Playlists
  <2>5. Or(r.privacy, s.privacy) \in Privacies /\ Or(r.playlist, s.playlist) \in Playlists
    BY <1>2, <2>4 DEF Or
  <2>6. PICK a, b, d : PlanOf(w, rs) = [autoUpload |-> a, title |-> b, playlist |-> Or(r.playlist, s.playlist),
                                        privacy |-> Or(r.privacy, s.privacy), delay |-> d]
    BY <1>1, <1>4, <2>1, <2>3 DEF PlanOf
  <2> QED BY <2>5, <2>6
<1> QED BY <1>3, <1>4

\* A step that leaves what is typed here as it is.
LEMMA PlansSame ==
  ASSUME PlansTyped, UNCHANGED <<config, workflow, clock, sync, log, saves>>
  PROVE  PlansTyped'
BY DEF PlansTyped

\* A form is saved once more.
LEMMA SavesTyped ==
  ASSUME PlansTyped, NEW u \in Hosts, FormSave(u)
  PROVE  /\ saves' \in 0..MaxFormSaves /\ saves + 1 \in 0..MaxFormSaves
         /\ UNCHANGED <<clock, sync, log>>
<1>1. saves \in 0..MaxFormSaves /\ saves < MaxFormSaves /\ saves' = saves + 1 /\ UNCHANGED <<clock, sync, log>>
  BY DEF PlansTyped, FormSave
<1> QED BY <1>1, PlanLimits

\* The forms, and what the upcoming meetings tell.
LEMMA FormsTyped ==
  ASSUME PlansTyped, NEW u \in Hosts,
         \/ ListUpcomingMeetings(u)
         \/ \E active \in BOOLEAN : UpdateZoomConnection(u, active)
         \/ \E w \in Workflows : UpdateWorkflowSettings(u, w)
         \/ \E r \in RuleForms : CreateRule(u, r) \/ \E i \in 1..2 : UpdateRule(u, i, r)
         \/ \E i \in 1..2 : RemoveRule(u, i)
         \/ Len(rules[u]) = 2 /\ ReorderRules(u, <<2, 1>>)
  PROVE  PlansTyped'
<1>1. CASE ListUpcomingMeetings(u)
  BY <1>1, PlansSame DEF ListUpcomingMeetings
<1>2. ASSUME NEW active \in BOOLEAN, UpdateZoomConnection(u, active) PROVE PlansTyped'
  <2>1. FormSave(u) /\ UNCHANGED workflow
        /\ config' = [config EXCEPT ![u] = [active |-> active, updated |-> saves + 1]]
    BY <1>2 DEF UpdateZoomConnection
  <2>2. saves' \in 0..MaxFormSaves /\ saves + 1 \in 0..MaxFormSaves /\ UNCHANGED <<clock, sync, log>>
    BY <2>1, SavesTyped
  <2>3. PICK c \in [active : BOOLEAN, updated : 0..MaxFormSaves] : c = [active |-> active, updated |-> saves + 1]
    BY <2>2
  <2>4. config' \in [Hosts -> [active : BOOLEAN, updated : 0..MaxFormSaves]]
    BY <2>1, <2>3 DEF PlansTyped
  <2> QED BY <2>1, <2>2, <2>4 DEF PlansTyped
<1>3. ASSUME NEW w \in Workflows, UpdateWorkflowSettings(u, w) PROVE PlansTyped'
  <2>1. FormSave(u) /\ workflow' = [workflow EXCEPT ![u] = w] /\ UNCHANGED config
    BY <1>3 DEF UpdateWorkflowSettings
  <2>2. saves' \in 0..MaxFormSaves /\ UNCHANGED <<clock, sync, log>>
    BY <2>1, SavesTyped
  <2>3. workflow' \in [Hosts -> Workflows \cup {Unset}]
    BY <2>1 DEF PlansTyped
  <2> QED BY <2>1, <2>2, <2>3 DEF PlansTyped
<1>4. ASSUME NEW rs, SaveRules(u, rs) PROVE PlansTyped'
  <2>1. FormSave(u) /\ UNCHANGED <<config, workflow>>
    BY <1>4 DEF SaveRules
  <2>2. saves' \in 0..MaxFormSaves /\ UNCHANGED <<clock, sync, log>>
    BY <2>1, SavesTyped
  <2> QED BY <2>1, <2>2 DEF PlansTyped
<1> QED BY <1>1, <1>2, <1>3, <1>4 DEF CreateRule, UpdateRule, RemoveRule, ReorderRules

\* A sync that moves on, with typed options and no attempt too many.
LEMMA SyncTyped ==
  ASSUME PlansTyped, UNCHANGED <<config, workflow, clock, saves>>, log' \in Options,
         sync'.options \in Options, sync'.attempt \in 0..MAX_AUTO_RETRIES,
         sync'.step = "failed" => sync'.attempt < MAX_AUTO_RETRIES
  PROVE  PlansTyped'
BY DEF PlansTyped

\* A sync is prepared with typed options.
LEMMA PreparedTyped ==
  ASSUME PlanIInv, PlansTyped, NEW p \in Options, NEW n \in 0..MAX_AUTO_RETRIES, Prepared(p, n),
         UNCHANGED <<config, workflow, clock, saves>>
  PROVE  PlansTyped'
<1>1. sync'.step = "prepared" /\ sync'.options = p /\ sync'.attempt = n
  BY SyncIs DEF Prepared, SyncFields
<1>2. PICK l \in Options : l = log
  BY DEF PlansTyped
<1>3. log' = [l EXCEPT !.privacy = p.privacy, !.publishAt = p.publishAt]
  BY <1>2 DEF Prepared
<1>4. log' \in Options
  BY <1>2, <1>3 DEF Options
<1> QED BY <1>1, <1>4, SyncTyped

\* The webhook's two steps, and the sync that was asked for.
LEMMA StartsTyped ==
  ASSUME PlanIInv, PlansTyped,
         \/ HandleWebhook \/ HandleRecordingCompleted
         \/ \E u \in Hosts : \E privacy \in {"private", "public"} : ManualSync(u, privacy, "q")
  PROVE  PlansTyped'
<1>1. sync.options \in Options /\ log \in Options /\ sync.attempt \in 0..MAX_AUTO_RETRIES
  BY DEF PlansTyped
<1>2. CASE HandleWebhook
  <2>1. UNCHANGED <<config, workflow, clock, saves, log>>
    BY <1>2 DEF HandleWebhook
  <2>2. /\ sync'.step \in {"owned", "skipped"} /\ sync'.options = sync.options
        /\ sync'.attempt = sync.attempt
    BY <1>2, SyncIs DEF HandleWebhook, SyncFields
  <2> QED BY <1>1, <2>1, <2>2, SyncTyped
<1>3. CASE HandleRecordingCompleted
  <2>1. sync.step = "owned" /\ sync.owner \in Hosts /\ UNCHANGED <<config, workflow, clock, saves>>
    BY <1>3, SyncIs DEF HandleRecordingCompleted
  <2>2. PICK o : o = ResolveSyncOptions(sync.owner)
    OBVIOUS
  <2>3. o.privacy \in Privacies /\ o.playlist \in Playlists /\ o.delay \in Nat \cup {Unset}
    <3>1. workflow[sync.owner] \in Workflows \cup {Unset} /\ rules[sync.owner] \in Seq(RuleForms)
      BY <2>1 DEF PlansTyped, PlanIInv, PlanTyped
    <3> QED BY <2>1, <2>2, <3>1, OptionsAre, PlanIs, PlanOptions
  <2>4. PICK at : at = ComputePublishAt(sync.end, o.delay)
    OBVIOUS
  <2>5. at \in Nat \cup {Unset}
    BY <2>3, <2>4, SyncIs DEF ComputePublishAt
  <2>6. PICK p \in Options : p = [privacy |-> o.privacy, playlist |-> o.playlist, publishAt |-> at]
    BY <2>3, <2>5 DEF Options
  <2>7. \/ Prepared(p, 0)
        \/ sync' = [sync EXCEPT !.step = "skipped"] /\ UNCHANGED log
    BY <1>3, <2>2, <2>4, <2>6 DEF HandleRecordingCompleted
  <2>8. CASE Prepared(p, 0)
    <3>1. 0 \in 0..MAX_AUTO_RETRIES
      BY PlanLimits
    <3> QED BY <2>1, <2>8, <3>1, PreparedTyped
  <2>9. CASE sync' = [sync EXCEPT !.step = "skipped"] /\ UNCHANGED log
    <3>1. sync'.step = "skipped" /\ sync'.options = sync.options /\ sync'.attempt = sync.attempt
      BY <2>9, SyncIs DEF SyncFields
    <3> QED BY <1>1, <2>1, <2>9, <3>1, SyncTyped
  <2> QED BY <2>7, <2>8, <2>9
<1>4. ASSUME NEW u \in Hosts, NEW privacy \in {"private", "public"}, ManualSync(u, privacy, "q") PROVE PlansTyped'
  <2>1. PICK p \in Options : p = [privacy |-> privacy, playlist |-> "q", publishAt |-> Unset]
    BY DEF Options, Privacies, Playlists
  <2>2. /\ sync' = [sync EXCEPT !.step = "prepared", !.owner = u, !.attempt = 0, !.options = p]
        /\ log' = [log EXCEPT !.privacy = privacy, !.publishAt = Unset]
        /\ UNCHANGED <<config, workflow, clock, saves>>
    BY <1>4, <2>1 DEF ManualSync
  <2>3. sync'.step = "prepared" /\ sync'.options = p /\ sync'.attempt = 0
    BY <2>2, SyncIs DEF SyncFields
  <2>4. log' \in Options
    BY <1>1, <2>2 DEF Options, Privacies
  <2>5. 0 \in 0..MAX_AUTO_RETRIES
    BY PlanLimits
  <2> QED BY <2>2, <2>3, <2>4, <2>5, SyncTyped
<1> QED BY <1>2, <1>3, <1>4

\* The upload and its retries: an attempt more only while one is left.
LEMMA UploadsTyped ==
  ASSUME PlanIInv, PlansTyped,
         UploadStarts \/ DownloadFails \/ UploadFails \/ Uploads \/ RunRetry \/ RetryFails
  PROVE  PlansTyped'
<1>1. sync.options \in Options /\ log \in Options /\ sync.attempt \in 0..MAX_AUTO_RETRIES
      /\ (sync.step = "failed" => sync.attempt < MAX_AUTO_RETRIES)
  BY DEF PlansTyped
<1>2. UNCHANGED <<config, workflow, clock, saves>>
  BY DEF UploadStarts, DownloadFails, UploadFails, Uploads, RunRetry, RetryFails
<1>3. CASE UploadStarts
  <2>1. sync'.step = "uploading" /\ sync'.options = sync.options /\ sync'.attempt = sync.attempt
    BY <1>3, SyncIs DEF UploadStarts, SyncFields
  <2>2. log' = [log EXCEPT !.playlist = sync.options.playlist]
    BY <1>3 DEF UploadStarts
  <2>3. log' \in Options
    BY <1>1, <2>2 DEF Options
  <2> QED BY <1>1, <1>2, <2>1, <2>3, SyncTyped
<1>4. CASE DownloadFails \/ UploadFails
  <2>1. PICK early : Fails(early) /\ UNCHANGED log
    BY <1>4 DEF DownloadFails, UploadFails
  <2>2. PICK e, step : /\ sync' = [sync EXCEPT !.step = step, !.early = e]
                       /\ step = IF sync.attempt < MAX_AUTO_RETRIES THEN "failed" ELSE "given up"
    BY <2>1 DEF Fails
  <2>3. sync'.step = step /\ sync'.options = sync.options /\ sync'.attempt = sync.attempt
    BY <2>2, SyncIs DEF SyncFields
  <2>4. sync'.step = "failed" => sync'.attempt < MAX_AUTO_RETRIES
    <3>1. PICK a, m : a = sync.attempt /\ m = MAX_AUTO_RETRIES
      OBVIOUS
    <3>2. step = IF a < m THEN "failed" ELSE "given up"
      BY <2>2, <3>1
    <3>3. step = "failed" => a < m
      BY <3>2
    <3> QED BY <2>3, <3>1, <3>3
  <2> QED BY <1>1, <1>2, <2>1, <2>3, <2>4, SyncTyped
<1>5. CASE Uploads
  <2>1. sync'.step = "uploaded" /\ sync'.options = sync.options /\ sync'.attempt = sync.attempt /\ UNCHANGED log
    BY <1>5, SyncIs DEF Uploads, SyncFields
  <2> QED BY <1>1, <1>2, <2>1, SyncTyped
<1>6. CASE RunRetry
  <2>1. sync.step = "failed" /\ Prepared(log, sync.attempt + 1)
    BY <1>6 DEF RunRetry, RetryOptions
  <2>2. PICK n \in 0..MAX_AUTO_RETRIES : n = sync.attempt + 1
    BY <1>1, <2>1, PlanLimits
  <2> QED BY <1>1, <1>2, <2>1, <2>2, PreparedTyped
<1>7. CASE RetryFails
  <2>1. sync.step = "failed" /\ UNCHANGED log
    BY <1>7 DEF RetryFails
  <2>2. PICK n \in 0..MAX_AUTO_RETRIES : n = sync.attempt + 1
    BY <1>1, <2>1, PlanLimits
  <2>3. PICK step : /\ sync' = [sync EXCEPT !.attempt = n, !.step = step]
                    /\ step = IF n < MAX_AUTO_RETRIES THEN "failed" ELSE "given up"
    BY <1>7, <2>2 DEF RetryFails
  <2>4. sync'.step = step /\ sync'.options = sync.options /\ sync'.attempt = n
    BY <2>3, SyncIs DEF SyncFields
  <2>5. sync'.step = "failed" => sync'.attempt < MAX_AUTO_RETRIES
    <3>1. step = "failed" => n < MAX_AUTO_RETRIES
      BY <2>3
    <3> QED BY <2>4, <3>1
  <2> QED BY <1>1, <1>2, <2>1, <2>4, <2>5, SyncTyped
<1> QED BY <1>3, <1>4, <1>5, <1>6, <1>7

\* Each action keeps the types of the plan.
LEMMA PlansTypes ==
  ASSUME PlanIInv, PlansTyped, [SyncPlanNext]_planVars
  PROVE  PlansTyped'
<1>1. CASE PlanTick
  <2>1. clock < MaxClock /\ clock' = clock + 1 /\ UNCHANGED <<config, workflow, sync, log, saves>>
    BY <1>1 DEF PlanTick
  <2>2. clock' \in 0..MaxClock
    BY <2>1, PlanLimits DEF PlansTyped
  <2> QED BY <2>1, <2>2 DEF PlansTyped
<1>2. CASE UNCHANGED planVars
  BY <1>2, PlansSame DEF planVars
<1> QED BY <1>1, <1>2, FormsTyped, StartsTyped, UploadsTyped, Zenon DEF SyncPlanNext

\* No form was saved, and no sync carries anything, at first.
LEMMA PlansInit == SyncPlanInit => PlansTyped
<1> SUFFICES ASSUME SyncPlanInit PROVE PlansTyped
  OBVIOUS
<1>1. NoOptions \in Options
  BY DEF NoOptions, Options, Privacies, Playlists
<1>2. [active |-> TRUE, updated |-> 0] \in [active : BOOLEAN, updated : 0..MaxFormSaves]
  BY PlanLimits
<1>3. config \in [Hosts -> [active : BOOLEAN, updated : 0..MaxFormSaves]] /\ log \in Options
  BY <1>1, <1>2 DEF SyncPlanInit
<1>4. sync.step = "none" /\ sync.options = NoOptions /\ sync.attempt = 0
  BY DEF SyncPlanInit
<1>5. workflow \in [Hosts -> Workflows \cup {Unset}] /\ clock = 0 /\ saves = 0
  BY SyncPlanAssumption DEF SyncPlanInit
<1> QED BY <1>1, <1>3, <1>4, <1>5, PlanLimits DEF PlansTyped

\* The settings, the options and the counters are typed.
LEMMA PlansHold == PlanIInv /\ PlansTyped => SyncPlanTypeOK
BY DEF PlanIInv, PlanTyped, PlansTyped, SyncPlanTypeOK

-----------------------------------------------------------------------------
(* Captions.  A request brings one upload, which counts an attempt, or     *)
(* leaves a status that the sweep looks at and may count one for later.    *)
(* What a row has counted, what the sweep owes it and what the uploads     *)
(* that were asked for may still count stay within the budget together.    *)

Waiting == {"waiting_transcript", "pending"}
CaptionRows == [status : {"none", "waiting_transcript", "pending", "uploaded", "failed", "no_transcript"},
                retryable : BOOLEAN, attempts : Nat,
                idle : 0..Old, onVideo : BOOLEAN, done : {Never} \cup 0..Old]
Planned == [r : Synced, decision : {"retry", "give_up", "wait"}]

\* What the upload of r that b asked for may still count, and leave for the sweep to count.
Weight(ts, b, r) ==
  IF \E t \in ts : t.by = b /\ t.r = r /\ t.step \in {"begin", "settings"} THEN 2
  ELSE IF \E t \in ts : t.by = b /\ t.r = r THEN 1 ELSE 0
Asked(ts, r) == Weight(ts, "sync", r) + Weight(ts, "webhook", r) + Weight(ts, "user", r)

\* The sweep will look at r, or has it in hand.
Retries(row, ts, pl, r) ==
  \/ row.status \in Waiting
  \/ \E t \in ts : t.by = "sweep" /\ t.r = r
  \/ \E i \in DOMAIN pl : pl[i].r = r /\ pl[i].decision = "retry"
Owes(row, ts, pl, r) == IF Retries(row, ts, pl, r) THEN 1 ELSE 0

OneEach(ts) == \A t, u \in ts : t.by = u.by => t = u
SweepsOnce(ts, pl, on) ==
  /\ \A t \in ts : t.by = "sweep" => on = "running" /\ \A i \in DOMAIN pl : pl[i].r # t.r
  /\ pl # <<>> => on = "running"
  /\ \A i, j \in DOMAIN pl : i # j => pl[i].r # pl[j].r

InBudget(row, ts, pl, r, n) ==
  /\ Asked(ts, r) <= 2 * n
  /\ row.attempts + Owes(row, ts, pl, r) + Asked(ts, r) <= CAPTION_MAX_ATTEMPTS + 2 * n

CaptionsTyped(cap, ts, pl, on, ups, n) ==
  /\ cap \in [Synced -> CaptionRows] /\ ts \subseteq Try /\ pl \in Seq(Planned)
  /\ on \in {"idle", "running", "done"} /\ ups \in 0..SWEEP_UPLOAD_LIMIT /\ n \in 0..MaxCaptionRequests

CaptionIInv ==
  /\ CaptionsTyped(caption, tries, plan, sweepOn, uploads, captionRequests)
  /\ OneEach(tries) /\ SweepsOnce(tries, plan, sweepOn)
  /\ \A r \in Synced : InBudget(caption[r], tries, plan, r, captionRequests)

\* The constants.
LEMMA CaptionLimits ==
  /\ CAPTION_WAIT \in Nat /\ CAPTION_MAX_ATTEMPTS \in Nat /\ CAPTION_MAX_ATTEMPTS > 0
  /\ SWEEP_UPLOAD_LIMIT \in Nat /\ SWEEP_TAKE \in Nat /\ SWEEP_TAKE > 0 /\ MaxCaptionRequests \in Nat
  /\ Old \in Nat /\ 0 \in 0..Old /\ Never \notin 0..Old /\ Never \in Int
<1>1. {CAPTION_WAIT, CAPTION_MAX_ATTEMPTS, PENDING_STUCK, SWEEP_TAKE, SWEEP_UPLOAD_LIMIT,
       MaxCaptionRequests} \subseteq Nat \ {0}
  BY CaptionsAssumption
<1>2. CAPTION_WAIT \in Nat \ {0} /\ CAPTION_MAX_ATTEMPTS \in Nat \ {0} /\ SWEEP_TAKE \in Nat \ {0}
      /\ SWEEP_UPLOAD_LIMIT \in Nat \ {0} /\ MaxCaptionRequests \in Nat \ {0}
  BY <1>1
<1> QED BY <1>2 DEF Old, Never

\* Weights are 0, 1 or 2.
LEMMA WeightsAre ==
  ASSUME NEW ts, NEW r
  PROVE  /\ \A b : Weight(ts, b, r) \in 0..2
         /\ Asked(ts, r) \in Nat
<1>1. \A b : Weight(ts, b, r) \in 0..2
  BY DEF Weight
<1>2. Weight(ts, "sync", r) \in 0..2 /\ Weight(ts, "webhook", r) \in 0..2 /\ Weight(ts, "user", r) \in 0..2
  BY <1>1
<1> QED BY <1>1, <1>2 DEF Asked

\* An upload ends.
LEMMA TryEnds ==
  ASSUME NEW ts, ts \subseteq Try, OneEach(ts), NEW t \in ts, NEW us, us = ts \ {t}
  PROVE  /\ us \subseteq Try /\ OneEach(us)
         /\ \A r : Asked(us, r) <= Asked(ts, r)
         /\ t.by # "sweep" => Asked(us, t.r) + 1 <= Asked(ts, t.r)
<1>1. us \subseteq Try /\ OneEach(us)
  BY DEF OneEach
<1>2. \A b, r : Weight(us, b, r) <= Weight(ts, b, r)
  BY DEF Weight
<1>3. ASSUME NEW r PROVE Asked(us, r) <= Asked(ts, r)
  <2>1. \A b : Weight(us, b, r) \in 0..2 /\ Weight(ts, b, r) \in 0..2 /\ Weight(us, b, r) <= Weight(ts, b, r)
    BY <1>2, WeightsAre
  <2>2. ASSUME NEW a \in 0..2, NEW b \in 0..2, NEW c \in 0..2, NEW x \in 0..2, NEW y \in 0..2, NEW z \in 0..2,
               a <= x, b <= y, c <= z
        PROVE  a + b + c <= x + y + z
    BY <2>2
  <2> QED BY <2>1, <2>2 DEF Asked
<1>4. ASSUME t.by # "sweep" PROVE Asked(us, t.r) + 1 <= Asked(ts, t.r)
  <2>1. Weight(us, t.by, t.r) = 0
    BY DEF Weight, OneEach
  <2>2. Weight(ts, t.by, t.r) >= 1
    BY DEF Weight
  <2>3. t.by \in {"sync", "webhook", "user"}
    BY <1>4 DEF Try, Callers
  <2>4. \A b : Weight(us, b, t.r) \in 0..2 /\ Weight(ts, b, t.r) \in 0..2 /\ Weight(us, b, t.r) <= Weight(ts, b, t.r)
    BY <1>2, WeightsAre
  <2>5. ASSUME NEW a \in 0..2, NEW b \in 0..2, NEW c \in 0..2, NEW x \in 0..2, NEW y \in 0..2, NEW z \in 0..2,
               a <= x, b <= y, c <= z, (a = 0 /\ x >= 1) \/ (b = 0 /\ y >= 1) \/ (c = 0 /\ z >= 1)
        PROVE  a + b + c + 1 <= x + y + z
    BY <2>5
  <2>6. \/ Weight(us, "sync", t.r) = 0 /\ Weight(ts, "sync", t.r) >= 1
        \/ Weight(us, "webhook", t.r) = 0 /\ Weight(ts, "webhook", t.r) >= 1
        \/ Weight(us, "user", t.r) = 0 /\ Weight(ts, "user", t.r) >= 1
    BY <2>1, <2>2, <2>3
  <2> QED BY <2>4, <2>5, <2>6 DEF Asked
<1> QED BY <1>1, <1>3, <1>4

\* An upload goes on.
LEMMA TryGoes ==
  ASSUME NEW ts, ts \subseteq Try, OneEach(ts), NEW t \in ts, NEW u \in Try,
         u.by = t.by, u.r = t.r, t.step = "begin" \/ u.step \notin {"begin", "settings"},
         NEW us, us = (ts \ {t}) \cup {u}
  PROVE  /\ us \subseteq Try /\ OneEach(us)
         /\ \A r : Asked(us, r) <= Asked(ts, r)
         /\ t.by # "sweep" /\ t.step = "settings" => Asked(us, t.r) + 1 <= Asked(ts, t.r)
         /\ \A r : (\E x \in us : x.by = "sweep" /\ x.r = r) <=> (\E x \in ts : x.by = "sweep" /\ x.r = r)
<1>1. us \subseteq Try /\ OneEach(us)
  BY DEF OneEach
<1>2. \A b, r : Weight(us, b, r) <= Weight(ts, b, r)
  BY DEF Weight
<1>3. ASSUME NEW r PROVE Asked(us, r) <= Asked(ts, r)
  <2>1. \A b : Weight(us, b, r) \in 0..2 /\ Weight(ts, b, r) \in 0..2 /\ Weight(us, b, r) <= Weight(ts, b, r)
    BY <1>2, WeightsAre
  <2>2. ASSUME NEW a \in 0..2, NEW b \in 0..2, NEW c \in 0..2, NEW x \in 0..2, NEW y \in 0..2, NEW z \in 0..2,
               a <= x, b <= y, c <= z
        PROVE  a + b + c <= x + y + z
    BY <2>2
  <2> QED BY <2>1, <2>2 DEF Asked
<1>4. ASSUME t.by # "sweep", t.step = "settings" PROVE Asked(us, t.r) + 1 <= Asked(ts, t.r)
  <2>1. Weight(us, t.by, t.r) = 1
    BY <1>4 DEF Weight, OneEach
  <2>2. Weight(ts, t.by, t.r) = 2
    BY <1>4 DEF Weight
  <2>3. t.by \in {"sync", "webhook", "user"}
    BY <1>4 DEF Try, Callers
  <2>4. \A b : Weight(us, b, t.r) \in 0..2 /\ Weight(ts, b, t.r) \in 0..2 /\ Weight(us, b, t.r) <= Weight(ts, b, t.r)
    BY <1>2, WeightsAre
  <2>5. ASSUME NEW a \in 0..2, NEW b \in 0..2, NEW c \in 0..2, NEW x \in 0..2, NEW y \in 0..2, NEW z \in 0..2,
               a <= x, b <= y, c <= z, (a = 1 /\ x = 2) \/ (b = 1 /\ y = 2) \/ (c = 1 /\ z = 2)
        PROVE  a + b + c + 1 <= x + y + z
    BY <2>5
  <2>6. \/ Weight(us, "sync", t.r) = 1 /\ Weight(ts, "sync", t.r) = 2
        \/ Weight(us, "webhook", t.r) = 1 /\ Weight(ts, "webhook", t.r) = 2
        \/ Weight(us, "user", t.r) = 1 /\ Weight(ts, "user", t.r) = 2
    BY <2>1, <2>2, <2>3
  <2> QED BY <2>4, <2>5, <2>6 DEF Asked
<1>5. \A r : (\E x \in us : x.by = "sweep" /\ x.r = r) <=> (\E x \in ts : x.by = "sweep" /\ x.r = r)
  BY Zenon
<1> QED BY <1>1, <1>3, <1>4, <1>5

\* An upload begins.
LEMMA TryStarts ==
  ASSUME NEW ts, ts \subseteq Try, OneEach(ts), NEW n \in Try, \A t \in ts : t.by # n.by,
         NEW us, us = ts \cup {n}
  PROVE  /\ us \subseteq Try /\ OneEach(us)
         /\ \A r : Asked(us, r) <= Asked(ts, r) + 2
         /\ n.by = "sweep" => \A r : Asked(us, r) = Asked(ts, r)
         /\ n.by # "sweep" => \A r : (\E x \in us : x.by = "sweep" /\ x.r = r) <=> (\E x \in ts : x.by = "sweep" /\ x.r = r)
<1>1. us \subseteq Try /\ OneEach(us)
  BY DEF OneEach
<1>2. \A b, r : b # n.by => Weight(us, b, r) = Weight(ts, b, r)
  BY DEF Weight
<1>3. \A r : Weight(ts, n.by, r) = 0
  BY DEF Weight
<1>4. ASSUME NEW r PROVE Asked(us, r) <= Asked(ts, r) + 2 /\ (n.by = "sweep" => Asked(us, r) = Asked(ts, r))
  <2>1. \A b : Weight(us, b, r) \in 0..2 /\ Weight(ts, b, r) \in 0..2
    BY WeightsAre
  <2>2. CASE n.by \notin {"sync", "webhook", "user"}
    <3>1. Asked(us, r) = Asked(ts, r) /\ Asked(ts, r) \in Nat
      BY <1>2, <2>2, WeightsAre DEF Asked
    <3> QED BY <3>1
  <2>3. ASSUME NEW a \in 0..2, NEW b \in 0..2, NEW c \in 0..2, NEW x \in 0..2
        PROVE  x + b + c <= a + b + c + 2 /\ a + x + c <= a + b + c + 2 /\ a + b + x <= a + b + c + 2
    BY <2>3
  <2>4. CASE n.by = "sync"
    BY <1>2, <2>1, <2>3, <2>4 DEF Asked
  <2>5. CASE n.by = "webhook"
    BY <1>2, <2>1, <2>3, <2>5 DEF Asked
  <2>6. CASE n.by = "user"
    BY <1>2, <2>1, <2>3, <2>6 DEF Asked
  <2> QED BY <2>2, <2>4, <2>5, <2>6
<1>5. ASSUME n.by # "sweep"
      PROVE \A r : (\E x \in us : x.by = "sweep" /\ x.r = r) <=> (\E x \in ts : x.by = "sweep" /\ x.r = r)
  BY <1>5, Zenon
<1> QED BY <1>1, <1>4, <1>5

\* An attempt of an upload t leaves a row n, and goes on as the uploads us.
LEMMA TryMoves ==
  ASSUME CaptionIInv, NEW t \in tries, NEW e, e = caption[t.r], NEW n \in CaptionRows,
         caption' = [caption EXCEPT ![t.r] = n], NEW us, tries' = us,
         UNCHANGED <<plan, sweepOn, uploads, captionRequests>>,
         us \subseteq Try, OneEach(us), \A r : Asked(us, r) <= Asked(tries, r),
         \A r : (\E x \in us : x.by = "sweep" /\ x.r = r) => (\E x \in tries : x.by = "sweep" /\ x.r = r),
         n.attempts + Owes(n, us, plan, t.r) + Asked(us, t.r) <= e.attempts + Owes(e, tries, plan, t.r) + Asked(tries, t.r)
  PROVE  CaptionIInv'
<1>1. PICK c : c = captionRequests
  OBVIOUS
<1>2. /\ CaptionsTyped(caption, tries, plan, sweepOn, uploads, c) /\ SweepsOnce(tries, plan, sweepOn)
      /\ \A r \in Synced : InBudget(caption[r], tries, plan, r, c)
  BY <1>1 DEF CaptionIInv
<1>3. t.r \in Synced /\ c \in Nat
  BY <1>2, CaptionLimits DEF CaptionsTyped, Try
<1>4. PICK d : d = caption'
  OBVIOUS
<1>5. d \in [Synced -> CaptionRows] /\ d[t.r] = n /\ \A r \in Synced : r # t.r => d[r] = caption[r]
  BY <1>2, <1>3, <1>4 DEF CaptionsTyped
<1>6. CaptionsTyped(d, us, plan, sweepOn, uploads, c)
  BY <1>2, <1>5 DEF CaptionsTyped
<1>7. SweepsOnce(us, plan, sweepOn)
  <2>1. ASSUME NEW x \in us, x.by = "sweep" PROVE sweepOn = "running" /\ \A i \in DOMAIN plan : plan[i].r # x.r
    <3>1. PICK y \in tries : y.by = "sweep" /\ y.r = x.r
      BY <2>1
    <3> QED BY <1>2, <3>1 DEF SweepsOnce
  <2> QED BY <1>2, <2>1 DEF SweepsOnce
<1>8. ASSUME NEW r \in Synced PROVE InBudget(d[r], us, plan, r, c)
  <2>1. PICK a \in Nat : a = Asked(tries, r)
    BY WeightsAre
  <2>2. PICK b \in Nat : b = Asked(us, r) /\ b <= a
    BY <2>1, WeightsAre
  <2>3. PICK k \in Nat : k = caption[r].attempts
    BY <1>2 DEF CaptionsTyped, CaptionRows
  <2>4. PICK o \in 0..1 : o = Owes(caption[r], tries, plan, r)
    BY DEF Owes
  <2>5. PICK p \in 0..1 : p = Owes(d[r], us, plan, r)
    BY DEF Owes
  <2>6. PICK l \in Nat : l = d[r].attempts
    BY <1>5 DEF CaptionRows
  <2>7. PICK M \in Nat : M = CAPTION_MAX_ATTEMPTS
    BY CaptionLimits
  <2>8. a <= 2 * c /\ k + o + a <= M + 2 * c
    BY <1>2, <2>1, <2>3, <2>4, <2>7 DEF InBudget
  <2>9. l + p + b <= k + o + a
    <3>1. CASE r = t.r
      BY <1>5, <2>1, <2>2, <2>3, <2>4, <2>5, <2>6, <3>1
    <3>2. CASE r # t.r
      <4>1. d[r] = caption[r] /\ k = l
        BY <1>5, <2>3, <2>6, <3>2
      <4>2. Retries(d[r], us, plan, r) => Retries(caption[r], tries, plan, r)
        BY <4>1 DEF Retries
      <4>3. p <= o
        BY <2>4, <2>5, <4>2 DEF Owes
      <4> QED BY <2>2, <4>1, <4>3
    <3> QED BY <3>1, <3>2
  <2>10. b <= 2 * c /\ l + p + b <= M + 2 * c
    BY <1>3, <2>2, <2>8, <2>9
  <2> QED BY <2>2, <2>5, <2>6, <2>7, <2>10 DEF InBudget
<1> QED BY <1>1, <1>4, <1>6, <1>7, <1>8 DEF CaptionIInv

\* What the writes of a row leave.
LEMMA RowWrites ==
  ASSUME NEW e \in CaptionRows
  PROVE  /\ \A s \in Waiting \cup {"no_transcript"} : LET n == [e EXCEPT !.status = s, !.idle = 0]
              IN n \in CaptionRows /\ n.attempts = e.attempts /\ n.status = s
         /\ \A b \in BOOLEAN : LET n == [e EXCEPT !.status = "failed", !.retryable = b, !.attempts = @ + 1, !.idle = 0]
              IN n \in CaptionRows /\ n.attempts = e.attempts + 1 /\ n.status = "failed"
         /\ LET n == [e EXCEPT !.status = "uploaded", !.retryable = FALSE, !.attempts = @ + 1, !.idle = 0]
            IN n \in CaptionRows /\ n.attempts = e.attempts + 1 /\ n.status = "uploaded"
<1>1. 0 \in 0..Old /\ e.attempts + 1 \in Nat
  BY CaptionLimits DEF CaptionRows
<1>2. ASSUME NEW s \in Waiting \cup {"no_transcript"}, NEW n, n = [e EXCEPT !.status = s, !.idle = 0]
      PROVE  n \in CaptionRows /\ n.attempts = e.attempts /\ n.status = s
  BY <1>1, <1>2 DEF CaptionRows, Waiting
<1>3. ASSUME NEW b \in BOOLEAN, NEW s \in {"failed", "uploaded"},
             NEW n, n = [e EXCEPT !.status = s, !.retryable = b, !.attempts = @ + 1, !.idle = 0]
      PROVE  n \in CaptionRows /\ n.attempts = e.attempts + 1 /\ n.status = s
  BY <1>1, <1>3 DEF CaptionRows
<1> QED BY <1>2, <1>3

\* What the end of an upload counts.
LEMMA EndCounts ==
  ASSUME CaptionIInv, NEW t \in tries, NEW e, e = caption[t.r], NEW n \in CaptionRows, NEW us, us = tries \ {t},
         \/ n = e
         \/ n.attempts = e.attempts /\ n.status \in Waiting
         \/ n.attempts = e.attempts + 1 /\ n.status \in {"failed", "uploaded"}
  PROVE  n.attempts + Owes(n, us, plan, t.r) + Asked(us, t.r) <= e.attempts + Owes(e, tries, plan, t.r) + Asked(tries, t.r)
<1>1. tries \subseteq Try /\ OneEach(tries) /\ SweepsOnce(tries, plan, sweepOn) /\ caption \in [Synced -> CaptionRows]
  BY DEF CaptionIInv, CaptionsTyped
<1>2. e \in CaptionRows
  BY <1>1 DEF Try
<1>3. PICK a \in Nat : a = Asked(tries, t.r)
  BY WeightsAre
<1>4. PICK b \in Nat : b = Asked(us, t.r) /\ b <= a /\ (t.by # "sweep" => b + 1 <= a)
  BY <1>1, <1>3, TryEnds, WeightsAre
<1>5. PICK k \in Nat : k = e.attempts
  BY <1>2 DEF CaptionRows
<1>6. PICK l \in Nat : l = n.attempts
  BY DEF CaptionRows
<1>7. PICK o \in 0..1 : o = Owes(e, tries, plan, t.r)
  BY DEF Owes
<1>8. PICK p \in 0..1 : p = Owes(n, us, plan, t.r)
  BY DEF Owes
<1>9. n.status \notin Waiting \/ n = e => p <= o
  <2>1. n.status \notin Waiting \/ n = e => (Retries(n, us, plan, t.r) => Retries(e, tries, plan, t.r))
    BY DEF Retries
  <2> QED BY <1>7, <1>8, <2>1 DEF Owes
<1>10. t.by = "sweep" => o = 1
  BY <1>7 DEF Owes, Retries
<1>11. t.by = "sweep" /\ n.status \notin Waiting => p = 0
  <2> SUFFICES ASSUME t.by = "sweep", n.status \notin Waiting PROVE ~Retries(n, us, plan, t.r)
    BY <1>8 DEF Owes
  <2>1. ~\E x \in us : x.by = "sweep" /\ x.r = t.r
    BY <1>1 DEF OneEach
  <2>2. \A i \in DOMAIN plan : plan[i].r # t.r
    BY <1>1 DEF SweepsOnce
  <2> QED BY <2>1, <2>2 DEF Retries
<1>12. CASE n = e
  BY <1>3, <1>4, <1>5, <1>7, <1>8, <1>9, <1>12
<1>13. CASE n.attempts = e.attempts /\ n.status \in Waiting
  <2>1. l = k
    BY <1>5, <1>6, <1>13
  <2>2. CASE t.by = "sweep"
    BY <1>3, <1>4, <1>5, <1>6, <1>7, <1>8, <1>10, <2>1, <2>2
  <2>3. CASE t.by # "sweep"
    BY <1>3, <1>4, <1>5, <1>6, <1>7, <1>8, <2>1, <2>3
  <2> QED BY <2>2, <2>3
<1>14. CASE n.attempts = e.attempts + 1 /\ n.status \in {"failed", "uploaded"}
  <2>1. l = k + 1
    BY <1>5, <1>6, <1>14
  <2>2. n.status \notin Waiting
    BY <1>14 DEF Waiting
  <2>3. CASE t.by = "sweep"
    BY <1>3, <1>4, <1>5, <1>6, <1>7, <1>8, <1>10, <1>11, <2>1, <2>2, <2>3
  <2>4. CASE t.by # "sweep"
    BY <1>3, <1>4, <1>5, <1>6, <1>7, <1>8, <1>9, <2>1, <2>2, <2>4
  <2> QED BY <2>3, <2>4
<1> QED BY <1>12, <1>13, <1>14

\* A step of an upload.
LEMMA TryUploadKeeps ==
  ASSUME CaptionIInv, NEW t \in tries, TryUpload(t)
  PROVE  CaptionIInv'
<1>1. tries \subseteq Try /\ OneEach(tries) /\ caption \in [Synced -> CaptionRows]
  BY DEF CaptionIInv, CaptionsTyped
<1>2. UNCHANGED <<plan, sweepOn, uploads, captionRequests>>
  BY DEF TryUpload
<1>3. PICK e : e = caption[t.r]
  OBVIOUS
<1>4. e \in CaptionRows /\ t \in Try /\ t.r \in Synced
  BY <1>1, <1>3 DEF Try
<1>5. UNCHANGED caption => caption' = [caption EXCEPT ![t.r] = e]
  BY <1>1, <1>3, <1>4
<1>6. \A s : SetStatus(t.r, s) => caption' = [caption EXCEPT ![t.r] = [e EXCEPT !.status = s, !.idle = 0]]
  BY <1>1, <1>3, <1>4 DEF SetStatus
<1>7. \A b : Fail(t.r, b) => caption' = [caption EXCEPT ![t.r] =
         [e EXCEPT !.status = "failed", !.retryable = b, !.attempts = @ + 1, !.idle = 0]]
  BY <1>1, <1>3, <1>4 DEF Fail
<1>8. Uploaded(t.r) => caption' = [caption EXCEPT ![t.r] =
         [e EXCEPT !.status = "uploaded", !.retryable = FALSE, !.attempts = @ + 1, !.idle = 0]]
  BY <1>1, <1>3, <1>4 DEF Uploaded
<1>9. ASSUME Ends(t), NEW n \in CaptionRows, caption' = [caption EXCEPT ![t.r] = n],
             \/ n = e
             \/ n.attempts = e.attempts /\ n.status \in Waiting
             \/ n.attempts = e.attempts + 1 /\ n.status \in {"failed", "uploaded"}
      PROVE  CaptionIInv'
  <2>1. PICK us : us = tries \ {t}
    OBVIOUS
  <2>2. tries' = us
    BY <1>9, <2>1 DEF Ends
  <2>3. us \subseteq Try /\ OneEach(us) /\ \A r : Asked(us, r) <= Asked(tries, r)
    BY <1>1, <2>1, TryEnds
  <2>4. n.attempts + Owes(n, us, plan, t.r) + Asked(us, t.r) <= e.attempts + Owes(e, tries, plan, t.r) + Asked(tries, t.r)
    BY <1>3, <1>9, <2>1, EndCounts
  <2>5. \A r : (\E x \in us : x.by = "sweep" /\ x.r = r) => (\E x \in tries : x.by = "sweep" /\ x.r = r)
    BY <2>1
  <2> QED BY <1>2, <1>3, <1>9, <2>2, <2>3, <2>4, <2>5, TryMoves
<1>10. ASSUME Ends(t), UNCHANGED caption PROVE CaptionIInv'
  BY <1>4, <1>5, <1>9, <1>10
<1>11. ASSUME Ends(t), NEW s \in Waiting, SetStatus(t.r, s) PROVE CaptionIInv'
  <2>1. PICK n : n = [e EXCEPT !.status = s, !.idle = 0]
    OBVIOUS
  <2>2. n \in CaptionRows /\ n.attempts = e.attempts /\ n.status = s
    BY <1>4, <2>1, RowWrites
  <2> QED BY <1>6, <1>9, <1>11, <2>1, <2>2
<1>12. ASSUME Ends(t), NEW b \in BOOLEAN, Fail(t.r, b) PROVE CaptionIInv'
  <2>1. PICK n : n = [e EXCEPT !.status = "failed", !.retryable = b, !.attempts = @ + 1, !.idle = 0]
    OBVIOUS
  <2>2. n \in CaptionRows /\ n.attempts = e.attempts + 1 /\ n.status = "failed"
    BY <1>4, <2>1, RowWrites
  <2> QED BY <1>7, <1>9, <1>12, <2>1, <2>2
<1>13. ASSUME Ends(t), Uploaded(t.r) PROVE CaptionIInv'
  <2>1. PICK n : n = [e EXCEPT !.status = "uploaded", !.retryable = FALSE, !.attempts = @ + 1, !.idle = 0]
    OBVIOUS
  <2>2. n \in CaptionRows /\ n.attempts = e.attempts + 1 /\ n.status = "uploaded"
    BY <1>4, <2>1, RowWrites
  <2> QED BY <1>8, <1>9, <1>13, <2>1, <2>2
<1>14. ASSUME NEW step \in {"settings", "files", "upload"}, Goes(t, step),
              t.step = "begin" \/ step \notin {"begin", "settings"},
              NEW n \in CaptionRows, caption' = [caption EXCEPT ![t.r] = n], n.attempts = e.attempts,
              n = e \/ (n.status \in Waiting /\ t.step = "settings")
       PROVE  CaptionIInv'
  <2>1. PICK u : u = [t EXCEPT !.step = step]
    OBVIOUS
  <2>2. u \in Try /\ u.by = t.by /\ u.r = t.r /\ u.step = step
    BY <1>4, <2>1 DEF Try
  <2>3. PICK us : us = (tries \ {t}) \cup {u}
    OBVIOUS
  <2>4. tries' = us
    BY <1>14, <2>1, <2>3 DEF Goes
  <2>5. /\ us \subseteq Try /\ OneEach(us)
        /\ \A r : Asked(us, r) <= Asked(tries, r)
        /\ t.by # "sweep" /\ t.step = "settings" => Asked(us, t.r) + 1 <= Asked(tries, t.r)
        /\ \A r : (\E x \in us : x.by = "sweep" /\ x.r = r) <=> (\E x \in tries : x.by = "sweep" /\ x.r = r)
    BY <1>1, <1>14, <2>2, <2>3, TryGoes
  <2>6. n.attempts + Owes(n, us, plan, t.r) + Asked(us, t.r) <= e.attempts + Owes(e, tries, plan, t.r) + Asked(tries, t.r)
    <3>1. PICK a \in Nat : a = Asked(tries, t.r)
      BY WeightsAre
    <3>2. PICK b \in Nat : b = Asked(us, t.r) /\ b <= a /\ (t.by # "sweep" /\ t.step = "settings" => b + 1 <= a)
      BY <2>5, <3>1, WeightsAre
    <3>3. PICK k \in Nat : k = e.attempts /\ k = n.attempts
      BY <1>4, <1>14 DEF CaptionRows
    <3>4. PICK o \in 0..1 : o = Owes(e, tries, plan, t.r)
      BY DEF Owes
    <3>5. PICK p \in 0..1 : p = Owes(n, us, plan, t.r)
      BY DEF Owes
    <3>6. n = e => p <= o
      <4>1. n = e => (Retries(n, us, plan, t.r) => Retries(e, tries, plan, t.r))
        BY <2>5 DEF Retries
      <4> QED BY <3>4, <3>5, <4>1 DEF Owes
    <3>7. t.by = "sweep" => o = 1
      BY <3>4 DEF Owes, Retries
    <3>8. p <= o \/ b + 1 <= a
      BY <1>14, <3>2, <3>5, <3>6, <3>7
    <3> QED BY <3>1, <3>2, <3>3, <3>4, <3>5, <3>8
  <2> QED BY <1>2, <1>3, <1>14, <2>4, <2>5, <2>6, TryMoves
<1>15. CASE ReadsRow(t)
  <2>1. t.step = "begin" /\ UNCHANGED caption /\ (Goes(t, "settings") \/ Ends(t))
    BY <1>15 DEF ReadsRow
  <2> QED BY <1>4, <1>5, <1>10, <1>14, <2>1
<1>16. CASE ReadsSettings(t)
  <2>1. t.step = "settings" /\ (\/ Ends(t) /\ UNCHANGED caption
                                \/ Ends(t) /\ Fail(t.r, TRUE)
                                \/ Goes(t, "files") /\ SetStatus(t.r, "pending"))
    BY <1>16 DEF ReadsSettings
  <2>2. CASE Goes(t, "files") /\ SetStatus(t.r, "pending")
    <3>1. PICK n : n = [e EXCEPT !.status = "pending", !.idle = 0]
      OBVIOUS
    <3>2. "pending" \in Waiting
      BY DEF Waiting
    <3>3. n \in CaptionRows /\ n.attempts = e.attempts /\ n.status = "pending"
      BY <1>4, <3>1, <3>2, RowWrites
    <3> QED BY <1>6, <1>14, <2>1, <2>2, <3>1, <3>2, <3>3
  <2> QED BY <1>10, <1>12, <2>1, <2>2
<1>17. CASE FetchesFiles(t)
  <2>1. t.step = "files" /\ (\/ Ends(t) /\ SetStatus(t.r, "waiting_transcript")
                             \/ \E b \in BOOLEAN : Ends(t) /\ Fail(t.r, b)
                             \/ Goes(t, "upload") /\ UNCHANGED caption)
    BY <1>17 DEF FetchesFiles
  <2>2. "waiting_transcript" \in Waiting
    BY DEF Waiting
  <2> QED BY <1>4, <1>5, <1>11, <1>12, <1>14, <2>1, <2>2
<1>18. CASE UploadsTrack(t)
  <2>1. Ends(t) /\ (Uploaded(t.r) \/ \E b \in BOOLEAN : Fail(t.r, b))
    BY <1>18 DEF UploadsTrack
  <2> QED BY <1>12, <1>13, <2>1
<1> QED BY <1>15, <1>16, <1>17, <1>18 DEF TryUpload

-----------------------------------------------------------------------------
\* A request, with the upload that it begins, if it begins one.
LEMMA CaptionRequestKeeps ==
  ASSUME CaptionIInv, NEW q \in Synced, NEW e, e = caption[q], NEW n \in CaptionRows,
         n.status = e.status, n.attempts <= e.attempts,
         caption' = [caption EXCEPT ![q] = n], CaptionRequest, NEW us, tries' = us,
         us \subseteq Try, OneEach(us), \A r : Asked(us, r) <= Asked(tries, r) + 2,
         \A r : (\E x \in us : x.by = "sweep" /\ x.r = r) <=> (\E x \in tries : x.by = "sweep" /\ x.r = r),
         UNCHANGED <<plan, sweepOn, uploads>>
  PROVE  CaptionIInv'
<1>1. PICK c : c = captionRequests
  OBVIOUS
<1>2. /\ CaptionsTyped(caption, tries, plan, sweepOn, uploads, c) /\ SweepsOnce(tries, plan, sweepOn)
      /\ \A r \in Synced : InBudget(caption[r], tries, plan, r, c)
  BY <1>1 DEF CaptionIInv
<1>3. c \in Nat /\ c + 1 \in 0..MaxCaptionRequests /\ captionRequests' = c + 1
  <2>1. captionRequests < MaxCaptionRequests /\ captionRequests' = captionRequests + 1
    BY DEF CaptionRequest
  <2> QED BY <1>1, <1>2, <2>1, CaptionLimits DEF CaptionsTyped
<1>4. PICK d : d = caption'
  OBVIOUS
<1>5. d \in [Synced -> CaptionRows] /\ d[q] = n /\ \A r \in Synced : r # q => d[r] = caption[r]
  BY <1>2, <1>4 DEF CaptionsTyped
<1>6. CaptionsTyped(d, us, plan, sweepOn, uploads, c + 1)
  BY <1>2, <1>3, <1>5 DEF CaptionsTyped
<1>7. SweepsOnce(us, plan, sweepOn)
  <2>1. ASSUME NEW x \in us, x.by = "sweep" PROVE sweepOn = "running" /\ \A i \in DOMAIN plan : plan[i].r # x.r
    <3>1. PICK y \in tries : y.by = "sweep" /\ y.r = x.r
      BY <2>1
    <3> QED BY <1>2, <3>1 DEF SweepsOnce
  <2> QED BY <1>2, <2>1 DEF SweepsOnce
<1>8. ASSUME NEW r \in Synced PROVE InBudget(d[r], us, plan, r, c + 1)
  <2>1. PICK a \in Nat : a = Asked(tries, r)
    BY WeightsAre
  <2>2. PICK b \in Nat : b = Asked(us, r) /\ b <= a + 2
    BY <2>1, WeightsAre
  <2>3. PICK k \in Nat : k = caption[r].attempts
    BY <1>2 DEF CaptionsTyped, CaptionRows
  <2>4. PICK o \in 0..1 : o = Owes(caption[r], tries, plan, r)
    BY DEF Owes
  <2>5. d[r].status = caption[r].status
    BY <1>5
  <2>6. PICK l \in Nat : l = d[r].attempts /\ l <= k
    BY <1>5, <2>3 DEF CaptionRows
  <2>7. PICK M \in Nat : M = CAPTION_MAX_ATTEMPTS
    BY CaptionLimits
  <2>8. a <= 2 * c /\ k + o + a <= M + 2 * c
    BY <1>2, <2>1, <2>3, <2>4, <2>7 DEF InBudget
  <2>9. Retries(d[r], us, plan, r) <=> Retries(caption[r], tries, plan, r)
    BY <2>5 DEF Retries
  <2>10. Owes(d[r], us, plan, r) = o
    BY <2>4, <2>9 DEF Owes
  <2>11. b <= 2 * (c + 1) /\ l + o + b <= M + 2 * (c + 1)
    BY <1>3, <2>2, <2>6, <2>8
  <2> QED BY <2>2, <2>6, <2>7, <2>10, <2>11 DEF InBudget
<1> QED BY <1>3, <1>4, <1>6, <1>7, <1>8 DEF CaptionIInv

\* A sync starts, or has ended, Zoom has the transcript, or the user asks.
LEMMA RequestsKeep ==
  ASSUME CaptionIInv, NEW r \in Synced,
         StartSync(r) \/ SyncCompleted(r) \/ OnTranscriptReady(r) \/ UploadForUser(r)
  PROVE  CaptionIInv'
<1>1. tries \subseteq Try /\ OneEach(tries) /\ caption \in [Synced -> CaptionRows]
  BY DEF CaptionIInv, CaptionsTyped
<1>2. PICK e : e = caption[r]
  OBVIOUS
<1>3. e \in CaptionRows /\ e.attempts \in Nat
  BY <1>1, <1>2 DEF CaptionRows
<1>4. UNCHANGED <<plan, sweepOn, uploads>> /\ CaptionRequest
  BY DEF StartSync, SyncCompleted, OnTranscriptReady, UploadForUser
<1>5. ASSUME NEW b \in BOOLEAN, NEW d \in {Never, 0}, NEW n, n = [e EXCEPT !.onVideo = b, !.done = d]
      PROVE  n \in CaptionRows /\ n.status = e.status /\ n.attempts <= e.attempts
  <2>1. d \in {Never} \cup 0..Old
    BY CaptionLimits
  <2>2. n \in CaptionRows /\ n.status = e.status /\ n.attempts = e.attempts
    BY <1>3, <1>5, <2>1 DEF CaptionRows
  <2> QED BY <1>3, <2>2
<1>6. ASSUME NEW by \in {"sync", "webhook", "user"}, NEW m \in BOOLEAN, NotTrying(by), Starts(by, r, m),
             NEW n \in CaptionRows, n.status = e.status, n.attempts <= e.attempts,
             caption' = [caption EXCEPT ![r] = n]
      PROVE  CaptionIInv'
  <2>1. PICK x : x = [by |-> by, r |-> r, step |-> "begin", manual |-> m]
    OBVIOUS
  <2>2. x \in Try /\ x.by = by /\ x.by # "sweep"
    BY <2>1 DEF Try, Callers
  <2>3. PICK us : us = tries \cup {x}
    OBVIOUS
  <2>4. tries' = us
    BY <1>6, <2>1, <2>3 DEF Starts
  <2>5. \A t \in tries : t.by # x.by
    BY <1>6, <2>2 DEF NotTrying
  <2>6. /\ us \subseteq Try /\ OneEach(us)
        /\ \A y : Asked(us, y) <= Asked(tries, y) + 2
        /\ \A y : (\E z \in us : z.by = "sweep" /\ z.r = y) <=> (\E z \in tries : z.by = "sweep" /\ z.r = y)
    BY <1>1, <2>2, <2>3, <2>5, TryStarts
  <2> QED BY <1>2, <1>4, <1>6, <2>4, <2>6, CaptionRequestKeeps
<1>7. CASE StartSync(r)
  <2>1. PICK n : n = [e EXCEPT !.onVideo = FALSE, !.done = Never]
    OBVIOUS
  <2>2. caption' = [caption EXCEPT ![r] = n]
    BY <1>1, <1>2, <1>7, <2>1 DEF StartSync
  <2>3. n \in CaptionRows /\ n.status = e.status /\ n.attempts <= e.attempts
    BY <1>5, <2>1
  <2>4. tries' = tries
    BY <1>7 DEF StartSync
  <2>5. \A y : Asked(tries, y) <= Asked(tries, y) + 2
    <3> TAKE y
    <3>1. Asked(tries, y) \in Nat
      BY WeightsAre
    <3> QED BY <3>1
  <2> QED BY <1>1, <1>2, <1>4, <2>2, <2>3, <2>4, <2>5, CaptionRequestKeeps
<1>8. CASE SyncCompleted(r)
  <2>1. PICK n : n = [e EXCEPT !.onVideo = TRUE, !.done = 0]
    OBVIOUS
  <2>2. caption' = [caption EXCEPT ![r] = n] /\ NotTrying("sync") /\ Starts("sync", r, FALSE)
    BY <1>1, <1>2, <1>8, <2>1 DEF SyncCompleted
  <2>3. n \in CaptionRows /\ n.status = e.status /\ n.attempts <= e.attempts
    BY <1>5, <2>1
  <2> QED BY <1>6, <2>2, <2>3
<1>9. CASE OnTranscriptReady(r)
  <2>1. NotTrying("webhook") /\ UNCHANGED caption
    BY <1>9 DEF OnTranscriptReady
  <2>2. PICK m \in BOOLEAN : m = (caption[r].status # "none")
    OBVIOUS
  <2>3. Starts("webhook", r, m)
    BY <1>9, <2>2, Zenon DEF OnTranscriptReady
  <2>4. caption' = [caption EXCEPT ![r] = e] /\ e.attempts <= e.attempts
    BY <1>1, <1>2, <1>3, <2>1
  <2> QED BY <1>3, <1>6, <2>1, <2>3, <2>4
<1>10. CASE UploadForUser(r)
  <2>1. PICK n : n = [e EXCEPT !.attempts = 0]
    OBVIOUS
  <2>2. caption' = [caption EXCEPT ![r] = n] /\ NotTrying("user") /\ Starts("user", r, TRUE)
    BY <1>1, <1>2, <1>10, <2>1 DEF UploadForUser
  <2>3. n \in CaptionRows /\ n.status = e.status /\ n.attempts = 0
    BY <1>3, <2>1 DEF CaptionRows
  <2>4. n.attempts <= e.attempts
    BY <1>3, <2>3
  <2> QED BY <1>6, <2>2, <2>3, <2>4
<1> QED BY <1>7, <1>8, <1>9, <1>10

\* A restart forgets the uploads and the sweep.
LEMMA CaptionsRestartKeeps == ASSUME CaptionIInv, CaptionsRestart PROVE CaptionIInv'
<1>1. PICK c : c = captionRequests
  OBVIOUS
<1>2. /\ CaptionsTyped(caption, tries, plan, sweepOn, uploads, c)
      /\ \A r \in Synced : InBudget(caption[r], tries, plan, r, c)
  BY <1>1 DEF CaptionIInv
<1>3. c \in Nat /\ c + 1 \in 0..MaxCaptionRequests /\ captionRequests' = c + 1
  <2>1. captionRequests < MaxCaptionRequests /\ captionRequests' = captionRequests + 1
    BY DEF CaptionsRestart, CaptionRequest
  <2> QED BY <1>1, <1>2, <2>1, CaptionLimits DEF CaptionsTyped
<1>4. tries' = {} /\ plan' = <<>> /\ uploads' = 0 /\ caption' = caption /\ sweepOn' \in {"done", "idle"}
  BY DEF CaptionsRestart
<1>5. CaptionsTyped(caption, {}, <<>>, sweepOn', 0, c + 1)
  BY <1>2, <1>3, <1>4, CaptionLimits, EmptySeq DEF CaptionsTyped
<1>6. OneEach({}) /\ SweepsOnce({}, <<>>, sweepOn')
  BY DEF OneEach, SweepsOnce
<1>7. ASSUME NEW r \in Synced PROVE InBudget(caption[r], {}, <<>>, r, c + 1)
  <2>1. PICK k \in Nat : k = caption[r].attempts
    BY <1>2 DEF CaptionsTyped, CaptionRows
  <2>2. PICK a \in Nat : a = Asked(tries, r)
    BY WeightsAre
  <2>3. PICK o \in 0..1 : o = Owes(caption[r], tries, plan, r)
    BY DEF Owes
  <2>4. PICK p \in 0..1 : p = Owes(caption[r], {}, <<>>, r)
    BY DEF Owes
  <2>5. PICK M \in Nat : M = CAPTION_MAX_ATTEMPTS
    BY CaptionLimits
  <2>6. k + o + a <= M + 2 * c
    BY <1>2, <2>1, <2>2, <2>3, <2>5 DEF InBudget
  <2>7. Asked({}, r) = 0
    BY DEF Asked, Weight
  <2>8. 0 <= 2 * (c + 1) /\ k + p + 0 <= M + 2 * (c + 1)
    BY <1>3, <2>6
  <2> QED BY <2>1, <2>4, <2>5, <2>7, <2>8 DEF InBudget
<1> QED BY <1>3, <1>4, <1>5, <1>6, <1>7 DEF CaptionIInv

-----------------------------------------------------------------------------
\* The sweep retries what waits, and what has attempts left.
LEMMA DecisionIs ==
  ASSUME NEW e
  PROVE  /\ Decision(e) \in {"retry", "give_up", "wait"}
         /\ Decision(e) = "retry" => e.status \in Waiting \/ e.attempts < CAPTION_MAX_ATTEMPTS
<1>1. PICK old : old = (Age(e) > CAPTION_WAIT)
  OBVIOUS
<1>2. CASE e.status \in Waiting
  BY <1>2 DEF Decision, Waiting
<1>3. CASE e.status \notin Waiting
  BY <1>3 DEF Decision, Waiting
<1> QED BY <1>2, <1>3

\* Nothing of a sweep is left when the next begins.
LEMMA NoSweep ==
  ASSUME CaptionIInv, sweepOn # "running"
  PROVE  plan = <<>> /\ \A t \in tries : t.by # "sweep"
BY DEF CaptionIInv, SweepsOnce

\* A sweep reads the rows.
LEMMA SweepStartsKeeps == ASSUME CaptionIInv, SweepStarts PROVE CaptionIInv'
<1>1. PICK c : c = captionRequests
  OBVIOUS
<1>2. /\ CaptionsTyped(caption, tries, plan, sweepOn, uploads, c) /\ OneEach(tries)
      /\ \A r \in Synced : InBudget(caption[r], tries, plan, r, c)
  BY <1>1 DEF CaptionIInv
<1>3. sweepOn = "idle" /\ sweepOn' = "running" /\ uploads' = 0 /\ UNCHANGED <<caption, tries, captionRequests>>
  BY DEF SweepStarts
<1>4. plan = <<>> /\ \A t \in tries : t.by # "sweep"
  BY <1>3, NoSweep
<1>5. PICK rs \in SetToSeqs(Candidates) :
        plan' = [i \in 1..(IF Len(rs) < SWEEP_TAKE THEN Len(rs) ELSE SWEEP_TAKE) |->
                   [r |-> rs[i], decision |-> Decision(caption[rs[i]])]]
  BY DEF SweepStarts
<1>6. IsFiniteSet(Candidates) /\ Candidates \subseteq Synced
  <2>1. Candidates \subseteq Synced
    BY DEF Candidates
  <2> QED BY <2>1, CaptionsAssumption, FS_Subset
<1>7. PICK N \in Nat : N = Cardinality(Candidates)
  BY <1>6, FS_CardinalityType
<1>8. rs \in [1..N -> Candidates] /\ \A i, j \in 1..N : i # j => rs[i] # rs[j]
  BY <1>5, <1>7 DEF SetToSeqs
<1>9. Len(rs) = N
  BY <1>8
<1>10. PICK K \in Nat : K = IF Len(rs) < SWEEP_TAKE THEN Len(rs) ELSE SWEEP_TAKE
  BY <1>9, CaptionLimits
<1>11. K <= N
  <2>1. PICK S \in Nat : S = SWEEP_TAKE
    BY CaptionLimits
  <2> QED BY <1>9, <1>10, <2>1
<1>12. PICK pl : pl = plan'
  OBVIOUS
<1>13. pl = [i \in 1..K |-> [r |-> rs[i], decision |-> Decision(caption[rs[i]])]]
  BY <1>5, <1>10, <1>12
<1>14. \A i \in 1..K : i \in 1..N /\ rs[i] \in Synced
  BY <1>6, <1>8, <1>11
<1>15. DOMAIN pl = 1..K /\ \A i \in 1..K : pl[i].r = rs[i] /\ pl[i].decision = Decision(caption[rs[i]])
  BY <1>13
<1>16. pl \in Seq(Planned)
  <2>1. \A i \in 1..K : [r |-> rs[i], decision |-> Decision(caption[rs[i]])] \in Planned
    BY <1>14, DecisionIs DEF Planned
  <2>2. pl \in [1..K -> Planned]
    BY <1>13, <2>1
  <2> QED BY <2>2, SeqDef
<1>17. CaptionsTyped(caption, tries, pl, "running", 0, c)
  BY <1>2, <1>16, CaptionLimits DEF CaptionsTyped
<1>18. SweepsOnce(tries, pl, "running")
  BY <1>4, <1>8, <1>14, <1>15 DEF SweepsOnce
<1>19. ASSUME NEW r \in Synced PROVE InBudget(caption[r], tries, pl, r, c)
  <2>1. PICK e : e = caption[r]
    OBVIOUS
  <2>2. PICK k \in Nat : k = e.attempts
    BY <1>2, <2>1 DEF CaptionsTyped, CaptionRows
  <2>3. PICK a \in Nat : a = Asked(tries, r)
    BY WeightsAre
  <2>4. PICK o \in 0..1 : o = Owes(e, tries, plan, r)
    BY DEF Owes
  <2>5. PICK p \in 0..1 : p = Owes(e, tries, pl, r)
    BY DEF Owes
  <2>6. PICK M \in Nat : M = CAPTION_MAX_ATTEMPTS
    BY CaptionLimits
  <2>7. a <= 2 * c /\ k + o + a <= M + 2 * c
    BY <1>2, <2>1, <2>2, <2>3, <2>4, <2>6 DEF InBudget
  <2>8. p <= o \/ k < M
    <3>1. CASE e.status \in Waiting
      <4>1. o = 1
        BY <2>4, <3>1 DEF Owes, Retries
      <4> QED BY <4>1
    <3>2. CASE e.status \notin Waiting /\ Retries(e, tries, pl, r)
      <4>1. PICK i \in DOMAIN pl : pl[i].r = r /\ pl[i].decision = "retry"
        BY <1>4, <3>2 DEF Retries
      <4>2. Decision(e) = "retry"
        BY <1>15, <2>1, <4>1
      <4> QED BY <2>2, <2>6, <3>2, <4>2, DecisionIs
    <3>3. CASE ~Retries(e, tries, pl, r)
      <4>1. p = 0
        BY <2>5, <3>3 DEF Owes
      <4> QED BY <4>1
    <3> QED BY <3>1, <3>2, <3>3
  <2>9. c \in Nat
    BY <1>2, CaptionLimits DEF CaptionsTyped
  <2>10. a <= 2 * c /\ k + p + a <= M + 2 * c
    BY <2>7, <2>8, <2>9
  <2> QED BY <2>1, <2>2, <2>3, <2>5, <2>6, <2>10 DEF InBudget
<1> QED BY <1>1, <1>2, <1>3, <1>12, <1>17, <1>18, <1>19 DEF CaptionIInv

\* The rows of a sweep without the first.
LEMMA PlanTail ==
  ASSUME NEW pl \in Seq(Planned), pl # <<>>, \A i, j \in DOMAIN pl : i # j => pl[i].r # pl[j].r,
         NEW h, h = Head(pl), NEW rest, rest = Tail(pl)
  PROVE  /\ h \in Planned /\ rest \in Seq(Planned)
         /\ \E i \in DOMAIN pl : pl[i] = h
         /\ \A i \in DOMAIN rest : \E j \in DOMAIN pl : pl[j] = rest[i]
         /\ \A i, j \in DOMAIN rest : i # j => rest[i].r # rest[j].r
         /\ \A i \in DOMAIN rest : rest[i].r # h.r
<1>1. Len(pl) \in Nat /\ DOMAIN pl = 1..Len(pl) /\ Len(pl) # 0
  BY LenProperties, EmptySeq
<1>2. PICK L \in Nat : L = Len(pl) /\ L # 0
  BY <1>1, Zenon
<1>3. h \in Planned /\ rest \in Seq(Planned) /\ Len(rest) = L - 1 /\ \A i \in 1..(L - 1) : rest[i] = pl[i + 1]
  BY <1>2, HeadTailProperties
<1>4. DOMAIN rest = 1..(L - 1) /\ DOMAIN pl = 1..L /\ h = pl[1] /\ 1 \in 1..L
  <2>1. L > 0
    BY <1>2
  <2> QED BY <1>1, <1>2, <1>3, <2>1, LenProperties
<1>5. \A i \in 1..(L - 1) : i + 1 \in 1..L /\ i + 1 # 1 /\ \A j \in 1..(L - 1) : i # j => i + 1 # j + 1
  BY <1>2
<1>6. \A i, j \in 1..(L - 1) : i # j => rest[i].r # rest[j].r
  BY <1>3, <1>4, <1>5
<1>7. \A i \in 1..(L - 1) : rest[i].r # h.r
  BY <1>3, <1>4, <1>5
<1> QED BY <1>3, <1>4, <1>5, <1>6, <1>7

\* The first row that the sweep has still to look at, and those after it.
LEMMA NextPlanned ==
  ASSUME CaptionIInv, plan # <<>>
  PROVE  \E h, rest : /\ h = Head(plan) /\ rest = Tail(plan)
                      /\ h \in Planned /\ rest \in Seq(Planned)
                      /\ \E i \in DOMAIN plan : plan[i] = h
                      /\ \A i \in DOMAIN rest : \E j \in DOMAIN plan : plan[j] = rest[i]
                      /\ \A i, j \in DOMAIN rest : i # j => rest[i].r # rest[j].r
                      /\ \A i \in DOMAIN rest : rest[i].r # h.r
<1>1. plan \in Seq(Planned) /\ \A i, j \in DOMAIN plan : i # j => plan[i].r # plan[j].r
  BY DEF CaptionIInv, CaptionsTyped, SweepsOnce
<1>2. PICK h : h = Head(plan)
  OBVIOUS
<1>3. PICK rest : rest = Tail(plan)
  OBVIOUS
<1>4. /\ h \in Planned /\ rest \in Seq(Planned)
      /\ \E i \in DOMAIN plan : plan[i] = h
      /\ \A i \in DOMAIN rest : \E j \in DOMAIN plan : plan[j] = rest[i]
      /\ \A i, j \in DOMAIN rest : i # j => rest[i].r # rest[j].r
      /\ \A i \in DOMAIN rest : rest[i].r # h.r
  BY <1>1, <1>2, <1>3, PlanTail
<1> QED BY <1>2, <1>3, <1>4

\* The sweep begins an upload.
LEMMA SweepTries ==
  ASSUME CaptionIInv, NotTrying("sweep"), NEW r \in Synced,
         NEW x, x = [by |-> "sweep", r |-> r, step |-> "begin", manual |-> TRUE], NEW us, us = tries \cup {x}
  PROVE  us \subseteq Try /\ OneEach(us) /\ \A y : Asked(us, y) = Asked(tries, y)
<1>1. tries \subseteq Try /\ OneEach(tries)
  BY DEF CaptionIInv, CaptionsTyped
<1>2. x \in Try /\ x.by = "sweep"
  BY DEF Try, Callers
<1>3. \A t \in tries : t.by # x.by
  BY <1>2 DEF NotTrying
<1>4. ASSUME NEW ts, ts \subseteq Try, OneEach(ts), NEW n \in Try, n.by = "sweep", \A t \in ts : t.by # n.by
      PROVE  ts \cup {n} \subseteq Try /\ OneEach(ts \cup {n}) /\ \A y : Asked(ts \cup {n}, y) = Asked(ts, y)
  BY <1>4, TryStarts
<1> QED BY <1>1, <1>2, <1>3, <1>4

\* A step of the sweep: what the row h keeps, once it has been looked at.
LEMMA PlanGoesOn ==
  ASSUME CaptionIInv, sweepOn = "running", NotTrying("sweep"), plan # <<>>,
         NEW h, h = Head(plan), plan' = Tail(plan), UNCHANGED <<sweepOn, captionRequests>>,
         uploads' \in 0..SWEEP_UPLOAD_LIMIT,
         NEW n \in CaptionRows, n.attempts = caption[h.r].attempts,
         caption' = [caption EXCEPT ![h.r] = n], NEW us, tries' = us,
         \/ us = tries /\ (n.status = "no_transcript" \/ n = caption[h.r])
         \/ /\ n = caption[h.r] /\ h.decision = "retry"
            /\ us = tries \cup {[by |-> "sweep", r |-> h.r, step |-> "begin", manual |-> TRUE]}
  PROVE  CaptionIInv'
<1>1. PICK c : c = captionRequests
  OBVIOUS
<1>2. /\ CaptionsTyped(caption, tries, plan, sweepOn, uploads, c) /\ OneEach(tries)
      /\ SweepsOnce(tries, plan, sweepOn)
      /\ \A r \in Synced : InBudget(caption[r], tries, plan, r, c)
  BY <1>1 DEF CaptionIInv
<1>3. PICK rest : rest = plan'
  OBVIOUS
<1>4. /\ h \in Planned /\ rest \in Seq(Planned)
      /\ \E i \in DOMAIN plan : plan[i] = h
      /\ \A i \in DOMAIN rest : \E j \in DOMAIN plan : plan[j] = rest[i]
      /\ \A i, j \in DOMAIN rest : i # j => rest[i].r # rest[j].r
      /\ \A i \in DOMAIN rest : rest[i].r # h.r
  <2>1. PICK g, tail : /\ g = Head(plan) /\ tail = Tail(plan)
                       /\ g \in Planned /\ tail \in Seq(Planned)
                       /\ \E i \in DOMAIN plan : plan[i] = g
                       /\ \A i \in DOMAIN tail : \E j \in DOMAIN plan : plan[j] = tail[i]
                       /\ \A i, j \in DOMAIN tail : i # j => tail[i].r # tail[j].r
                       /\ \A i \in DOMAIN tail : tail[i].r # g.r
    BY NextPlanned, Zenon
  <2>2. g = h /\ tail = rest
    BY <1>3, <2>1
  <2> QED BY <2>1, <2>2, Zenon
<1>5. h.r \in Synced
  BY <1>4 DEF Planned
<1>6. PICK d : d = caption'
  OBVIOUS
<1>7. d \in [Synced -> CaptionRows] /\ d[h.r] = n /\ \A r \in Synced : r # h.r => d[r] = caption[r]
  BY <1>2, <1>5, <1>6 DEF CaptionsTyped
<1>8. \A t \in tries : t.by # "sweep"
  BY DEF NotTrying
<1>9. PICK x : x = [by |-> "sweep", r |-> h.r, step |-> "begin", manual |-> TRUE]
  OBVIOUS
<1>10. x.by = "sweep" /\ x.r = h.r
  BY <1>9
<1>11. us = tries \/ us = tries \cup {x}
  BY <1>9
<1>12. us \subseteq Try /\ OneEach(us) /\ \A r : Asked(us, r) = Asked(tries, r)
  <2>1. CASE us = tries
    BY <1>2, <2>1 DEF CaptionsTyped
  <2>2. CASE us = tries \cup {x}
    BY <1>5, <1>9, <2>2, SweepTries, Zenon
  <2> QED BY <1>11, <2>1, <2>2
<1>13. CaptionsTyped(d, us, rest, sweepOn, uploads', c)
  BY <1>2, <1>4, <1>7, <1>12 DEF CaptionsTyped
<1>14. \A t \in us : t.by = "sweep" => t.r = h.r
  BY <1>8, <1>10, <1>11
<1>15. SweepsOnce(us, rest, sweepOn)
  BY <1>4, <1>14 DEF SweepsOnce
<1>16. ASSUME NEW r \in Synced PROVE InBudget(d[r], us, rest, r, c)
  <2>1. PICK k \in Nat : k = caption[r].attempts
    BY <1>2 DEF CaptionsTyped, CaptionRows
  <2>2. d[r].attempts = k
    BY <1>7, <2>1
  <2>3. PICK a \in Nat : a = Asked(tries, r)
    BY WeightsAre
  <2>4. PICK o \in 0..1 : o = Owes(caption[r], tries, plan, r)
    BY DEF Owes
  <2>5. PICK p \in 0..1 : p = Owes(d[r], us, rest, r)
    BY DEF Owes
  <2>6. Retries(d[r], us, rest, r) => Retries(caption[r], tries, plan, r)
    <3>1. CASE r = h.r
      <4>1. \A i \in DOMAIN rest : rest[i].r # r
        BY <1>4, <3>1
      <4>2. CASE us = tries
        <5>1. n.status = "no_transcript" \/ n = caption[r]
          BY <1>9, <1>8, <1>10, <3>1, <4>2
        <5>2. Retries(n, us, rest, r) => n.status \in Waiting
          BY <1>8, <4>1, <4>2 DEF Retries
        <5> QED BY <1>7, <3>1, <5>1, <5>2 DEF Retries, Waiting
      <4>3. CASE us # tries
        <5>1. h.decision = "retry"
          BY <4>3
        <5> QED BY <1>4, <3>1, <5>1 DEF Retries
      <4> QED BY <4>2, <4>3
    <3>2. CASE r # h.r
      <4>1. d[r] = caption[r]
        BY <1>7, <3>2
      <4>2. \A t \in us : ~(t.by = "sweep" /\ t.r = r)
        BY <1>14, <3>2
      <4>3. (\E i \in DOMAIN rest : rest[i].r = r /\ rest[i].decision = "retry")
            => \E i \in DOMAIN plan : plan[i].r = r /\ plan[i].decision = "retry"
        BY <1>4
      <4> QED BY <4>1, <4>2, <4>3 DEF Retries
    <3> QED BY <3>1, <3>2
  <2>7. p <= o
    BY <2>4, <2>5, <2>6 DEF Owes
  <2>8. PICK M \in Nat : M = CAPTION_MAX_ATTEMPTS
    BY CaptionLimits
  <2>9. c \in Nat
    BY <1>2, CaptionLimits DEF CaptionsTyped
  <2>10. a <= 2 * c /\ k + o + a <= M + 2 * c
    BY <1>2, <2>1, <2>3, <2>4, <2>8 DEF InBudget
  <2>11. a <= 2 * c /\ k + p + a <= M + 2 * c
    BY <2>7, <2>9, <2>10
  <2>12. Asked(us, r) = a
    BY <1>12, <2>3
  <2> QED BY <2>2, <2>5, <2>8, <2>11, <2>12 DEF InBudget
<1> QED BY <1>1, <1>3, <1>6, <1>12, <1>13, <1>15, <1>16 DEF CaptionIInv

\* The sweep gives a row up, tries it, or leaves it.
LEMMA SweepStepKeeps == ASSUME CaptionIInv, SweepStep PROVE CaptionIInv'
<1>1. /\ sweepOn = "running" /\ NotTrying("sweep") /\ plan # <<>>
      /\ plan' = Tail(plan) /\ UNCHANGED <<sweepOn, captionRequests>>
  BY DEF SweepStep
<1>2. PICK h : h = Head(plan)
  OBVIOUS
<1>3. h \in Planned /\ h.r \in Synced
  <2>1. plan \in Seq(Planned)
    BY DEF CaptionIInv, CaptionsTyped
  <2>2. h \in Planned
    BY <1>1, <1>2, <2>1, HeadTailProperties
  <2> QED BY <2>2 DEF Planned
<1>4. caption \in [Synced -> CaptionRows] /\ uploads \in 0..SWEEP_UPLOAD_LIMIT
  BY DEF CaptionIInv, CaptionsTyped
<1>5. PICK e : e = caption[h.r]
  OBVIOUS
<1>6. e \in CaptionRows
  BY <1>3, <1>4, <1>5
<1>7. \/ SetStatus(h.r, "no_transcript") /\ UNCHANGED <<tries, uploads>>
      \/ /\ h.decision = "retry" /\ uploads < SWEEP_UPLOAD_LIMIT
         /\ uploads' = uploads + 1 /\ Starts("sweep", h.r, TRUE) /\ UNCHANGED caption
      \/ UNCHANGED <<caption, tries, uploads>>
  BY <1>2 DEF SweepStep
<1>8. CASE SetStatus(h.r, "no_transcript") /\ UNCHANGED <<tries, uploads>>
  <2>1. PICK n : n = [e EXCEPT !.status = "no_transcript", !.idle = 0]
    OBVIOUS
  <2>2. n \in CaptionRows /\ n.attempts = e.attempts /\ n.status = "no_transcript"
    BY <1>6, <2>1, RowWrites
  <2>3. caption' = [caption EXCEPT ![h.r] = n]
    BY <1>3, <1>4, <1>5, <1>8, <2>1 DEF SetStatus
  <2> QED BY <1>1, <1>2, <1>4, <1>5, <1>8, <2>2, <2>3, PlanGoesOn
<1>9. caption' = caption => caption' = [caption EXCEPT ![h.r] = e]
  BY <1>3, <1>4, <1>5
<1>10. CASE /\ h.decision = "retry" /\ uploads < SWEEP_UPLOAD_LIMIT
            /\ uploads' = uploads + 1 /\ Starts("sweep", h.r, TRUE) /\ UNCHANGED caption
  <2>1. uploads' \in 0..SWEEP_UPLOAD_LIMIT
    BY <1>4, <1>10, CaptionLimits
  <2>2. PICK us : us = tries'
    OBVIOUS
  <2>3. us = tries \cup {[by |-> "sweep", r |-> h.r, step |-> "begin", manual |-> TRUE]}
    BY <1>10, <2>2 DEF Starts
  <2> QED BY <1>1, <1>2, <1>5, <1>6, <1>9, <1>10, <2>1, <2>2, <2>3, PlanGoesOn
<1>11. CASE UNCHANGED <<caption, tries, uploads>>
  BY <1>1, <1>2, <1>4, <1>5, <1>6, <1>9, <1>11, PlanGoesOn
<1> QED BY <1>7, <1>8, <1>10, <1>11

\* The sweep ends.
LEMMA SweepEndsKeeps == ASSUME CaptionIInv, SweepEnds PROVE CaptionIInv'
<1>1. sweepOn' = "done" /\ UNCHANGED <<caption, tries, plan, uploads, captionRequests>>
      /\ plan = <<>> /\ \A t \in tries : t.by # "sweep"
  BY DEF SweepEnds, NotTrying
<1>2. CaptionsTyped(caption, tries, plan, "done", uploads, captionRequests)
  BY DEF CaptionIInv, CaptionsTyped
<1>3. SweepsOnce(tries, plan, "done")
  BY <1>1 DEF CaptionIInv, SweepsOnce
<1> QED BY <1>1, <1>2, <1>3 DEF CaptionIInv

\* Time passes: only ages change.
LEMMA CaptionsTickKeeps == ASSUME CaptionIInv, CaptionsTick PROVE CaptionIInv'
<1>1. /\ sweepOn = "done" /\ sweepOn' = "idle" /\ UNCHANGED <<tries, plan, uploads, captionRequests>>
      /\ caption' = [r \in Synced |-> [caption[r] EXCEPT !.idle = Older(@), !.done = Older(@)]]
  BY DEF CaptionsTick
<1>2. PICK c : c = captionRequests
  OBVIOUS
<1>3. /\ CaptionsTyped(caption, tries, plan, sweepOn, uploads, c) /\ OneEach(tries)
      /\ \A r \in Synced : InBudget(caption[r], tries, plan, r, c)
  BY <1>2 DEF CaptionIInv
<1>4. \A n \in 0..Old : Older(n) \in 0..Old
  <2>1. PICK o \in Nat : o = Old
    BY CaptionLimits
  <2>2. \A n \in 0..o : (IF n \in 0..(o - 1) THEN n + 1 ELSE n) \in 0..o
    BY <2>1
  <2> QED BY <2>1, <2>2 DEF Older
<1>5. Older(Never) = Never
  <2>1. PICK o \in Nat : o = Old
    BY CaptionLimits
  <2>2. -1 \notin 0..(o - 1)
    BY <2>1
  <2> QED BY <2>1, <2>2 DEF Older, Never
<1>6. PICK d : d = caption'
  OBVIOUS
<1>7. ASSUME NEW r \in Synced
      PROVE  d[r] \in CaptionRows /\ d[r].status = caption[r].status /\ d[r].attempts = caption[r].attempts
  <2>1. PICK e : e = caption[r]
    OBVIOUS
  <2>2. e \in CaptionRows
    BY <1>3, <2>1 DEF CaptionsTyped
  <2>3. PICK i : i = Older(e.idle)
    OBVIOUS
  <2>4. PICK j : j = Older(e.done)
    OBVIOUS
  <2>5. i \in 0..Old /\ j \in {Never} \cup 0..Old
    BY <1>4, <1>5, <2>2, <2>3, <2>4 DEF CaptionRows
  <2>6. d[r] = [e EXCEPT !.idle = i, !.done = j]
    BY <1>1, <1>6, <2>1, <2>2, <2>3, <2>4 DEF CaptionRows
  <2> QED BY <2>1, <2>2, <2>5, <2>6 DEF CaptionRows
<1>8. d \in [Synced -> CaptionRows]
  BY <1>1, <1>6, <1>7
<1>9. CaptionsTyped(d, tries, plan, "idle", uploads, c)
  BY <1>3, <1>8 DEF CaptionsTyped
<1>10. SweepsOnce(tries, plan, "idle")
  <2>1. plan = <<>> /\ \A t \in tries : t.by # "sweep"
    BY <1>1, NoSweep
  <2> QED BY <2>1 DEF SweepsOnce
<1>11. ASSUME NEW r \in Synced PROVE InBudget(d[r], tries, plan, r, c)
  <2>1. Retries(d[r], tries, plan, r) <=> Retries(caption[r], tries, plan, r)
    BY <1>7 DEF Retries
  <2>2. Owes(d[r], tries, plan, r) = Owes(caption[r], tries, plan, r)
    BY <2>1 DEF Owes
  <2> QED BY <1>3, <1>7, <2>2 DEF InBudget
<1> QED BY <1>1, <1>2, <1>3, <1>6, <1>9, <1>10, <1>11 DEF CaptionIInv

\* Videos that were synced with captions off.
LEMMA CaptionInit == CaptionsInit => CaptionIInv
<1> SUFFICES ASSUME CaptionsInit PROVE CaptionIInv
  OBVIOUS
<1>1. tries = {} /\ plan = <<>> /\ sweepOn = "done" /\ uploads = 0 /\ captionRequests = 0
  BY DEF CaptionsInit
<1>2. ASSUME NEW r \in Synced
      PROVE  caption[r] \in CaptionRows /\ caption[r].status = "none" /\ caption[r].attempts = 0
  <2>1. PICK e : e = caption[r]
    OBVIOUS
  <2>2. e = [status |-> "none", retryable |-> FALSE, attempts |-> 0, idle |-> Old, onVideo |-> TRUE, done |-> 0]
    BY <2>1 DEF CaptionsInit
  <2>3. Old \in 0..Old /\ 0 \in {Never} \cup 0..Old
    BY CaptionLimits
  <2> QED BY <2>1, <2>2, <2>3 DEF CaptionRows
<1>3. caption \in [Synced -> CaptionRows]
  <2>1. caption = [r \in Synced |-> caption[r]]
    BY DEF CaptionsInit
  <2> QED BY <1>2, <2>1
<1>4. CaptionsTyped(caption, {}, <<>>, "done", 0, 0)
  BY <1>3, CaptionLimits, EmptySeq DEF CaptionsTyped
<1>5. OneEach({}) /\ SweepsOnce({}, <<>>, "done")
  BY DEF OneEach, SweepsOnce
<1>6. ASSUME NEW r \in Synced PROVE InBudget(caption[r], {}, <<>>, r, 0)
  <2>1. Asked({}, r) = 0
    BY DEF Asked, Weight
  <2>2. Owes(caption[r], {}, <<>>, r) = 0
    BY <1>2 DEF Owes, Retries, Waiting
  <2>3. caption[r].attempts = 0
    BY <1>2
  <2> QED BY <2>1, <2>2, <2>3, CaptionLimits DEF InBudget
<1> QED BY <1>1, <1>4, <1>5, <1>6 DEF CaptionIInv

\* A step of the captions.
LEMMA CaptionStep == CaptionIInv /\ [CaptionsNext]_captionVars => CaptionIInv'
<1> SUFFICES ASSUME CaptionIInv, [CaptionsNext]_captionVars PROVE CaptionIInv'
  OBVIOUS
<1>1. CASE UNCHANGED captionVars
  BY <1>1 DEF captionVars, CaptionIInv, CaptionsTyped
<1>2. CASE CaptionsNext
  BY <1>2, TryUploadKeeps, RequestsKeep, CaptionsRestartKeeps, SweepStartsKeeps, SweepStepKeeps,
     SweepEndsKeeps, CaptionsTickKeeps DEF CaptionsNext
<1> QED BY <1>1, <1>2

\* What the invariant says of the attempts, and of the types.
LEMMA CaptionsHold == CaptionIInv => CaptionsTypeOK /\ AttemptsHold
<1> SUFFICES ASSUME CaptionIInv PROVE CaptionsTypeOK /\ AttemptsHold
  OBVIOUS
<1>1. PICK c : c = captionRequests
  OBVIOUS
<1>2. /\ CaptionsTyped(caption, tries, plan, sweepOn, uploads, c)
      /\ \A r \in Synced : InBudget(caption[r], tries, plan, r, c)
  BY <1>1 DEF CaptionIInv
<1>3. PICK M \in Nat : M = CAPTION_MAX_ATTEMPTS
  BY CaptionLimits
<1>4. PICK R \in Nat : R = MaxCaptionRequests
  BY CaptionLimits
<1>5. c \in Nat /\ c <= R
  BY <1>2, <1>4 DEF CaptionsTyped
<1>6. ASSUME NEW r \in Synced PROVE caption[r].attempts \in Nat /\ caption[r].attempts <= M + 2 * c
  <2>1. PICK k \in Nat : k = caption[r].attempts
    BY <1>2 DEF CaptionsTyped, CaptionRows
  <2>2. PICK a \in Nat : a = Asked(tries, r)
    BY WeightsAre
  <2>3. PICK o \in 0..1 : o = Owes(caption[r], tries, plan, r)
    BY DEF Owes
  <2>4. k + o + a <= M + 2 * c
    BY <1>2, <1>3, <2>1, <2>2, <2>3 DEF InBudget
  <2> QED BY <1>5, <2>1, <2>4
<1>7. AttemptsHold
  BY <1>1, <1>3, <1>6 DEF AttemptsHold
<1>8. \A r \in Synced : caption[r].attempts \in 0..(M + 2 * R)
  BY <1>4, <1>5, <1>6
<1>9. \A r \in Synced : caption[r] \in CaptionRow
  <2> TAKE r \in Synced
  <2>1. PICK e : e = caption[r]
    OBVIOUS
  <2>2. e \in CaptionRows
    BY <1>2, <2>1 DEF CaptionsTyped
  <2>3. e.attempts \in 0..(CAPTION_MAX_ATTEMPTS + 2 * MaxCaptionRequests)
    BY <1>3, <1>4, <1>8, <2>1
  <2>4. e \in CaptionRow
    BY <2>2, <2>3 DEF CaptionRows, CaptionRow
  <2> QED BY <2>1, <2>4
<1>10. caption \in [Synced -> CaptionRow]
  BY <1>2, <1>9 DEF CaptionsTyped
<1> QED BY <1>1, <1>2, <1>7, <1>10 DEF CaptionsTypeOK, CaptionsTyped, Planned

=============================================================================
