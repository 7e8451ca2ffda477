------------------------- MODULE BatchResolverProofs -------------------------
(***************************************************************************)
(* Proofs about BatchResolver, for every batch size, every number of       *)
(* permits and whatever Spotify may find.                                  *)
(***************************************************************************)
EXTENDS BatchResolver, Induction

USE BatchResolverAssumption

(* The tasks that hold a permit. *)
Busy == {i \in Item : stage[i] \in {"woken", "searching"}}

(* Tasks exist only for the items of a batch that gather was called for.   *)
(* Before they start all of them are alike, and nothing has been taken.    *)
TasksStartTogether ==
    /\ at \in {"idle", "too_large", "unavailable"} =>
          marked = {} /\ \A i \in Item : stage[i] = "none"
    /\ \A i \in Item : stage[i] # "none" => i <= size
    /\ (\E i \in Item : stage[i] = "created") =>
          /\ \A i \in Item : stage[i] = IF i <= size THEN "created" ELSE "none"
          /\ marked = {} \/ marked = 1..size

(* What an item comes to is settled when its task ends.                    *)
SettledByTask ==
    \A i \in Item :
        /\ stage[i] # "returned" => result[i] = NoResult
        /\ stage[i] = "returned" =>
              /\ result[i].status # "none"
              /\ result[i].status = "error" <=> outcome[i] \in {<<"service">>, <<"unexpected">>}
        /\ stage[i] = "raised" =>
              \/ outcome[i] \in RefusedWhole
              \/ \E k \in DOMAIN outcome[i] : outcome[i][k] \in Unreadable

(* gather says what its tasks came to, and the handler what gather said.   *)
AnswerFollowsTasks ==
    /\ outer = "results" => \A i \in 1..size : stage[i] = "returned"
    /\ outer = "raised" => \E i \in Item : stage[i] = "raised"
    /\ at = "answered" => outer = "results"
    /\ at = "failed" => outer = "raised"
    /\ at \in {"idle", "too_large", "unavailable"} => outer = "pending"

(* The inductive invariant. *)
IInv ==
    /\ TypeOK
    /\ TasksStartTogether
    /\ PermitsAreExact
    /\ SettledByTask
    /\ OnlyCleanTracks
    /\ AnswerFollowsTasks

-----------------------------------------------------------------------------
(* Min picks the least of a set of naturals. *)
LEMMA MinIsLeast ==
    ASSUME NEW S \in SUBSET Nat, S # {}
    PROVE  Min(S) \in S /\ \A n \in S : Min(S) <= n
<1> DEFINE Below == {n \in Nat : \A s \in S : n <= s}
<1>1. PICK m \in S : TRUE
  OBVIOUS
<1>0. m \in Nat /\ Below \subseteq 0..m
  BY <1>1
<1>2. 0 \in Below /\ \A k \in Below : 0..k \subseteq Below
  OBVIOUS
<1>3. PICK c \in Nat : Below = 0..c
  BY <1>0, <1>2, DownwardClosed
<1>4. c \in Below /\ c + 1 \notin Below
  <2>1. c \in 0..c /\ c + 1 \notin 0..c
    OBVIOUS
  <2> HIDE DEF Below
  <2> QED
    BY <2>1, <1>3
<1>5. c \in S /\ \A n \in S : c <= n
  BY <1>4
<1> QED
  BY <1>5 DEF Min
-----------------------------------------------------------------------------
(* The semaphore.                                                          *)

LEMMA CountTo ==
    ASSUME NEW n \in Nat
    PROVE  Cardinality(1..n) = n
<1>1. 1 \in Int /\ n \in Int
  OBVIOUS
<1>2. Cardinality(1..n) = IF 1 > n THEN 0 ELSE n - 1 + 1
  BY <1>1, FS_Interval
<1> QED
  BY <1>2

(* There are finitely many items. *)
LEMMA ItemIsFinite == IsFiniteSet(Item) /\ \A S \in SUBSET Item : IsFiniteSet(S)
<1>1. IsFiniteSet(Item)
  BY FS_Interval DEF Item
<1> QED
  BY <1>1, FS_Subset

(* PermitsAreExact, told of the lookups that hold a permit. *)
LEMMA PermitsAreBusy ==
    /\ PermitsAreExact <=> /\ free + Cardinality(Busy) = Permits
                           /\ free > 0 => InLine = {}
    /\ PermitsAreExact' <=> /\ free' + Cardinality(Busy') = Permits
                            /\ free' > 0 => InLine' = {}
  BY DEF PermitsAreExact, Busy

(* A task that leaves hands its permit to the first in line, or back.      *)
LEMMA LeaveKeeps ==
    ASSUME TypeOK, PermitsAreExact, marked' = marked,
           NEW i \in Item, stage[i] \in {"woken", "searching"},
           NEW how \in {"returned", "raised", "cancelled"}, Leave(i, how)
    PROVE  /\ stage' \in [Item -> {"none", "created", "queued", "woken", "searching",
                                  "returned", "raised", "cancelled"}]
           /\ stage'[i] = how
           /\ \A j \in Item \ {i} : \/ stage'[j] = stage[j]
                                    \/ stage[j] = "queued" /\ stage'[j] = "woken"
           /\ free' \in 0..Permits
           /\ PermitsAreExact'
<1> USE DEF TypeOK
<1>0. i \in Busy /\ Busy \in SUBSET Item /\ IsFiniteSet(Busy) /\ Cardinality(Busy) \in Nat
  BY ItemIsFinite, FS_CardinalityType DEF Busy
<1>1. CASE InLine = {}
  <2>1. stage' = [stage EXCEPT ![i] = how] /\ free' = free + 1
    BY <1>1 DEF Leave
  <2>2. Busy' = Busy \ {i} /\ InLine' = {}
    BY <1>1, <2>1 DEF Busy, InLine
  <2>3. Cardinality(Busy') = Cardinality(Busy) - 1
    BY <1>0, <2>2, FS_RemoveElement
  <2>4. free' + Cardinality(Busy') = Permits /\ free' \in 0..Permits
    <3>1. IsFiniteSet(Busy')
      BY <1>0, <2>2, FS_RemoveElement
    <3>2. Cardinality(Busy') \in Nat
      BY <3>1, FS_CardinalityType
    <3> QED
      BY <1>0, <2>1, <2>3, <3>2, PermitsAreBusy
  <2> QED
    BY <2>1, <2>2, <2>4 DEF PermitsAreExact, Busy
<1>2. CASE InLine # {}
  <2> DEFINE first == Min(InLine)
  <2>1. first \in InLine
    <3>1. InLine \in SUBSET Nat
      BY DEF InLine, Item
    <3> QED
      BY <1>2, <3>1, MinIsLeast
  <2>2. first \in Item /\ stage[first] = "queued" /\ first # i /\ first \notin Busy
    BY <2>1 DEF InLine, Busy
  <2>3. stage' = [stage EXCEPT ![i] = how, ![first] = "woken"] /\ free' = free
    BY <1>2 DEF Leave
  <2> HIDE DEF first
  <2>4. Busy' = (Busy \ {i}) \cup {first}
    BY <2>2, <2>3 DEF Busy
  <2>5. Cardinality(Busy') = Cardinality(Busy)
    <3>1. IsFiniteSet(Busy \ {i}) /\ Cardinality(Busy \ {i}) = Cardinality(Busy) - 1
      BY <1>0, FS_RemoveElement
    <3>2. Cardinality((Busy \ {i}) \cup {first}) = Cardinality(Busy \ {i}) + 1
      BY <2>2, <3>1, FS_AddElement
    <3> QED
      BY <1>0, <2>4, <3>1, <3>2
  <2>6. free = 0
    BY <1>2, PermitsAreBusy
  <2> QED
    BY <2>2, <2>3, <2>5, <2>6 DEF PermitsAreExact, Busy
<1> QED
  BY <1>1, <1>2
-----------------------------------------------------------------------------
(* What a search finds.                                                    *)

(* A list of hits is a sequence of tracks, and never mistaken for a failure. *)
LEMMA HitsAreTracks ==
    ASSUME NEW hits \in Hits
    PROVE  /\ hits \in Seq(Track)
           /\ DOMAIN hits = 1..Len(hits) /\ Len(hits) \in Nat
           /\ \A k \in DOMAIN hits : hits[k] \in Track
           /\ hits # <<>> => 1 \in DOMAIN hits
           /\ hits \notin {<<f>> : f \in Failure}
<1>1. PICK n \in 0..MaxHits : hits \in [1..n -> Track]
  BY DEF Hits
<1>2. hits \in Seq(Track) /\ Len(hits) = n
  BY <1>1
<1>3. DOMAIN hits = 1..Len(hits) /\ \A k \in DOMAIN hits : hits[k] \in Track
  BY <1>1, <1>2
<1>4. hits # <<>> => 1 \in DOMAIN hits
  BY <1>1, <1>2, <1>3
<1>5. ASSUME NEW f \in Failure, hits = <<f>>
      PROVE  FALSE
  <2>1. hits[1] = f /\ 1 \in DOMAIN hits
    BY <1>3, <1>4, <1>5
  <2> QED
    BY <1>3, <2>1
<1> QED
  BY <1>2, <1>3, <1>4, <1>5

(* What FirstTrack answers is a track of the hits, or none. *)
LEMMA FirstTrackFinds ==
    ASSUME NEW hits \in Hits
    PROVE  LET r == FirstTrack(hits)
           IN  /\ r \in [status   : {"found", "not_found"},
                         track    : Track \cup {NoTrack},
                         withheld : BOOLEAN]
               /\ r.track \in Track => \E k \in DOMAIN hits : r.track = hits[k]
  BY HitsAreTracks DEF FirstTrack, Result

(* The best of the clean hits, or word of why there is none.               *)
LEMMA FirstCleanTrackFinds ==
    ASSUME NEW hits \in Hits
    PROVE  LET r == FirstCleanTrack(hits)
           IN  /\ r \in [status   : {"found", "not_found"},
                         track    : Track \cup {NoTrack},
                         withheld : BOOLEAN]
               /\ r.track \in Track => \E k \in DOMAIN hits : r.track = hits[k]
               /\ r.withheld <=> hits # <<>> /\ \A k \in DOMAIN hits : hits[k] \in Explicit
               /\ r.status = "found" => \E k \in DOMAIN hits :
                     /\ r.track = hits[k] /\ hits[k] \notin Explicit
                     /\ \A j \in 1..(k - 1) : hits[j] \in Explicit
               /\ r.status = "not_found" => r.withheld \/ hits = <<>>
<1> DEFINE clear == {k \in DOMAIN hits : hits[k] \notin Explicit}
<1>0. DOMAIN hits = 1..Len(hits) /\ Len(hits) \in Nat
  BY HitsAreTracks
<1>1. CASE clear = {}
  <2>1. FirstCleanTrack(hits) = Result("not_found", NoTrack, hits # <<>>)
    BY <1>1 DEF FirstCleanTrack
  <2>2. \A k \in DOMAIN hits : hits[k] \in Explicit
    BY <1>1
  <2>3. CASE hits = <<>>
    <3> DEFINE r == FirstCleanTrack(hits)
    <3>1. r = [status |-> "not_found", track |-> NoTrack, withheld |-> FALSE]
      BY <2>1, <2>3 DEF Result
    <3> HIDE DEF r
    <3>2. r \in [status : {"found", "not_found"}, track : Track \cup {NoTrack},
                withheld : BOOLEAN]
      BY <3>1
    <3>3. r.track \notin Track /\ ~ r.withheld /\ r.status # "found"
      BY <3>1
    <3> QED
      BY <2>3, <3>2, <3>3 DEF r
  <2>4. CASE hits # <<>>
    <3>1. FirstCleanTrack(hits) = Result("not_found", NoTrack, TRUE)
      BY <2>1, <2>4
    <3> QED
      BY <2>2, <2>4, <3>1 DEF Result
  <2> QED
    BY <2>3, <2>4
<1>2. CASE clear # {}
  <2>1. PICK k \in clear : k = Min(clear) /\ \A n \in clear : k <= n
    <3>1. clear \in SUBSET Nat
      BY HitsAreTracks
    <3> QED
      BY <1>2, <3>1, MinIsLeast
  <2>2. FirstCleanTrack(hits) = Result("found", hits[k], FALSE)
    BY <1>2, <2>1 DEF FirstCleanTrack
  <2>3. k \in DOMAIN hits /\ k \in 1..Len(hits) /\ hits[k] \in Track /\ hits[k] \notin Explicit
    BY <2>1, HitsAreTracks
  <2>4. \A j \in 1..(k - 1) : hits[j] \in Explicit
    <3> SUFFICES ASSUME NEW j \in 1..(k - 1), hits[j] \notin Explicit
                 PROVE  FALSE
      OBVIOUS
    <3>1. j \in DOMAIN hits /\ j < k
      BY <1>0, <2>3
    <3>2. j \in clear
      BY <3>1
    <3> HIDE DEF clear
    <3>3. k <= j
      BY <2>1, <3>2
    <3> QED
      BY <1>0, <2>3, <3>1, <3>3
  <2>5. hits # <<>>
    BY <2>3, HitsAreTracks
  <2> QED
    BY <2>2, <2>3, <2>4, <2>5 DEF Result
<1> QED
  BY <1>1, <1>2
-----------------------------------------------------------------------------
(* The steps.                                                              *)

LEMMA InitHolds == Init => IInv
<1> SUFFICES ASSUME Init PROVE IInv
  OBVIOUS
<1>1. TypeOK
  <2>1. <<>> \in Hits
    <3>1. <<>> \in [1..0 -> Track] /\ 0 \in 0..MaxHits
      OBVIOUS
    <3> QED
      BY <3>1 DEF Hits
  <2>2. outcome \in [Item -> Hits \cup {<<f>> : f \in Failure}]
    BY <2>1 DEF Init
  <2>3. result \in [Item -> [status   : {"none", "error", "found", "not_found"},
                            track    : Track \cup {NoTrack},
                            withheld : BOOLEAN]]
    BY DEF Init, NoResult, Result
  <2>4. /\ at = "idle" /\ marked \subseteq Item /\ outer = "pending"
        /\ stage = [i \in Item |-> "none"]
    BY DEF Init
  <2>5. clean \in BOOLEAN /\ mark \in BOOLEAN
    BY DEF Init
  <2>6. size \in 0..MaxItems /\ free \in 0..Permits
    BY DEF Init
  <2> QED
    BY <2>2, <2>3, <2>4, <2>5, <2>6 DEF TypeOK
<1>2. PermitsAreExact
  <2>1. Busy = {} /\ free = Permits /\ InLine = {}
    BY DEF Init, Busy, InLine
  <2> QED
    <3>1. Cardinality({}) = 0
      BY FS_EmptySet
    <3> QED
      BY <2>1, <3>1, PermitsAreBusy
<1>3. TasksStartTogether /\ SettledByTask /\ AnswerFollowsTasks
  BY DEF Init, TasksStartTogether, SettledByTask, AnswerFollowsTasks, Item
<1>4. OnlyCleanTracks
  BY DEF Init, OnlyCleanTracks
<1> QED
  BY <1>1, <1>2, <1>3, <1>4 DEF IInv

(* A step that leaves the tasks and their permits alone leaves these two. *)
LEMMA PermitsUntouched ==
    ASSUME PermitsAreExact, UNCHANGED <<stage, marked, free>>
    PROVE  PermitsAreExact'
  BY DEF PermitsAreExact, InLine

(* What leaves the results alone leaves what is known of them. *)
LEMMA ResultsUntouched ==
    ASSUME OnlyCleanTracks, UNCHANGED <<clean, outcome, result>>
    PROVE  OnlyCleanTracks'
  BY DEF OnlyCleanTracks

LEMMA BeginKeeps ==
    ASSUME IInv, NEW n \in Item, NEW cap \in Item,
           NEW e \in {"allowed", "refused", "unknown"}, Begin(n, cap, e)
    PROVE  IInv'
<1> USE DEF IInv
<1>0. /\ at = "idle" /\ marked = {} /\ outer = "pending"
      /\ \A i \in Item : stage[i] = "none" /\ result[i] = NoResult
      /\ size' = n /\ UNCHANGED <<marked, free, outcome, result, outer, mark>>
      /\ clean' \in BOOLEAN
      /\ \/ at' \in {"too_large", "unavailable"} /\ stage' = stage
         \/ /\ at' = "gathering"
            /\ stage' = [i \in Item |-> IF i <= n THEN "created" ELSE "none"]
  BY DEF Begin, TasksStartTogether, AnswerFollowsTasks, SettledByTask
<1>1. TypeOK'
  BY <1>0 DEF TypeOK, Item, Ended
<1>2. TasksStartTogether'
  BY <1>0 DEF TasksStartTogether, Item
<1>3. PermitsAreExact'
  <2>1. Busy = {} /\ Busy' = {} /\ InLine' = {}
    BY <1>0 DEF Busy, InLine
  <2> QED
    BY <1>0, <2>1, PermitsAreBusy DEF PermitsAreExact, Busy
<1>4. SettledByTask'
  BY <1>0 DEF SettledByTask
<1>5. OnlyCleanTracks'
  BY <1>0 DEF OnlyCleanTracks, NoResult, Result
<1>6. AnswerFollowsTasks'
  BY <1>0 DEF AnswerFollowsTasks
<1> QED
  BY <1>1, <1>2, <1>3, <1>4, <1>5, <1>6

LEMMA StartKeeps ==
    ASSUME IInv, Start
    PROVE  IInv'
<1> USE DEF IInv
<1>0. /\ UNCHANGED <<at, size, clean, marked, outcome, result, outer, mark>>
      /\ \A i \in Item : stage[i] = IF i <= size THEN "created" ELSE "none"
      /\ marked = {} \/ marked = 1..size
      /\ size \in 0..MaxItems
  BY DEF Start, TasksStartTogether, TypeOK
<1>1. CASE marked # {}
  <2>1. stage' = [i \in Item |-> IF i <= size THEN "cancelled" ELSE "none"] /\ free' = free
    BY <1>0, <1>1 DEF Start, TypeOK
  <2>2. Busy = {} /\ Busy' = {} /\ InLine' = {}
    BY <1>0, <2>1 DEF Busy, InLine
  <2>3. PermitsAreExact'
    BY <2>1, <2>2, PermitsAreBusy DEF PermitsAreExact, Busy
  <2>4. TypeOK'
    BY <1>0, <2>1 DEF TypeOK
  <2>5. TasksStartTogether' /\ SettledByTask' /\ AnswerFollowsTasks'
    BY <1>0, <2>1 DEF TasksStartTogether, SettledByTask, AnswerFollowsTasks, Item
  <2> QED
    BY <1>0, <2>3, <2>4, <2>5, ResultsUntouched
<1>2. CASE marked = {}
  <2>1. /\ stage' = [i \in Item |-> IF i > size THEN "none"
                                    ELSE IF i <= Permits THEN "searching" ELSE "queued"]
        /\ free' = IF size <= Permits THEN Permits - size ELSE 0
    BY <1>0, <1>2 DEF Start, Item
  <2>2. PermitsAreExact'
    <3>1. CASE size <= Permits
      <4>1. Busy' = 1..size /\ InLine' = {}
        BY <1>0, <2>1, <3>1 DEF Busy, InLine, Item
      <4>2. Cardinality(1..size) = size
        BY <1>0, CountTo
      <4> QED
        BY <1>0, <2>1, <3>1, <4>1, <4>2, PermitsAreBusy
    <3>2. CASE size > Permits
      <4>1. Busy' = 1..Permits
        BY <1>0, <2>1, <3>2 DEF Busy, Item
      <4>2. Cardinality(1..Permits) = Permits
        BY CountTo
      <4> QED
        BY <1>0, <2>1, <3>2, <4>1, <4>2, PermitsAreBusy
    <3> QED
      BY <1>0, <3>1, <3>2
  <2>3. TypeOK'
    BY <1>0, <2>1 DEF TypeOK
  <2>4. TasksStartTogether' /\ SettledByTask' /\ AnswerFollowsTasks'
    BY <1>0, <2>1 DEF TasksStartTogether, SettledByTask, AnswerFollowsTasks, Item
  <2> QED
    BY <1>0, <2>2, <2>3, <2>4, ResultsUntouched
<1> QED
  BY <1>1, <1>2

LEMMA EnterKeeps ==
    ASSUME IInv, NEW i \in Item, Enter(i)
    PROVE  IInv'
<1> USE DEF IInv
<1>0. /\ stage[i] = "woken" /\ stage' = [stage EXCEPT ![i] = "searching"]
      /\ UNCHANGED <<at, size, clean, marked, free, outcome, result, outer, mark>>
      /\ stage \in [Item -> {"none", "created", "queued", "woken", "searching",
                             "returned", "raised", "cancelled"}]
  BY DEF Enter, TypeOK
<1>1. TypeOK'
  BY <1>0 DEF TypeOK
<1>2. TasksStartTogether' /\ SettledByTask' /\ AnswerFollowsTasks'
  BY <1>0 DEF TasksStartTogether, SettledByTask, AnswerFollowsTasks
<1>3. Busy' = Busy /\ InLine' = InLine
  BY <1>0 DEF Busy, InLine
<1> QED
  BY <1>0, <1>1, <1>2, <1>3, PermitsAreBusy, ResultsUntouched

(* However a search ends: r is the result of the item, if there is one.    *)
LEMMA SearchedKeeps ==
    ASSUME IInv, NEW i \in Item, NEW what \in Hits \cup {<<f>> : f \in Failure},
           NEW how \in {"returned", "raised"},
           NEW r \in [status   : {"none", "error", "found", "not_found"},
                      track    : Track \cup {NoTrack},
                      withheld : BOOLEAN],
           Searched(i, what, how, r),
           how = "returned" =>
              /\ r.status # "none"
              /\ r.status = "error" <=> what \in {<<"service">>, <<"unexpected">>},
           how = "raised" =>
              /\ r = NoResult
              /\ \/ what \in RefusedWhole
                 \/ \E k \in DOMAIN what : what[k] \in Unreadable,
           clean /\ r.status \in {"found", "not_found"} =>
              /\ r.withheld <=> what # <<>> /\ \A k \in DOMAIN what : what[k] \in Explicit
              /\ r.status = "found" => \E k \in DOMAIN what :
                    /\ r.track = what[k] /\ what[k] \notin Explicit
                    /\ \A j \in 1..(k - 1) : what[j] \in Explicit
              /\ r.status = "not_found" => r.withheld \/ what = <<>>
    PROVE  IInv'
<1> USE DEF IInv
<1>0. /\ stage[i] = "searching" /\ UNCHANGED <<at, size, clean, marked, outer, mark>>
      /\ outcome' = [outcome EXCEPT ![i] = what] /\ result' = [result EXCEPT ![i] = r]
      /\ outcome \in [Item -> Hits \cup {<<f>> : f \in Failure}]
      /\ result \in [Item -> [status   : {"none", "error", "found", "not_found"},
                              track    : Track \cup {NoTrack},
                              withheld : BOOLEAN]]
  BY DEF Searched, TypeOK
<1>1. /\ stage' \in [Item -> {"none", "created", "queued", "woken", "searching",
                              "returned", "raised", "cancelled"}]
      /\ stage'[i] = how
      /\ \A j \in Item \ {i} : \/ stage'[j] = stage[j]
                               \/ stage[j] = "queued" /\ stage'[j] = "woken"
      /\ free' \in 0..Permits
      /\ PermitsAreExact'
  BY <1>0, LeaveKeeps DEF Searched
<1>2. TypeOK'
  BY <1>0, <1>1 DEF TypeOK
<1>3. TasksStartTogether'
  BY <1>0, <1>1 DEF TasksStartTogether
<1>4. /\ \A j \in Item \ {i} : outcome'[j] = outcome[j] /\ result'[j] = result[j]
      /\ outcome'[i] = what /\ result'[i] = r
  BY <1>0
<1>5. SettledByTask'
  <2> SUFFICES ASSUME NEW j \in Item
               PROVE  (/\ stage[j] # "returned" => result[j] = NoResult
                       /\ stage[j] = "returned" =>
                             /\ result[j].status # "none"
                             /\ result[j].status = "error"
                                   <=> outcome[j] \in {<<"service">>, <<"unexpected">>}
                       /\ stage[j] = "raised" =>
                             \/ outcome[j] \in RefusedWhole
                             \/ \E k \in DOMAIN outcome[j] : outcome[j][k] \in Unreadable)'
    BY DEF SettledByTask
  <2>1. CASE j = i
    BY <2>1, <1>1, <1>4
  <2>2. CASE j # i
    BY <2>2, <1>1, <1>4 DEF SettledByTask
  <2> QED
    BY <2>1, <2>2
<1>6. OnlyCleanTracks'
  BY <1>0, <1>4 DEF OnlyCleanTracks
<1>7. AnswerFollowsTasks'
  <2>1. outer = "results" => FALSE
    <3>1. i <= size /\ i \in 1..size
      BY <1>0 DEF TasksStartTogether, TypeOK, Item
    <3> QED
      BY <1>0, <3>1 DEF AnswerFollowsTasks
  <2> QED
    BY <1>0, <1>1, <2>1 DEF AnswerFollowsTasks
<1> QED
  BY <1>1, <1>2, <1>3, <1>5, <1>6, <1>7

LEMMA SearchSucceedsKeeps ==
    ASSUME IInv, NEW i \in Item, NEW hits \in Hits, SearchSucceeds(i, hits)
    PROVE  IInv'
<1> DEFINE best == IF clean THEN FirstCleanTrack(hits) ELSE FirstTrack(hits)
<1>1. /\ best \in [status   : {"found", "not_found"},
                   track    : Track \cup {NoTrack},
                   withheld : BOOLEAN]
      /\ best.track \in Track => \E k \in DOMAIN hits : best.track = hits[k]
  BY FirstTrackFinds, FirstCleanTrackFinds
<1>2. clean =>
        /\ best.withheld <=> hits # <<>> /\ \A k \in DOMAIN hits : hits[k] \in Explicit
        /\ best.status = "found" => \E k \in DOMAIN hits :
              /\ best.track = hits[k] /\ hits[k] \notin Explicit
              /\ \A j \in 1..(k - 1) : hits[j] \in Explicit
        /\ best.status = "not_found" => best.withheld \/ hits = <<>>
  BY FirstCleanTrackFinds
<1>3. hits \notin {<<"service">>, <<"unexpected">>}
  BY HitsAreTracks DEF Failure
<1>4. IF best.track \in Unreadable THEN Searched(i, hits, "raised", NoResult)
                                   ELSE Searched(i, hits, "returned", best)
  BY DEF SearchSucceeds
<1> HIDE DEF best
<1>5. CASE best.track \in Unreadable
  <2>1. \E k \in DOMAIN hits : hits[k] \in Unreadable
    BY <1>1, <1>5
  <2>2. NoResult \in [status   : {"none", "error", "found", "not_found"},
                      track    : Track \cup {NoTrack},
                      withheld : BOOLEAN]
        /\ NoResult.status = "none"
    BY DEF NoResult, Result
  <2> QED
    BY <1>4, <1>5, <2>1, <2>2, SearchedKeeps
<1>6. CASE best.track \notin Unreadable
  <2>1. /\ best \in [status   : {"none", "error", "found", "not_found"},
                     track    : Track \cup {NoTrack},
                     withheld : BOOLEAN]
        /\ best.status \notin {"none", "error"}
    BY <1>1
  <2> QED
    BY <1>2, <1>3, <1>4, <1>6, <2>1, SearchedKeeps
<1> QED
  BY <1>5, <1>6

LEMMA SearchFailsKeeps ==
    ASSUME IInv, NEW i \in Item, NEW f \in Failure, SearchFails(i, f)
    PROVE  IInv'
<1>1. /\ NoResult.status = "none" /\ ErrorResult.status = "error"
      /\ {NoResult, ErrorResult} \subseteq
            [status   : {"none", "error", "found", "not_found"},
             track    : Track \cup {NoTrack},
             withheld : BOOLEAN]
  BY DEF NoResult, ErrorResult, Result
<1>2. CASE RequestLevel(f)
  <2>1. Searched(i, <<f>>, "raised", NoResult) /\ <<f>> \in RefusedWhole
    BY <1>2 DEF SearchFails, RequestLevel, RefusedWhole
  <2> QED
    BY <1>1, <2>1, SearchedKeeps
<1>3. CASE ~ RequestLevel(f)
  <2>1. Searched(i, <<f>>, "returned", ErrorResult) /\ <<f>> \in {<<"service">>, <<"unexpected">>}
    BY <1>3 DEF SearchFails, RequestLevel, Failure
  <2> QED
    BY <1>1, <2>1, SearchedKeeps
<1> QED
  BY <1>2, <1>3

LEMMA TaskCancelledKeeps ==
    ASSUME IInv, NEW i \in Item, TaskCancelled(i)
    PROVE  IInv'
<1> USE DEF IInv
<1>0. /\ stage[i] \in {"queued", "woken", "searching"} /\ i \in marked
      /\ UNCHANGED <<at, size, clean, marked, outcome, result, outer, mark>>
  BY DEF TaskCancelled
<1>1. /\ stage' \in [Item -> {"none", "created", "queued", "woken", "searching",
                              "returned", "raised", "cancelled"}]
      /\ stage'[i] = "cancelled"
      /\ \A j \in Item \ {i} : \/ stage'[j] = stage[j]
                               \/ stage[j] = "queued" /\ stage'[j] = "woken"
      /\ free' \in 0..Permits
      /\ PermitsAreExact'
  <2>1. CASE stage[i] = "queued"
    <3>1. stage' = [stage EXCEPT ![i] = "cancelled"] /\ free' = free
      BY <2>1 DEF TaskCancelled
    <3>2. Busy' = Busy /\ InLine' = InLine
      BY <1>0, <2>1, <3>1 DEF Busy, InLine, TypeOK
    <3> QED
      BY <3>1, <3>2, PermitsAreBusy DEF TypeOK
  <2>2. CASE stage[i] # "queued"
    BY <1>0, <2>2, LeaveKeeps DEF TaskCancelled
  <2> QED
    BY <2>1, <2>2
<1>2. TypeOK'
  BY <1>0, <1>1 DEF TypeOK
<1>3. TasksStartTogether' /\ SettledByTask'
  BY <1>0, <1>1 DEF TasksStartTogether, SettledByTask
<1>4. AnswerFollowsTasks'
  <2>1. outer = "results" => FALSE
    <3>1. i <= size /\ i \in 1..size
      BY <1>0 DEF TasksStartTogether, TypeOK, Item
    <3> QED
      BY <1>0, <3>1 DEF AnswerFollowsTasks
  <2> QED
    BY <1>0, <1>1, <2>1 DEF AnswerFollowsTasks
<1> QED
  BY <1>0, <1>1, <1>2, <1>3, <1>4, ResultsUntouched

LEMMA GatheredKeeps == IInv /\ Gathered => IInv'
<1> SUFFICES ASSUME IInv, Gathered PROVE IInv'
  OBVIOUS
<1> USE DEF IInv
<1>0. UNCHANGED <<at, size, clean, stage, marked, free, outcome, result, mark>>
  BY DEF Gathered
<1>1. TypeOK'
  BY <1>0 DEF Gathered, TypeOK
<1>2. TasksStartTogether' /\ SettledByTask'
  BY <1>0 DEF TasksStartTogether, SettledByTask
<1>3. AnswerFollowsTasks'
  BY <1>0 DEF Gathered, AnswerFollowsTasks
<1> QED
  BY <1>0, <1>1, <1>2, <1>3, PermitsUntouched, ResultsUntouched

LEMMA AnswerKeeps == IInv /\ Answer => IInv'
<1> SUFFICES ASSUME IInv, Answer PROVE IInv'
  OBVIOUS
<1> USE DEF IInv
<1>0. UNCHANGED <<size, clean, stage, marked, free, outcome, result, outer, mark>>
  BY DEF Answer
<1>1. TypeOK'
  BY <1>0 DEF Answer, TypeOK, Ended
<1>2. TasksStartTogether' /\ SettledByTask'
  BY <1>0 DEF Answer, TasksStartTogether, SettledByTask
<1>3. AnswerFollowsTasks'
  BY <1>0 DEF Answer, AnswerFollowsTasks, TypeOK
<1> QED
  BY <1>0, <1>1, <1>2, <1>3, PermitsUntouched, ResultsUntouched

LEMMA CancelKeeps == IInv /\ Cancel => IInv'
<1> SUFFICES ASSUME IInv, Cancel PROVE IInv'
  OBVIOUS
<1> USE DEF IInv
<1>0. /\ at = "gathering" /\ marked \subseteq marked' /\ mark' \in BOOLEAN
      /\ marked' \in {marked, marked \cup Unfinished}
      /\ UNCHANGED <<at, size, clean, stage, free, outcome, result, outer>>
  BY DEF Cancel, TypeOK
<1>1. TypeOK'
  BY <1>0 DEF TypeOK, Unfinished
<1>2. TasksStartTogether'
  <2>1. (\E i \in Item : stage[i] = "created") => Unfinished = 1..size
    BY DEF TasksStartTogether, Unfinished, Item, TypeOK
  <2> QED
    BY <1>0, <2>1 DEF TasksStartTogether
<1>3. SettledByTask' /\ AnswerFollowsTasks'
  BY <1>0 DEF SettledByTask, AnswerFollowsTasks
<1>4. PermitsAreExact'
  <2>1. InLine' \subseteq InLine /\ Busy' = Busy
    BY <1>0 DEF InLine, Busy
  <2> QED
    BY <1>0, <2>1, PermitsAreBusy
<1> QED
  BY <1>0, <1>1, <1>2, <1>3, <1>4, ResultsUntouched

(* Every step keeps the invariant. *)
LEMMA NextKeeps == IInv /\ [Next]_vars => IInv'
<1> SUFFICES ASSUME IInv, [Next]_vars PROVE IInv'
  OBVIOUS
<1>1. ASSUME NEW i \in Item, Task(i)
      PROVE  IInv'
  BY <1>1, EnterKeeps, SearchSucceedsKeeps, SearchFailsKeeps, TaskCancelledKeeps DEF Task
<1>2. CASE UNCHANGED vars
  BY <1>2, PermitsUntouched, ResultsUntouched
     DEF vars, IInv, TypeOK, TasksStartTogether, SettledByTask, AnswerFollowsTasks
<1> QED
  BY <1>1, <1>2, BeginKeeps, StartKeeps, GatheredKeeps, AnswerKeeps, CancelKeeps DEF Next

-----------------------------------------------------------------------------

(* So it always holds. *)
LEMMA Invariance == Spec => []IInv
  BY InitHolds, NextKeeps, PTL DEF Spec

(* Every variable keeps its type, for batches of any size (the handler of  *)
(* api/routes/lookup.py and resolve of spotify/resolver.py).               *)
THEOREM TypeCorrect == Spec => []TypeOK
<1>1. IInv => TypeOK
  BY DEF IInv
<1> QED
  BY <1>1, Invariance, PTL

(* No permit of the semaphore of resolve is lost or made up, and none lies *)
(* idle while an item waits, however the searches of the batch end.        *)
THEOREM PermitsExact == Spec => []PermitsAreExact
<1>1. IInv => PermitsAreExact
  BY DEF IInv
<1> QED
  BY <1>1, Invariance, PTL

(* resolve answers with a result for every item, or fails for a reason     *)
(* that is not a single search's.                                          *)
THEOREM BatchesSucceedInPart == Spec => []PartialSuccess
<1>1. IInv => PartialSuccess
  <2> SUFFICES ASSUME IInv PROVE PartialSuccess
    OBVIOUS
  <2>1. \A i \in 1..size : i \in Item
    BY DEF IInv, TypeOK, Item
  <2>2. at = "answered" => \A i \in 1..size : stage[i] = "returned"
    BY DEF IInv, AnswerFollowsTasks
  <2>3. at = "failed" => \E i \in 1..size : stage[i] = "raised"
    BY DEF IInv, AnswerFollowsTasks, TasksStartTogether, TypeOK, Item
  <2> QED
    BY <2>1, <2>2, <2>3 DEF IInv, PartialSuccess, SettledByTask
<1> QED
  BY <1>1, Invariance, PTL

(* _resolve_item answers a person who refuses explicit tracks with a clean  *)
(* one whenever the search found any, and never with an explicit one.      *)
THEOREM CleanTracksOnly == Spec => []OnlyCleanTracks
<1>1. IInv => OnlyCleanTracks
  BY DEF IInv
<1> QED
  BY <1>1, Invariance, PTL
===============================================================================
