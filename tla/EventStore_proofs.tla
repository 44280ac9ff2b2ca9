------------------------- MODULE EventStore_proofs --------------------------
(***************************************************************************)
(* Proofs about EventStore: no page has a gap or a double, the watermark   *)
(* is exact and the waiters are counted, for any readers, workspaces and   *)
(* processes, and any limits.                                              *)
(***************************************************************************)
EXTENDS EventStore, FiniteSetTheorems, TLAPS

Count == Cardinality(written)
Waiting == {r \in Readers : step[r] \in {"waiting", "woken"}}

(* Ids are given out one by one, and a process stays in its workspace.     *)
WrittenInv ==
  /\ IsFiniteSet(written) /\ Count <= MaxEvents
  /\ Ids(written) = 1 .. Count
  /\ \A e, f \in written : e.id = f.id => e = f
  /\ \A e \in written : /\ e.process \in Procs => e.workspace = Home[e.process]
                        /\ e.sequence <= e.id

(* The rows of a workspace are what was written behind its watermark.      *)
RowsInv ==
  /\ \A w \in Workspaces : w \notin discarded =>
       /\ Of(w) = {e \in written : e.workspace = w /\ e.id > expired[w]}
       /\ expired[w] <= Count
  /\ \A w \in discarded : Of(w) = {}
  /\ SequencesFollowIds

(* A call that has passed _check_retention is not overtaken by cleanup,    *)
(* which runs before the server serves.                                    *)
CallsInv ==
  /\ ~ serving => \A r \in Readers : step[r] = "idle"
  /\ \A r \in Readers : step[r] \in {"select", "enter", "waiting", "woken"} =>
       call[r].workspace \in discarded \/ ~ Refused(call[r])

(* A cursor is not ahead of the stream, but where it was sent by a client. *)
Complete(got) ==
  got.kind \in {"page", "timed_out", "shutdown"} =>
    /\ got.ids = {i \in Ids(Matching(written, got.from, got.from.after)) : i <= got.cursor}
    /\ got.cursor <= got.from.after \/ got.cursor <= Count

PagesInv == \A r \in Readers : Complete(answer[r])

CountInv == IsFiniteSet(Waiting) /\ waiters = Cardinality(Waiting)

IInv == TypeOK /\ WrittenInv /\ RowsInv /\ CallsInv /\ PagesInv /\ CountInv

-----------------------------------------------------------------------------
(* Extremes of finite sets of integers: among the sets of what is greater, *)
(* a smallest one exists, as the finite sets are well-founded.             *)

LEMMA GreatestExists ==
  ASSUME NEW S \in SUBSET Int, IsFiniteSet(S), S # {}
  PROVE  \E m \in S : \A x \in S : x <= m
<1> DEFINE Above(m) == {x \in S : x > m}
           T == {Above(m) : m \in S}
<1>1. T \subseteq FiniteSubsetsOf(S) /\ T # {}
  <2>1. ASSUME NEW m \in S PROVE Above(m) \in FiniteSubsetsOf(S)
    BY FS_Subset DEF FiniteSubsetsOf
  <2> QED BY <2>1
<1>2. PICK U \in T : \A V \in T : ~ (<<V, U>> \in StrictSubsetOrdering(S))
  BY <1>1, WFMin, FS_StrictSubsetOrderingWellFounded
<1>3. PICK m \in S : U = Above(m)
  OBVIOUS
<1>4. ASSUME NEW x \in S, ~ (x <= m) PROVE FALSE
  <2>1. Above(x) \in T
    OBVIOUS
  <2>2. x \in Int /\ m \in Int /\ x > m
    BY <1>4
  <2>3. x \in Above(m) /\ x \notin Above(x) /\ \A y \in Above(x) : y \in Above(m)
    BY <2>2
  <2>4. Above(x) \in SUBSET S /\ Above(m) \in SUBSET S
    OBVIOUS
  <2> HIDE DEF Above
  <2>5. <<Above(x), Above(m)>> \in StrictSubsetOrdering(S)
    BY <2>3, <2>4 DEF StrictSubsetOrdering
  <2> QED BY <1>2, <1>3, <2>1, <2>5
<1> QED BY <1>4

LEMMA UpToIsFinite ==
  ASSUME NEW n \in Nat, NEW S \in SUBSET (0 .. n)
  PROVE  IsFiniteSet(S) /\ S \in SUBSET Int
<1>1. IsFiniteSet(0 .. n)
  BY FS_Interval
<1>2. \A x \in S : x \in Int
  OBVIOUS
<1> QED BY <1>1, <1>2, FS_Subset

LEMMA LeastExists ==
  ASSUME NEW n \in Nat, NEW S \in SUBSET (0 .. n), S # {}
  PROVE  \E m \in S : \A x \in S : m <= x
<1> DEFINE T == {n - x : x \in S}
<1>1. T \subseteq 0 .. n /\ T # {}
  <2>1. \A x \in S : x \in 0 .. n /\ n - x \in 0 .. n
    OBVIOUS
  <2> QED BY <2>1
<1>2. T \in SUBSET Int /\ IsFiniteSet(T)
  <2> HIDE DEF T
  <2> QED BY <1>1, UpToIsFinite
<1> HIDE DEF T
<1>3. PICK y \in T : \A z \in T : z <= y
  BY <1>1, <1>2, GreatestExists
<1>4. PICK m \in S : y = n - m
  BY DEF T
<1>5. ASSUME NEW x \in S PROVE m <= x
  <2>1. n - x \in T
    BY DEF T
  <2>2. n - x <= n - m /\ x \in Int /\ m \in Int
    BY <1>3, <1>4, <2>1
  <2> QED BY <2>2
<1> QED BY <1>5

LEMMA NewestIs ==
  ASSUME NEW S \in SUBSET (0 .. MaxEvents)
  PROVE  /\ Newest(S) \in S \cup {0} /\ Newest(S) \in 0 .. MaxEvents
         /\ \A m \in S : m <= Newest(S)
<1> USE StoreAssumption
<1>0. S \cup {0} \in SUBSET (0 .. MaxEvents)
  OBVIOUS
<1>1. S \cup {0} \in SUBSET Int /\ IsFiniteSet(S \cup {0}) /\ S \cup {0} # {}
  <2>1. MaxEvents \in Nat
    OBVIOUS
  <2> QED BY <1>0, <2>1, UpToIsFinite
<1>2. PICK n \in S \cup {0} : \A m \in S \cup {0} : m <= n
  BY <1>1, GreatestExists
<1>3. Newest(S) \in S \cup {0} /\ \A m \in S : m <= Newest(S)
  <2>1. \E k \in S \cup {0} : \A m \in S : m <= k
    BY <1>2
  <2> QED BY <2>1 DEF Newest
<1> QED BY <1>0, <1>3

LEMMA NoCallTyped == NoCall \in Calls
BY StoreAssumption DEF NoCall, Calls

(* The sets of ids and sequences of which the newest is taken.             *)
LEMMA IdsTyped ==
  ASSUME TypeOK, NEW E \in SUBSET written
  PROVE  Ids(E) \in SUBSET (0 .. MaxEvents) /\ Ids(E) \in SUBSET (1 .. MaxEvents)
BY StoreAssumption DEF Ids, TypeOK, Events

-----------------------------------------------------------------------------
(* A page is the beginning of the rows it is taken from, and empty only    *)
(* when there are none.                                                    *)
LEMMA PageIsPrefix ==
  ASSUME TypeOK, IsFiniteSet(written), NEW c \in Calls
  PROVE  LET rows == Matching(events, c, c.after) IN
         /\ Page(c) \subseteq rows
         /\ \A e \in Page(c), f \in rows : f.id <= e.id => f \in Page(c)
         /\ Page(c) = {} => rows = {}
<1> DEFINE rows == Matching(events, c, c.after)
           Older(e) == {f \in rows : f.id < e.id}
<1> USE StoreAssumption
<1>1. IsFiniteSet(rows) /\ rows \subseteq written /\ \A e \in rows : e.id \in 1 .. MaxEvents
  BY FS_Subset DEF Matching, TypeOK, Events
<1>2. Page(c) = {e \in rows : Cardinality(Older(e)) < PageSize}
  BY DEF Page
<1> HIDE DEF rows
<1>3. ASSUME NEW e \in rows, NEW f \in rows, f.id <= e.id,
             Cardinality(Older(e)) < PageSize
      PROVE  Cardinality(Older(f)) < PageSize
  <2>1. Older(f) \subseteq Older(e)
    <3>1. \A g \in rows : g.id < f.id => g.id < e.id
      BY <1>1, <1>3
    <3> QED BY <3>1
  <2>2. IsFiniteSet(Older(e)) /\ IsFiniteSet(Older(f))
    BY <1>1, FS_Subset
  <2>3. Cardinality(Older(f)) <= Cardinality(Older(e))
    BY <2>1, <2>2, FS_Subset
  <2> QED BY <1>3, <2>2, <2>3, FS_CardinalityType
<1>4. ASSUME rows # {} PROVE Page(c) # {}
  <2>1. Ids(rows) \in SUBSET (0 .. MaxEvents) /\ Ids(rows) # {}
    BY <1>1, <1>4, IdsTyped DEF Ids
  <2>2. PICK i \in Ids(rows) : \A j \in Ids(rows) : i <= j
    BY <2>1, LeastExists
  <2>3. PICK e \in rows : e.id = i
    BY DEF Ids
  <2>4. Older(e) = {}
    <3>1. ASSUME NEW f \in rows, f.id < e.id PROVE FALSE
      BY <1>1, <2>2, <2>3, <3>1 DEF Ids
    <3> QED BY <3>1
  <2>5. Cardinality(Older(e)) = 0
    BY <2>4, FS_EmptySet
  <2> QED BY <1>2, <2>5
<1> QED BY <1>2, <1>3, <1>4 DEF rows

-----------------------------------------------------------------------------
(* What an answer promises when it is given.                               *)

LEMMA AnswerTyped ==
  ASSUME TypeOK, NEW c \in Calls, NEW E \in SUBSET events,
         NEW kind \in {"page", "expired", "limited", "shutdown", "timed_out"}
  PROVE  Answer(kind, c, E) \in
           [kind : {"none", "page", "expired", "limited", "shutdown", "timed_out"},
            ids : SUBSET (1 .. MaxEvents), cursor : 0 .. MaxEvents, from : Calls]
<1>1. Ids(E) \in SUBSET (1 .. MaxEvents) /\ Newest(Ids(E)) \in 0 .. MaxEvents
  BY IdsTyped, NewestIs DEF TypeOK
<1>2. c.after \in 0 .. MaxEvents /\ expired[c.workspace] \in 0 .. MaxEvents
  BY DEF TypeOK, Calls
<1> QED BY <1>1, <1>2 DEF Answer

LEMMA EmptyIsComplete ==
  ASSUME TypeOK, NEW c \in Calls,
         NEW kind \in {"page", "expired", "limited", "shutdown", "timed_out"}
  PROVE  Complete(Answer(kind, c, {}))
<1>1. CASE kind \in {"expired", "limited"}
  BY <1>1 DEF Complete, Answer
<1>2. CASE kind \in {"page", "shutdown", "timed_out"}
  <2>1. Answer(kind, c, {}) = [kind |-> kind, ids |-> {}, from |-> c, cursor |-> c.after]
    BY <1>2 DEF Answer, Ids
  <2>2. ASSUME NEW i \in Ids(Matching(written, c, c.after)) PROVE ~ (i <= c.after)
    BY StoreAssumption DEF Ids, Matching, TypeOK, Events, Calls
  <2>3. c.after <= c.after
    BY StoreAssumption DEF Calls
  <2> QED BY <2>1, <2>2, <2>3 DEF Complete
<1> QED BY <1>1, <1>2

LEMMA PageIsComplete ==
  ASSUME TypeOK, WrittenInv, RowsInv, NEW c \in Calls,
         c.workspace \in discarded \/ ~ Refused(c)
  PROVE  Complete(Answer("page", c, Page(c)))
<1> USE StoreAssumption
<1>1. CASE Page(c) = {}
  BY <1>1, EmptyIsComplete
<1>2. CASE Page(c) # {}
  <2> DEFINE rows == Matching(events, c, c.after)
             last == Newest(Ids(Page(c)))
  <2>1. /\ Page(c) \subseteq rows
        /\ \A e \in Page(c), f \in rows : f.id <= e.id => f \in Page(c)
    BY PageIsPrefix DEF WrittenInv
  <2>2. rows \subseteq written /\ \A e \in written : e.id \in 1 .. MaxEvents
    BY DEF Matching, TypeOK, Events
  <2>3. Ids(Page(c)) \in SUBSET (0 .. MaxEvents)
    BY <2>1, <2>2, IdsTyped
  <2>4. last \in 0 .. MaxEvents /\ last \in Ids(Page(c)) /\ \A m \in Ids(Page(c)) : m <= last
    <3>1. \A m \in Ids(Page(c)) : m # 0
      BY <2>1, <2>2 DEF Ids
    <3>2. PICK e \in Page(c) : TRUE
      BY <1>2
    <3>3. e.id \in Ids(Page(c)) /\ e.id \in 1 .. MaxEvents
      BY <2>1, <2>2 DEF Ids
    <3>4. last # 0
      BY <2>3, <3>3, NewestIs
    <3> QED BY <2>3, <3>4, NewestIs
  <2>5. PICK e \in Page(c) : e.id = last
    BY <2>4 DEF Ids
  <2>6. c.workspace \notin discarded
    <3>1. e \in Of(c.workspace)
      BY <2>1 DEF Matching, Of
    <3> QED BY <3>1 DEF RowsInv
  <2>7. Of(c.workspace) = {f \in written : f.workspace = c.workspace /\ f.id > expired[c.workspace]}
    BY <2>6 DEF RowsInv, Calls
  <2>8. expired[c.workspace] <= c.after /\ expired[c.workspace] \in Nat /\ c.after \in Nat
    BY <2>6 DEF Refused, TypeOK, Calls
  <2>9. ASSUME NEW f \in Matching(written, c, c.after), f.id <= last PROVE f \in Page(c)
    <3>1. f \in written /\ f.workspace = c.workspace /\ f.id > c.after /\ f.id \in 1 .. MaxEvents
      BY <2>2 DEF Matching
    <3>2. f \in Of(c.workspace)
      BY <2>7, <2>8, <3>1
    <3>3. f \in rows
      BY <3>2 DEF Matching, Of
    <3> QED BY <2>1, <2>5, <2>9, <3>3
  <2>10. ASSUME NEW f \in Page(c)
         PROVE  f \in Matching(written, c, c.after) /\ f.id <= last
    BY <2>1, <2>4 DEF Matching, Ids, TypeOK
  <2>11. Ids(Page(c)) = {i \in Ids(Matching(written, c, c.after)) : i <= last}
    BY <2>9, <2>10 DEF Ids
  <2>12. last <= Count
    <3>1. last \in Ids(written)
      BY <2>1, <2>2, <2>5 DEF Ids
    <3> QED BY <3>1, FS_CardinalityType DEF WrittenInv, Count
  <2>13. Answer("page", c, Page(c)) =
           [kind |-> "page", ids |-> Ids(Page(c)), from |-> c, cursor |-> last]
    BY <1>2 DEF Answer
  <2> QED BY <2>11, <2>12, <2>13 DEF Complete
<1> QED BY <1>1, <1>2

-----------------------------------------------------------------------------
(* The writers.                                                            *)

LEMMA InitInv == Init => IInv
<1> SUFFICES ASSUME Init PROVE IInv
  OBVIOUS
<1> USE StoreAssumption, NoCallTyped DEF Init
<1>1. Waiting = {} /\ Count = 0 /\ IsFiniteSet({}) /\ IsFiniteSet(Waiting) /\ Cardinality(Waiting) = 0
  BY FS_EmptySet DEF Waiting, Count
<1>2. NoAnswer \in
        [kind : {"none", "page", "expired", "limited", "shutdown", "timed_out"},
         ids : SUBSET (1 .. MaxEvents), cursor : 0 .. MaxEvents, from : Calls]
  BY DEF NoAnswer
<1>3. TypeOK
  <2>1. /\ events \subseteq written /\ written \subseteq Events
        /\ expired \in [Workspaces -> 0 .. MaxEvents] /\ discarded \subseteq Workspaces
        /\ waiters \in 0 .. MaxWaiters /\ shutting \in BOOLEAN
        /\ serving \in BOOLEAN /\ restarts \in 0 .. MaxRestarts
    <3>1. 0 \in 0 .. MaxEvents /\ 0 \in 0 .. MaxWaiters /\ 0 \in 0 .. MaxRestarts
      OBVIOUS
    <3> QED BY <3>1
  <2> QED BY <1>2, <2>1 DEF TypeOK
<1>4. WrittenInv
  BY <1>1 DEF WrittenInv, Ids
<1>5. RowsInv
  BY <1>1 DEF RowsInv, Of, SequencesFollowIds
<1>6. CallsInv /\ PagesInv
  BY DEF CallsInv, PagesInv, Complete, NoAnswer
<1>7. CountInv
  BY <1>1 DEF CountInv
<1> QED BY <1>3, <1>4, <1>5, <1>6, <1>7 DEF IInv

(* notify_all wakes who waits, and nobody else.                            *)
LEMMA NotifiedWaits ==
  ASSUME TypeOK, step' = Notified
  PROVE  /\ Waiting' = Waiting
         /\ \A r \in Readers : step'[r] = step[r] \/ (step[r] = "waiting" /\ step'[r] = "woken")
BY DEF TypeOK, Notified, Waiting

(* The newest row of a process has its greatest sequence.                  *)
LEMMA NextFollows ==
  ASSUME TypeOK, WrittenInv, SequencesFollowIds, NEW p \in Procs,
         NEW e \in events, e.process = p
  PROVE  NextSequence(p) - e.sequence =
           Cardinality({g \in events : g.process = p /\ e.id < g.id}) + 1
<1> DEFINE E == {f \in events : f.process = p}
           Seqs == {f.sequence : f \in E}
<1> USE StoreAssumption
<1>1. \A f \in E : f \in written /\ f.id \in 0 .. MaxEvents /\ f.sequence \in 0 .. MaxEvents
  BY DEF TypeOK, Events
<1>2. PICK m \in E : \A f \in E : f.id <= m.id
  <2>1. Ids(E) \in SUBSET (0 .. MaxEvents) /\ e.id \in Ids(E)
    BY <1>1 DEF Ids
  <2>2. IsFiniteSet(Ids(E)) /\ Ids(E) \in SUBSET Int /\ Ids(E) # {}
    BY <2>1, UpToIsFinite
  <2>3. PICK i \in Ids(E) : \A j \in Ids(E) : j <= i
    BY <2>2, GreatestExists
  <2> QED BY <2>3 DEF Ids
<1>3. ASSUME NEW f \in E
      PROVE  m.sequence - f.sequence = Cardinality({g \in E : f.id < g.id})
  <2>1. CASE f.id < m.id
    <3>1. {g \in E : f.id < g.id /\ g.id <= m.id} = {g \in E : f.id < g.id}
      BY <1>2
    <3>2. m.sequence - f.sequence = Cardinality({g \in E : f.id < g.id /\ g.id <= m.id})
      BY <2>1, <1>1 DEF SequencesFollowIds
    <3> QED BY <3>1, <3>2
  <2>2. CASE ~ (f.id < m.id)
    <3>1. f.id = m.id
      BY <1>1, <1>2, <2>2
    <3>2. f = m
      BY <1>1, <3>1 DEF WrittenInv
    <3>3. {g \in E : f.id < g.id} = {}
      BY <1>1, <1>2, <3>2
    <3>4. m.sequence \in Int /\ m.sequence - m.sequence = 0
      BY <1>1
    <3> QED BY <3>2, <3>3, <3>4, FS_EmptySet
  <2> QED BY <2>1, <2>2
<1>4. \A f \in E : f.sequence <= m.sequence
  <2> TAKE f \in E
  <2>1. IsFiniteSet({g \in E : f.id < g.id})
    <3>1. {g \in E : f.id < g.id} \in SUBSET written
      BY <1>1
    <3> QED BY <3>1, FS_Subset DEF WrittenInv
  <2>2. m.sequence - f.sequence \in Nat
    BY <1>3, <2>1, FS_CardinalityType
  <2> QED BY <1>1, <2>2
<1>5. Newest(Seqs) = m.sequence
  <2>1. Seqs \in SUBSET (0 .. MaxEvents) /\ m.sequence \in Seqs /\ \A n \in Seqs : n <= m.sequence
    BY <1>1, <1>4
  <2> HIDE DEF Seqs
  <2>2. Newest(Seqs) \in Seqs \cup {0} /\ m.sequence <= Newest(Seqs) /\ Newest(Seqs) \in 0 .. MaxEvents
    BY <2>1, NewestIs
  <2>3. m.sequence \in 0 .. MaxEvents /\ m.sequence >= 0
    BY <1>1
  <2>4. Newest(Seqs) <= m.sequence
    <3>1. CASE Newest(Seqs) \in Seqs
      BY <2>1, <3>1
    <3>2. CASE Newest(Seqs) = 0
      BY <2>3, <3>2
    <3> QED BY <2>2, <3>1, <3>2
  <2> QED BY <2>2, <2>3, <2>4
<1>6. NextSequence(p) = m.sequence + 1
  BY <1>5 DEF NextSequence
<1>7. {g \in E : e.id < g.id} = {g \in events : g.process = p /\ e.id < g.id}
  OBVIOUS
<1>8. e \in E /\ m.sequence \in Int /\ e.sequence \in Int
  BY <1>1
<1>9. m.sequence - e.sequence = Cardinality({g \in events : g.process = p /\ e.id < g.id})
  BY <1>3, <1>7, <1>8
<1> QED BY <1>6, <1>8, <1>9

(* append: what it writes is newer than everything else.                   *)
LEMMA AppendWrites ==
  ASSUME IInv, NEW w \in Workspaces, NEW p \in {Any} \cup Procs, Append(w, p)
  PROVE  \E e :
    /\ e = [id |-> Count + 1, workspace |-> w, process |-> p,
            sequence |-> IF p = Any THEN 0 ELSE NextSequence(p)]
    /\ written' = written \cup {e} /\ events' = events \cup {e} /\ e \notin written
    /\ e \in Events /\ e.sequence <= e.id
    /\ \A f \in written : f.id \in 1 .. Count /\ f.id < e.id
    /\ Count \in Nat /\ Count' = Count + 1 /\ Count + 1 <= MaxEvents
<1> USE StoreAssumption
<1>1. Count \in Nat /\ Ids(written) = 1 .. Count /\ Count < MaxEvents
  BY FS_CardinalityType DEF IInv, WrittenInv, Count, Append
<1>2. Newest(Ids(written)) = Count
  <2>1. Ids(written) \in SUBSET (0 .. MaxEvents)
    BY IdsTyped DEF IInv
  <2>2. /\ Newest(Ids(written)) \in (1 .. Count) \cup {0}
        /\ \A m \in 1 .. Count : m <= Newest(Ids(written))
    BY <1>1, <2>1, NewestIs
  <2> QED BY <1>1, <2>2
<1>3. \A f \in written : f.id \in 1 .. Count
  BY <1>1 DEF Ids
<1>4. ASSUME NEW q \in Procs PROVE NextSequence(q) \in 1 .. Count + 1
  <2> DEFINE S == {e.sequence : e \in {f \in events : f.process = q}}
  <2>1. \A e \in events : e.sequence \in 0 .. Count /\ e.sequence \in 0 .. MaxEvents
    <3> TAKE e \in events
    <3>1. e \in written /\ e.sequence \in 0 .. MaxEvents
      BY DEF IInv, TypeOK, Events
    <3>2. e.sequence <= e.id
      BY <3>1 DEF IInv, WrittenInv
    <3> QED BY <1>1, <1>3, <3>1, <3>2
  <2>2. S \in SUBSET (0 .. MaxEvents) /\ S \in SUBSET (0 .. Count)
    BY <2>1
  <2> HIDE DEF S
  <2>3. Newest(S) \in 0 .. Count
    BY <1>1, <2>2, NewestIs
  <2>4. NextSequence(q) = Newest(S) + 1
    BY DEF NextSequence, S
  <2> QED BY <1>1, <2>3, <2>4
<1> DEFINE e == [id |-> Count + 1, workspace |-> w, process |-> p,
                 sequence |-> IF p = Any THEN 0 ELSE NextSequence(p)]
<1>5. written' = written \cup {e} /\ events' = events \cup {e}
  BY <1>2 DEF Append
<1>6. e.sequence \in 0 .. Count + 1 /\ e.id = Count + 1 /\ e \in Events
  <2>1. (IF p = Any THEN 0 ELSE NextSequence(p)) \in 0 .. Count + 1
    BY <1>1, <1>4
  <2> QED BY <1>1, <2>1 DEF Events
<1> HIDE DEF e
<1>7. e \notin written
  BY <1>1, <1>3, <1>6
<1>8. Count' = Count + 1
  BY <1>5, <1>7, FS_AddElement DEF IInv, WrittenInv, Count
<1> QED BY <1>1, <1>3, <1>5, <1>6, <1>7, <1>8 DEF e

LEMMA AppendKeepsSequences ==
  ASSUME IInv, NEW w \in Workspaces, NEW p \in {Any} \cup Procs, Append(w, p)
  PROVE  SequencesFollowIds'
<1> USE StoreAssumption
<1>1. PICK e :
    /\ e = [id |-> Count + 1, workspace |-> w, process |-> p,
            sequence |-> IF p = Any THEN 0 ELSE NextSequence(p)]
    /\ written' = written \cup {e} /\ events' = events \cup {e} /\ e \notin written
    /\ e \in Events /\ e.sequence <= e.id
    /\ \A f \in written : f.id \in 1 .. Count /\ f.id < e.id
    /\ Count \in Nat /\ Count' = Count + 1 /\ Count + 1 <= MaxEvents
  BY AppendWrites
<1>2. events \subseteq written /\ e \notin events /\ e.process = p /\ SequencesFollowIds
  BY <1>1 DEF IInv, TypeOK, RowsInv
<1> SUFFICES ASSUME NEW q \in Procs,
                    NEW f \in {h \in events' : h.process = q},
                    NEW g \in {h \in events' : h.process = q}, g.id > f.id
             PROVE  g.sequence - f.sequence =
                      Cardinality({h \in {k \in events' : k.process = q} : f.id < h.id /\ h.id <= g.id})
  BY DEF SequencesFollowIds
<1> DEFINE Between(E) == {h \in {k \in E : k.process = q} : f.id < h.id /\ h.id <= g.id}
<1>3. CASE f \in events /\ g \in events
  <2>1. ~ (e.id <= g.id)
    BY <1>1, <1>2, <1>3
  <2>2. Between(events') = Between(events)
    BY <1>1, <2>1
  <2>3. g.sequence - f.sequence = Cardinality(Between(events))
    BY <1>2, <1>3 DEF SequencesFollowIds
  <2> QED BY <2>2, <2>3
<1>4. CASE f \in events /\ g = e
  <2>1. q = p /\ f.process = p /\ p # Any
    BY <1>2, <1>4
  <2> DEFINE Later(E) == {h \in E : h.process = p /\ f.id < h.id}
  <2>2. NextSequence(p) - f.sequence = Cardinality(Later(events)) + 1
    BY <1>2, <1>4, <2>1, NextFollows DEF IInv
  <2>3. \A h \in events : h.id <= e.id
    BY <1>1, <1>2
  <2>4. f.id < e.id /\ e.id <= e.id
    BY <1>1, <1>2, <1>4 DEF Events
  <2>5. Between(events') = Later(events) \cup {e}
    BY <1>1, <1>2, <1>4, <2>1, <2>3, <2>4
  <2>6. IsFiniteSet(Later(events)) /\ e \notin Later(events)
    <3>1. Later(events) \in SUBSET written
      BY <1>2
    <3> QED BY <1>2, <3>1, FS_Subset DEF IInv, WrittenInv
  <2>7. Cardinality(Between(events')) = Cardinality(Later(events)) + 1
    <3> HIDE DEF Later, Between
    <3> QED BY <2>5, <2>6, FS_AddElement
  <2>8. e.sequence = NextSequence(p)
    BY <1>1, <2>1
  <2> QED BY <1>4, <2>2, <2>7, <2>8
<1>5. CASE f = e
  <2>1. g.id <= e.id /\ e.id \in Nat /\ g.id \in Nat
    BY <1>1, <1>2 DEF Events
  <2> QED BY <1>5, <2>1
<1> QED BY <1>1, <1>3, <1>4, <1>5

LEMMA AppendInv ==
  ASSUME IInv, NEW w \in Workspaces, NEW p \in {Any} \cup Procs, Append(w, p)
  PROVE  IInv'
<1> USE StoreAssumption
<1>1. PICK e :
    /\ e = [id |-> Count + 1, workspace |-> w, process |-> p,
            sequence |-> IF p = Any THEN 0 ELSE NextSequence(p)]
    /\ written' = written \cup {e} /\ events' = events \cup {e} /\ e \notin written
    /\ e \in Events /\ e.sequence <= e.id
    /\ \A f \in written : f.id \in 1 .. Count /\ f.id < e.id
    /\ Count \in Nat /\ Count' = Count + 1 /\ Count + 1 <= MaxEvents
  BY AppendWrites
<1>2. /\ serving /\ w \notin discarded /\ (p \in Procs => Home[p] = w)
      /\ step' = Notified
      /\ UNCHANGED <<expired, discarded, waiters, shutting, serving, restarts, call, answer>>
  BY DEF Append, notifier
<1>3. /\ Waiting' = Waiting
      /\ \A r \in Readers : step'[r] = step[r] \/ (step[r] = "waiting" /\ step'[r] = "woken")
  BY <1>2, NotifiedWaits DEF IInv
<1>4. TypeOK'
  <2>1. events' \subseteq written' /\ written' \subseteq Events
    BY <1>1 DEF IInv, TypeOK
  <2>2. step' \in [Readers -> {"idle", "resolve", "check", "select", "enter", "waiting", "woken"}]
    BY <1>2 DEF IInv, TypeOK, Notified
  <2> QED BY <1>2, <2>1, <2>2 DEF IInv, TypeOK
<1>5. WrittenInv'
  <2>1. IsFiniteSet(written')
    BY <1>1, FS_AddElement DEF IInv, WrittenInv
  <2>2. Ids(written') = 1 .. Count + 1
    <3>1. Ids(written') = Ids(written) \cup {e.id}
      BY <1>1 DEF Ids
    <3>2. Ids(written) = 1 .. Count /\ e.id = Count + 1
      BY <1>1 DEF IInv, WrittenInv
    <3>3. \A n \in Nat : (1 .. n) \cup {n + 1} = 1 .. n + 1
      OBVIOUS
    <3>4. Count \in Nat
      BY <1>1
    <3> HIDE DEF Count
    <3> QED BY <3>1, <3>2, <3>3, <3>4
  <2>3. \A f, g \in written' : f.id = g.id => f = g
    BY <1>1 DEF IInv, WrittenInv
  <2>4. \A f \in written' : /\ f.process \in Procs => f.workspace = Home[f.process]
                            /\ f.sequence <= f.id
    BY <1>1, <1>2 DEF IInv, WrittenInv
  <2> QED BY <1>1, <2>1, <2>2, <2>3, <2>4 DEF WrittenInv, Ids
<1>6. RowsInv'
  <2>1. e.workspace = w /\ e.id = Count + 1
    BY <1>1
  <2>2. ASSUME NEW v \in Workspaces, v \notin discarded
        PROVE  /\ {f \in events' : f.workspace = v} =
                    {f \in written' : f.workspace = v /\ f.id > expired[v]}
               /\ expired[v] <= Count + 1
    <3>1. Of(v) = {f \in written : f.workspace = v /\ f.id > expired[v]} /\ expired[v] <= Count
      BY <2>2 DEF IInv, RowsInv
    <3>2. expired[v] \in Nat
      BY DEF IInv, TypeOK
    <3>3. e.id > expired[v]
      BY <1>1, <2>1, <3>1, <3>2
    <3> QED BY <1>1, <3>1, <3>2, <3>3 DEF Of
  <2>3. ASSUME NEW v \in discarded PROVE {f \in events' : f.workspace = v} = {}
    BY <1>1, <1>2, <2>1 DEF IInv, RowsInv, Of
  <2> QED BY <1>1, <1>2, <2>2, <2>3, AppendKeepsSequences DEF RowsInv, Of
<1>7. CallsInv'
  BY <1>2, <1>3 DEF IInv, CallsInv, Refused
<1>8. PagesInv'
  <2> SUFFICES ASSUME NEW r \in Readers, answer[r].kind \in {"page", "timed_out", "shutdown"}
               PROVE  /\ answer[r].ids = {i \in Ids(Matching(written', answer[r].from, answer[r].from.after)) :
                                            i <= answer[r].cursor}
                      /\ answer[r].cursor <= answer[r].from.after \/ answer[r].cursor <= Count + 1
    BY <1>1, <1>2 DEF PagesInv, Complete
  <2> DEFINE got == answer[r]
  <2>1. /\ got.ids = {i \in Ids(Matching(written, got.from, got.from.after)) : i <= got.cursor}
        /\ got.cursor <= got.from.after \/ got.cursor <= Count
        /\ got.cursor \in Nat /\ got.from.after \in Nat
    BY DEF IInv, PagesInv, Complete, TypeOK, Calls
  <2>2. e.id = Count + 1 /\ (e \in Matching(written', got.from, got.from.after) => ~ (e.id <= got.cursor))
    BY <1>1, <2>1 DEF Matching
  <2>3. Matching(written', got.from, got.from.after) \in
          {Matching(written, got.from, got.from.after),
           Matching(written, got.from, got.from.after) \cup {e}}
    BY <1>1 DEF Matching
  <2>4. {i \in Ids(Matching(written', got.from, got.from.after)) : i <= got.cursor} =
          {i \in Ids(Matching(written, got.from, got.from.after)) : i <= got.cursor}
    <3>1. CASE Matching(written', got.from, got.from.after) = Matching(written, got.from, got.from.after)
      BY <3>1
    <3>2. CASE Matching(written', got.from, got.from.after) =
                 Matching(written, got.from, got.from.after) \cup {e}
      <4>1. ~ (e.id <= got.cursor)
        BY <2>2, <3>2
      <4> QED BY <3>2, <4>1 DEF Ids
    <3> QED BY <2>3, <3>1, <3>2
  <2>5. got.cursor <= got.from.after \/ got.cursor <= Count + 1
    BY <1>1, <2>1
  <2> QED BY <2>1, <2>4, <2>5
<1>9. CountInv'
  BY <1>2, <1>3 DEF IInv, CountInv
<1> QED BY <1>4, <1>5, <1>6, <1>7, <1>8, <1>9 DEF IInv

(* A deletion that takes the oldest rows of each workspace leaves          *)
(* sequences without a gap.                                                *)
LEMMA DeletionKeepsSequences ==
  ASSUME TypeOK, WrittenInv, SequencesFollowIds, events' \subseteq events,
         \A e \in events', f \in events : f.workspace = e.workspace /\ f.id >= e.id => f \in events'
  PROVE  SequencesFollowIds'
<1> SUFFICES ASSUME NEW q \in Procs,
                    NEW f \in {h \in events' : h.process = q},
                    NEW g \in {h \in events' : h.process = q}, g.id > f.id
             PROVE  g.sequence - f.sequence =
                      Cardinality({h \in {k \in events' : k.process = q} : f.id < h.id /\ h.id <= g.id})
  BY DEF SequencesFollowIds
<1> DEFINE Between(E) == {h \in {k \in E : k.process = q} : f.id < h.id /\ h.id <= g.id}
<1>1. ASSUME NEW h \in Between(events) PROVE h \in events'
  <2>1. h \in written /\ f \in written /\ h.id \in Nat /\ f.id \in Nat
    BY StoreAssumption DEF TypeOK, Events
  <2>2. h.workspace = f.workspace
    BY <2>1 DEF WrittenInv
  <2> QED BY <2>1, <2>2
<1>2. Between(events') = Between(events)
  BY <1>1
<1>3. g.sequence - f.sequence = Cardinality(Between(events))
  BY DEF SequencesFollowIds
<1> QED BY <1>2, <1>3

(* Who only deletes leaves the answers and the ids as they are.            *)
LEMMA WrittenFrame ==
  ASSUME IInv, UNCHANGED written
  PROVE  /\ WrittenInv'
         /\ UNCHANGED answer => PagesInv'
<1>1. WrittenInv'
  BY DEF IInv, WrittenInv, Count, Ids
<1>2. ASSUME UNCHANGED answer PROVE PagesInv'
  BY <1>2 DEF IInv, PagesInv, Complete, Count, Ids, Matching
<1> QED BY <1>1, <1>2

LEMMA StoreFrame ==
  ASSUME IInv, UNCHANGED store
  PROVE  WrittenInv' /\ RowsInv'
BY WrittenFrame DEF IInv, RowsInv, store, Of, SequencesFollowIds, Count

LEMMA DiscardInv == ASSUME IInv, NEW w \in Workspaces, Discard(w) PROVE IInv'
<1> USE StoreAssumption
<1>1. /\ events' = events \ Of(w) /\ expired' = [expired EXCEPT ![w] = 0]
      /\ discarded' = discarded \cup {w}
      /\ UNCHANGED <<written, waiters, shutting, serving, restarts, step, call, answer>>
  BY DEF Discard, notifier, readers
<1>2. TypeOK'
  BY <1>1 DEF IInv, TypeOK
<1>3. WrittenInv' /\ PagesInv'
  BY <1>1, WrittenFrame
<1>4. SequencesFollowIds'
  <2>1. \A e \in events', f \in events : f.workspace = e.workspace /\ f.id >= e.id => f \in events'
    BY <1>1 DEF Of
  <2> QED BY <1>1, <2>1, DeletionKeepsSequences DEF IInv, RowsInv
<1>5. RowsInv'
  <2>1. ASSUME NEW v \in Workspaces, v \notin discarded'
        PROVE  /\ Of(v)' = {e \in written' : e.workspace = v /\ e.id > expired'[v]}
               /\ expired'[v] <= Count'
    <3>1. v # w /\ v \notin discarded /\ expired'[v] = expired[v]
      BY <1>1, <2>1 DEF IInv, TypeOK
    <3>2. Of(v)' = Of(v)
      BY <1>1, <3>1 DEF Of
    <3> QED BY <1>1, <3>1, <3>2 DEF IInv, RowsInv, Count
  <2>2. ASSUME NEW v \in discarded' PROVE Of(v)' = {}
    BY <1>1 DEF IInv, RowsInv, Of
  <2> QED BY <1>4, <2>1, <2>2 DEF RowsInv
<1>6. CallsInv'
  BY <1>1 DEF IInv, CallsInv, Refused, TypeOK, Calls
<1>7. CountInv'
  BY <1>1 DEF IInv, CountInv, Waiting
<1> QED BY <1>2, <1>3, <1>5, <1>6, <1>7 DEF IInv

LEMMA ShutdownInv == ASSUME IInv, Shutdown PROVE IInv'
<1>1. /\ serving /\ step' = Notified /\ shutting' = TRUE
      /\ UNCHANGED <<written, events, expired, discarded, waiters, serving, restarts, call, answer>>
  BY DEF Shutdown, store
<1>2. /\ Waiting' = Waiting
      /\ \A r \in Readers : step'[r] = step[r] \/ (step[r] = "waiting" /\ step'[r] = "woken")
  BY <1>1, NotifiedWaits DEF IInv
<1>3. TypeOK'
  <2>1. step' \in [Readers -> {"idle", "resolve", "check", "select", "enter", "waiting", "woken"}]
    BY <1>1 DEF IInv, TypeOK, Notified
  <2> QED BY <1>1, <2>1 DEF IInv, TypeOK
<1>4. WrittenInv' /\ RowsInv' /\ PagesInv'
  BY <1>1, WrittenFrame, StoreFrame DEF store
<1>5. CallsInv'
  BY <1>1, <1>2 DEF IInv, CallsInv, Refused
<1>6. CountInv'
  BY <1>1, <1>2 DEF IInv, CountInv
<1> QED BY <1>3, <1>4, <1>5, <1>6 DEF IInv

LEMMA RestartInv == ASSUME IInv, Restart PROVE IInv'
<1> USE StoreAssumption
<1>1. /\ serving' = FALSE /\ restarts' = restarts + 1 /\ restarts < MaxRestarts
      /\ waiters' = 0 /\ shutting' = FALSE
      /\ step' = [r \in Readers |-> "idle"] /\ call' = [r \in Readers |-> NoCall]
      /\ UNCHANGED <<written, events, expired, discarded, answer>>
  BY DEF Restart, store
<1>2. TypeOK'
  <2>1. call' \in [Readers -> Calls] /\ 0 \in 0 .. MaxWaiters /\ restarts' \in 0 .. MaxRestarts
    BY <1>1, NoCallTyped DEF IInv, TypeOK
  <2> QED BY <1>1, <2>1 DEF IInv, TypeOK
<1>3. WrittenInv' /\ RowsInv' /\ PagesInv'
  BY <1>1, WrittenFrame, StoreFrame DEF store
<1>4. CallsInv'
  BY <1>1 DEF CallsInv
<1>5. CountInv'
  <2>1. Waiting' = {}
    BY <1>1 DEF Waiting
  <2> QED BY <1>1, <2>1, FS_EmptySet DEF CountInv
<1> QED BY <1>2, <1>3, <1>4, <1>5 DEF IInv

LEMMA CleanupInv == ASSUME IInv, Cleanup PROVE IInv'
<1> USE StoreAssumption
<1>1. PICK aged \in 0 .. MaxEvents :
        /\ events' = {e \in events : e.id > ExpiredThrough(e.workspace, aged)}
        /\ expired' = [w \in Workspaces |-> Newest({expired[w], ExpiredThrough(w, aged)})]
  BY DEF Cleanup
<1>2. /\ ~ serving /\ serving' = TRUE
      /\ UNCHANGED <<written, discarded, waiters, shutting, restarts, step, call, answer>>
  BY DEF Cleanup, notifier, readers
<1>3. ASSUME NEW w \in Workspaces
      PROVE  /\ ExpiredThrough(w, aged) \in 0 .. MaxEvents /\ ExpiredThrough(w, aged) <= Count
             /\ Of(w) = {} => ExpiredThrough(w, aged) = 0
  <2> DEFINE S == Ids({e \in Of(w) : Cardinality({f \in Of(w) : f.id > e.id}) >= MaxKept}
                      \cup {e \in Of(w) : e.id <= aged})
  <2>1. ExpiredThrough(w, aged) = Newest(S)
    BY DEF ExpiredThrough
  <2>2. S \in SUBSET Ids(Of(w)) /\ Of(w) \in SUBSET written
    BY DEF Ids, Of, IInv, TypeOK
  <2>3. S \in SUBSET (0 .. MaxEvents) /\ S \in SUBSET (1 .. Count)
    <3>1. Ids(Of(w)) \in SUBSET (0 .. MaxEvents)
      BY <2>2, IdsTyped DEF IInv
    <3>2. Ids(Of(w)) \in SUBSET Ids(written)
      BY <2>2 DEF Ids
    <3> HIDE DEF S
    <3> QED BY <2>2, <3>1, <3>2 DEF IInv, WrittenInv
  <2>4. Of(w) = {} => S = {}
    BY DEF Ids
  <2>5. Count \in Nat
    BY FS_CardinalityType DEF IInv, WrittenInv, Count
  <2> HIDE DEF S
  <2>6. Newest(S) \in S \cup {0} /\ Newest(S) \in 0 .. MaxEvents
    BY <2>3, NewestIs
  <2> HIDE DEF Count
  <2> QED BY <2>1, <2>3, <2>4, <2>5, <2>6
<1>4. ASSUME NEW w \in Workspaces
      PROVE  /\ expired'[w] \in 0 .. MaxEvents
             /\ expired'[w] \in {0, expired[w], ExpiredThrough(w, aged)}
             /\ expired[w] <= expired'[w] /\ ExpiredThrough(w, aged) <= expired'[w]
  <2> DEFINE S == {expired[w], ExpiredThrough(w, aged)}
  <2>1. S \in SUBSET (0 .. MaxEvents)
    BY <1>3 DEF IInv, TypeOK
  <2>2. expired'[w] = Newest(S)
    BY <1>1
  <2>3. Newest(S) \in S \cup {0} /\ Newest(S) \in 0 .. MaxEvents /\ \A m \in S : m <= Newest(S)
    BY <2>1, NewestIs
  <2> QED BY <2>2, <2>3
<1>5. TypeOK'
  <2>1. expired' \in [Workspaces -> 0 .. MaxEvents]
    BY <1>1, <1>4
  <2> QED BY <1>1, <1>2, <2>1 DEF IInv, TypeOK
<1>6. WrittenInv' /\ PagesInv'
  BY <1>2, WrittenFrame
<1>7. SequencesFollowIds'
  <2>1. ASSUME NEW e \in events', NEW f \in events, f.workspace = e.workspace, f.id >= e.id
        PROVE  f \in events'
    <3>1. /\ e \in Events /\ f \in Events /\ e.id > ExpiredThrough(e.workspace, aged)
      BY <1>1 DEF IInv, TypeOK
    <3>2. ExpiredThrough(e.workspace, aged) \in 0 .. MaxEvents /\ e.id \in Nat /\ f.id \in Nat
      BY <1>3, <3>1 DEF Events
    <3>3. f.id > ExpiredThrough(f.workspace, aged)
      BY <2>1, <3>1, <3>2
    <3> QED BY <1>1, <3>3
  <2> QED BY <1>1, <2>1, DeletionKeepsSequences DEF IInv, RowsInv
<1>8. RowsInv'
  <2>1. ASSUME NEW v \in Workspaces, v \notin discarded
        PROVE  /\ Of(v)' = {e \in written : e.workspace = v /\ e.id > expired'[v]}
               /\ expired'[v] <= Count'
    <3>1. Of(v) = {e \in written : e.workspace = v /\ e.id > expired[v]} /\ expired[v] <= Count
      BY <2>1 DEF IInv, RowsInv
    <3>2. Of(v)' = {e \in Of(v) : e.id > ExpiredThrough(v, aged)}
      BY <1>1 DEF Of
    <3>3. /\ expired[v] \in Nat /\ ExpiredThrough(v, aged) \in Nat /\ expired'[v] \in Nat
          /\ \A e \in written : e.id \in Nat
      BY <1>3, <1>4 DEF IInv, TypeOK, Events
    <3>4. \A e \in written :
            e.id > expired'[v] <=> e.id > expired[v] /\ e.id > ExpiredThrough(v, aged)
      BY <1>4, <3>3
    <3>5. Count' = Count /\ 0 <= Count
      BY <1>2, FS_CardinalityType DEF Count, IInv, WrittenInv
    <3>6. expired'[v] <= Count'
      BY <1>3, <1>4, <3>1, <3>5
    <3>7. {e \in Of(v) : e.id > ExpiredThrough(v, aged)} =
            {e \in written : e.workspace = v /\ e.id > expired'[v]}
      BY <3>1, <3>4
    <3> QED BY <3>2, <3>6, <3>7
  <2>2. ASSUME NEW v \in discarded PROVE Of(v)' = {}
    BY <1>1 DEF IInv, RowsInv, Of
  <2> QED BY <1>2, <1>7, <2>1, <2>2 DEF RowsInv
<1>9. CallsInv'
  BY <1>2 DEF IInv, CallsInv
<1>10. CountInv'
  BY <1>2 DEF IInv, CountInv, Waiting
<1> QED BY <1>5, <1>6, <1>8, <1>9, <1>10 DEF IInv

-----------------------------------------------------------------------------
(* The readers.                                                            *)

AnswerRecords ==
  [kind : {"none", "page", "expired", "limited", "shutdown", "timed_out"},
   ids : SUBSET (1 .. MaxEvents), cursor : 0 .. MaxEvents, from : Calls]

(* A call moves on, and the store does not.                                *)
LEMMA MoveInv ==
  ASSUME IInv, serving, UNCHANGED <<store, shutting, serving, restarts>>,
         NEW r \in Readers, NEW c \in Calls, NEW ans \in AnswerRecords,
         NEW s \in {"idle", "resolve", "check", "select", "enter", "waiting", "woken"},
         step' = [step EXCEPT ![r] = s], call' = [call EXCEPT ![r] = c],
         answer' = [answer EXCEPT ![r] = ans],
         s \in {"select", "enter", "waiting", "woken"} => c.workspace \in discarded \/ ~ Refused(c),
         Complete(ans), waiters' \in 0 .. MaxWaiters, CountInv'
  PROVE  IInv'
<1>1. TypeOK'
  <2>1. step' \in [Readers -> {"idle", "resolve", "check", "select", "enter", "waiting", "woken"}]
    BY DEF IInv, TypeOK
  <2>2. call' \in [Readers -> Calls] /\ answer' \in [Readers -> AnswerRecords]
    BY DEF IInv, TypeOK, AnswerRecords
  <2> QED BY <2>1, <2>2 DEF IInv, TypeOK, store, AnswerRecords
<1>2. WrittenInv' /\ RowsInv'
  BY StoreFrame
<1>3. CallsInv'
  BY DEF IInv, CallsInv, TypeOK, store, Refused
<1>4. PagesInv'
  BY DEF IInv, PagesInv, TypeOK, store, Complete, Count, Ids, Matching
<1> QED BY <1>1, <1>2, <1>3, <1>4 DEF IInv

LEMMA ReadersTyped ==
  ASSUME IInv, NEW r \in Readers
  PROVE  /\ call[r] \in Calls /\ answer[r] \in AnswerRecords /\ Complete(answer[r])
         /\ step[r] # "idle" => serving
         /\ call' = call => call' = [call EXCEPT ![r] = call[r]]
         /\ answer' = answer => answer' = [answer EXCEPT ![r] = answer[r]]
BY DEF IInv, TypeOK, AnswerRecords, PagesInv, CallsInv

(* Nobody begins or ends to wait.                                          *)
LEMMA CountFrame ==
  ASSUME IInv, NEW r \in Readers, NEW s, step' = [step EXCEPT ![r] = s],
         step[r] \notin {"waiting", "woken"}, s \notin {"waiting", "woken"}, waiters' = waiters
  PROVE  waiters' \in 0 .. MaxWaiters /\ CountInv'
<1>1. Waiting' = Waiting
  BY DEF IInv, TypeOK, Waiting
<1> QED BY <1>1 DEF IInv, CountInv, TypeOK

LEMMA RequestInv == ASSUME IInv, NEW r \in Readers, Request(r) \/ RequestTail(r) PROVE IInv'
<1> USE StoreAssumption
<1>1. /\ serving /\ step[r] = "idle" /\ answer' = [answer EXCEPT ![r] = NoAnswer]
      /\ UNCHANGED <<store, waiters, shutting, serving, restarts>>
  BY DEF Request, RequestTail, notifier
<1>2. NoAnswer \in AnswerRecords /\ Complete(NoAnswer)
  BY NoCallTyped DEF NoAnswer, AnswerRecords, Complete
<1>3. PICK c \in Calls, s \in {"resolve", "check"} :
        call' = [call EXCEPT ![r] = c] /\ step' = [step EXCEPT ![r] = s]
  <2>1. CASE Request(r)
    <3>1. PICK w \in Workspaces \ discarded, n \in 0 .. Newest(Ids(written)) :
            \E p \in {Any} \cup {q \in Procs : Home[q] = w} :
              call' = [call EXCEPT ![r] = [workspace |-> w, process |-> p, after |-> n]]
      BY <2>1 DEF Request
    <3>2. PICK p \in {Any} \cup Procs :
            call' = [call EXCEPT ![r] = [workspace |-> w, process |-> p, after |-> n]]
      BY <3>1
    <3>3. Newest(Ids(written)) \in 0 .. MaxEvents
      BY IdsTyped, NewestIs DEF IInv
    <3>4. [workspace |-> w, process |-> p, after |-> n] \in Calls
      BY <3>3 DEF Calls
    <3> QED BY <2>1, <3>2, <3>4 DEF Request
  <2>2. CASE RequestTail(r)
    <3>1. PICK w \in Workspaces \ discarded, p \in {Any} \cup Procs :
            call' = [call EXCEPT ![r] = [workspace |-> w, process |-> p, after |-> 0]]
      BY <2>2 DEF RequestTail
    <3>2. [workspace |-> w, process |-> p, after |-> 0] \in Calls
      BY DEF Calls
    <3> QED BY <2>2, <3>1, <3>2 DEF RequestTail
  <2> QED BY <2>1, <2>2
<1>4. waiters' \in 0 .. MaxWaiters /\ CountInv'
  BY <1>1, <1>3, CountFrame
<1> QED BY <1>1, <1>2, <1>3, <1>4, MoveInv

LEMMA ResolveInv == ASSUME IInv, NEW r \in Readers, Resolve(r) PROVE IInv'
<1> DEFINE tail == Newest(Ids(Of(call[r].workspace)))
           c == [call[r] EXCEPT !.after = tail]
<1>1. /\ step[r] = "resolve" /\ step' = [step EXCEPT ![r] = "check"]
      /\ call' = [call EXCEPT ![r].after = tail]
      /\ UNCHANGED <<store, waiters, shutting, serving, restarts, answer>>
  BY DEF Resolve, notifier
<1>2. tail \in 0 .. MaxEvents
  <2>1. Of(call[r].workspace) \in SUBSET written
    BY DEF Of, IInv, TypeOK
  <2> QED BY <2>1, IdsTyped, NewestIs DEF IInv
<1> HIDE DEF tail
<1>3. c \in Calls /\ call' = [call EXCEPT ![r] = c]
  BY <1>1, <1>2, ReadersTyped DEF Calls, IInv, TypeOK
<1>4. waiters' \in 0 .. MaxWaiters /\ CountInv'
  BY <1>1, CountFrame
<1> HIDE DEF c
<1> QED BY <1>1, <1>3, <1>4, ReadersTyped, MoveInv

(* A call returns.                                                         *)
LEMMA ReturnInv ==
  ASSUME IInv, serving, UNCHANGED <<store, shutting, serving, restarts>>,
         NEW r \in Readers, NEW ans \in AnswerRecords, Complete(ans), Return(r, ans),
         waiters' \in 0 .. MaxWaiters, CountInv'
  PROVE  IInv'
BY NoCallTyped, MoveInv DEF Return

LEMMA CheckRetentionInv == ASSUME IInv, NEW r \in Readers, CheckRetention(r) PROVE IInv'
<1>1. step[r] = "check" /\ UNCHANGED <<store, waiters, shutting, serving, restarts>>
  BY DEF CheckRetention, notifier
<1>2. CASE Refused(call[r])
  <2> DEFINE ans == Answer("expired", call[r], {})
  <2>1. Return(r, ans)
    BY <1>2 DEF CheckRetention
  <2>2. ans \in AnswerRecords /\ Complete(ans)
    BY ReadersTyped, AnswerTyped, EmptyIsComplete DEF IInv, AnswerRecords
  <2> HIDE DEF ans
  <2>3. waiters' \in 0 .. MaxWaiters /\ CountInv'
    BY <1>1, <2>1, CountFrame DEF Return
  <2> QED BY <1>1, <2>1, <2>2, <2>3, ReadersTyped, ReturnInv
<1>3. CASE ~ Refused(call[r])
  <2>1. step' = [step EXCEPT ![r] = "select"] /\ UNCHANGED <<call, answer>>
    BY <1>3 DEF CheckRetention
  <2>2. waiters' \in 0 .. MaxWaiters /\ CountInv'
    BY <1>1, <2>1, CountFrame
  <2> QED BY <1>1, <1>3, <2>1, <2>2, ReadersTyped, MoveInv
<1> QED BY <1>2, <1>3

LEMMA SelectInv == ASSUME IInv, NEW r \in Readers, Select(r) PROVE IInv'
<1>1. step[r] = "select" /\ UNCHANGED <<store, waiters, shutting, serving, restarts>>
  BY DEF Select, notifier
<1>2. call[r].workspace \in discarded \/ ~ Refused(call[r])
  BY <1>1 DEF IInv, CallsInv
<1>3. CASE Return(r, Answer("page", call[r], Page(call[r])))
  <2> DEFINE ans == Answer("page", call[r], Page(call[r]))
  <2>1. Page(call[r]) \in SUBSET events
    BY DEF Page, Matching
  <2>2. ans \in AnswerRecords /\ Complete(ans)
    BY <1>2, <2>1, ReadersTyped, AnswerTyped, PageIsComplete DEF IInv, AnswerRecords
  <2> HIDE DEF ans
  <2>3. waiters' \in 0 .. MaxWaiters /\ CountInv'
    BY <1>1, <1>3, CountFrame DEF Return
  <2> QED BY <1>1, <1>3, <2>2, <2>3, ReadersTyped, ReturnInv DEF ans
<1>4. CASE step' = [step EXCEPT ![r] = "enter"] /\ UNCHANGED <<call, answer>>
  <2>1. waiters' \in 0 .. MaxWaiters /\ CountInv'
    BY <1>1, <1>4, CountFrame
  <2> QED BY <1>1, <1>2, <1>4, <2>1, ReadersTyped, MoveInv
<1> QED BY <1>3, <1>4 DEF Select

(* One turn of the loop of wait_after, of a call that is counted already   *)
(* or may still be.                                                        *)
LEMMA LookInv ==
  ASSUME IInv, NEW r \in Readers, NEW late \in BOOLEAN, NEW others \in Int,
         \/ step[r] = "enter" /\ others = waiters /\ waiters < MaxWaiters
         \/ step[r] \in {"waiting", "woken"} /\ others = waiters - 1,
         Look(r, others, late)
  PROVE  IInv'
<1> USE StoreAssumption
<1> DEFINE c == call[r]  v == Verdict(c, late)
           ans == Answer(v, c, IF v = "page" THEN Page(c) ELSE {})
<1>1. step[r] \in {"enter", "waiting", "woken"} /\ UNCHANGED <<store, shutting, serving, restarts>>
  BY DEF Look
<1>2. c \in Calls /\ (c.workspace \in discarded \/ ~ Refused(c)) /\ serving
  BY <1>1, ReadersTyped DEF IInv, CallsInv
<1>3. /\ IsFiniteSet(Waiting) /\ Cardinality(Waiting) = waiters /\ waiters \in 0 .. MaxWaiters
      /\ step \in [Readers -> {"idle", "resolve", "check", "select", "enter", "waiting", "woken"}]
  BY DEF IInv, CountInv, TypeOK
<1>4. /\ IsFiniteSet(Waiting \cup {r}) /\ Cardinality(Waiting \cup {r}) = others + 1
      /\ IsFiniteSet(Waiting \ {r}) /\ Cardinality(Waiting \ {r}) = others
      /\ others \in 0 .. MaxWaiters /\ others + 1 \in 0 .. MaxWaiters
  <2>1. CASE step[r] = "enter" /\ others = waiters /\ waiters < MaxWaiters
    <3>1. r \notin Waiting /\ Waiting \ {r} = Waiting
      BY <2>1 DEF Waiting
    <3>2. /\ IsFiniteSet(Waiting \cup {r})
          /\ Cardinality(Waiting \cup {r}) = Cardinality(Waiting) + 1
      BY <1>3, <3>1, FS_AddElement
    <3>3. waiters \in 0 .. MaxWaiters /\ waiters + 1 \in 0 .. MaxWaiters
      BY <1>3, <2>1
    <3> QED BY <1>3, <2>1, <3>1, <3>2, <3>3
  <2>2. CASE step[r] \in {"waiting", "woken"} /\ others = waiters - 1
    <3>1. r \in Waiting /\ Waiting \cup {r} = Waiting
      BY <2>2 DEF Waiting
    <3>2. IsFiniteSet(Waiting \ {r}) /\ Cardinality(Waiting \ {r}) = waiters - 1
      BY <1>3, <3>1, FS_RemoveElement
    <3>3. waiters - 1 \in Nat
      BY <3>2, FS_CardinalityType
    <3>4. others \in 0 .. MaxWaiters /\ others + 1 = waiters
      BY <1>3, <2>2, <3>3
    <3> QED BY <1>3, <2>2, <3>1, <3>2, <3>4
  <2> QED BY <2>1, <2>2
<1>5. CASE v = "wait"
  <2>1. /\ step' = [step EXCEPT ![r] = "waiting"] /\ waiters' = others + 1
        /\ UNCHANGED <<call, answer>>
    BY <1>5 DEF Look
  <2>2. Waiting' = Waiting \cup {r}
    BY <1>3, <2>1 DEF Waiting
  <2>3. waiters' \in 0 .. MaxWaiters /\ CountInv'
    BY <1>4, <2>1, <2>2 DEF CountInv
  <2> QED BY <1>1, <1>2, <2>1, <2>3, ReadersTyped, MoveInv
<1>6. CASE v # "wait"
  <2>1. Return(r, ans) /\ waiters' = others
    BY <1>6 DEF Look
  <2>2. v \in {"page", "expired", "shutdown", "timed_out"}
    BY <1>6 DEF Verdict
  <2>3. Page(c) \in SUBSET events
    BY DEF Page, Matching
  <2>4. ans \in AnswerRecords
    BY <1>2, <2>2, <2>3, AnswerTyped DEF IInv, AnswerRecords
  <2>5. Complete(ans)
    BY <1>2, <2>2, EmptyIsComplete, PageIsComplete DEF IInv
  <2> HIDE DEF ans
  <2>6. Waiting' = Waiting \ {r}
    BY <1>3, <2>1 DEF Waiting, Return
  <2>7. waiters' \in 0 .. MaxWaiters /\ CountInv'
    BY <1>4, <2>1, <2>6 DEF CountInv
  <2> QED BY <1>1, <1>2, <2>1, <2>4, <2>5, <2>7, ReturnInv
<1> QED BY <1>5, <1>6

LEMMA EnterInv == ASSUME IInv, NEW r \in Readers, Enter(r) PROVE IInv'
<1>1. step[r] = "enter"
  BY DEF Enter
<1>2. CASE waiters >= MaxWaiters
  <2> DEFINE ans == Answer("limited", call[r], {})
  <2>1. Return(r, ans) /\ UNCHANGED <<store, waiters, shutting, serving, restarts>>
    BY <1>2 DEF Enter, notifier
  <2>2. ans \in AnswerRecords /\ Complete(ans)
    BY ReadersTyped, AnswerTyped, EmptyIsComplete DEF IInv, AnswerRecords
  <2> HIDE DEF ans
  <2>3. waiters' \in 0 .. MaxWaiters /\ CountInv'
    BY <1>1, <2>1, CountFrame DEF Return
  <2> QED BY <1>1, <2>1, <2>2, <2>3, ReadersTyped, ReturnInv
<1>3. CASE ~ (waiters >= MaxWaiters)
  <2>1. PICK late \in BOOLEAN : Look(r, waiters, late)
    BY <1>3 DEF Enter
  <2>2. waiters \in Int /\ waiters < MaxWaiters
    BY <1>3, StoreAssumption DEF IInv, TypeOK
  <2> QED BY <1>1, <2>1, <2>2, LookInv
<1> QED BY <1>2, <1>3

LEMMA WakeInv == ASSUME IInv, NEW r \in Readers, Wake(r) \/ Timeout(r) PROVE IInv'
<1>1. PICK late \in BOOLEAN : step[r] \in {"waiting", "woken"} /\ Look(r, waiters - 1, late)
  BY DEF Wake, Timeout
<1>2. waiters - 1 \in Int
  BY StoreAssumption DEF IInv, TypeOK
<1> QED BY <1>1, <1>2, LookInv

-----------------------------------------------------------------------------

LEMMA StepInv == IInv /\ [Next]_vars => IInv'
<1> SUFFICES ASSUME IInv, [Next]_vars PROVE IInv'
  OBVIOUS
<1>1. ASSUME NEW w \in Workspaces, NEW p \in {Any} \cup Procs, Append(w, p) PROVE IInv'
  BY <1>1, AppendInv
<1>2. ASSUME NEW w \in Workspaces, Discard(w) PROVE IInv'
  BY <1>2, DiscardInv
<1>3. CASE Shutdown \/ Restart \/ Cleanup
  BY <1>3, ShutdownInv, RestartInv, CleanupInv
<1>4. ASSUME NEW r \in Readers, Request(r) \/ RequestTail(r) \/ ReadStep(r) \/ Timeout(r)
      PROVE  IInv'
  BY <1>4, RequestInv, ResolveInv, CheckRetentionInv, SelectInv, EnterInv, WakeInv DEF ReadStep
<1>5. CASE UNCHANGED vars
  <2>1. WrittenInv' /\ RowsInv' /\ PagesInv'
    BY <1>5, WrittenFrame, StoreFrame DEF vars, store, readers
  <2>2. TypeOK'
    BY <1>5 DEF IInv, TypeOK, vars, store, notifier, readers
  <2>3. CallsInv' /\ CountInv'
    BY <1>5 DEF IInv, CallsInv, CountInv, Waiting, Refused, vars, store, notifier, readers
  <2> QED BY <2>1, <2>2, <2>3 DEF IInv
<1> QED BY <1>1, <1>2, <1>3, <1>4, <1>5 DEF Next

LEMMA InvImplies == IInv => PagesAreComplete /\ RetentionIsExact /\ WaitersAreCounted
BY DEF IInv, PagesInv, Complete, PagesAreComplete, RowsInv, RetentionIsExact,
       CountInv, Waiting, WaitersAreCounted

LEMMA Invariance == Spec => []IInv
BY InitInv, StepInv, PTL DEF Spec

(* Every page of list_after and wait_after holds all events between the    *)
(* cursor it was asked for and the one it returns.                         *)
THEOREM PagesStayComplete == Spec => []PagesAreComplete
BY Invariance, InvImplies, PTL

(* expired_through is the watermark of what cleanup deleted, and the       *)
(* sequences of a process (_insert_locked) have no gap and no double.      *)
THEOREM RetentionStaysExact == Spec => []RetentionIsExact
BY Invariance, InvImplies, PTL

(* The count against which wait_after tests max_waiters is exact.          *)
THEOREM WaitersStayCounted == Spec => []WaitersAreCounted
BY Invariance, InvImplies, PTL

-----------------------------------------------------------------------------
(* An answer that says that nothing is there is true when it is given.     *)

LEMMA EmptyAnswer ==
  ASSUME IInv, NEW c \in Calls, Ids(Page(c)) = {}
  PROVE  Matching(events, c, c.after) = {}
<1>1. Page(c) = {}
  BY DEF Ids
<1> QED BY <1>1, PageIsPrefix DEF IInv, WrittenInv

LEMMA LookTells ==
  ASSUME IInv, NEW r \in Readers, NEW late \in BOOLEAN, NEW others, Look(r, others, late),
         answer'[r] # answer[r], answer'[r].ids = {},
         answer'[r].kind \in {"page", "timed_out", "shutdown"}
  PROVE  Matching(events, call[r], call[r].after) = {}
<1> DEFINE c == call[r]  v == Verdict(c, late)
           ans == Answer(v, c, IF v = "page" THEN Page(c) ELSE {})
<1>1. v # "wait" /\ answer' = [answer EXCEPT ![r] = ans]
  BY DEF Look, Return
<1>2. answer'[r] = ans
  BY <1>1 DEF IInv, TypeOK
<1>3. ans.kind = v /\ ans.ids = Ids(IF v = "page" THEN Page(c) ELSE {})
  BY DEF Answer
<1>4. Ids(Page(c)) = {}
  <2>1. CASE v = "page"
    BY <1>2, <1>3, <2>1
  <2>2. CASE v # "page"
    <3>1. v \in {"timed_out", "shutdown"}
      BY <1>2, <1>3, <2>2
    <3>2. Page(c) = {}
      BY <3>1 DEF Verdict
    <3> QED BY <3>2 DEF Ids
  <2> QED BY <2>1, <2>2
<1> QED BY <1>4, EmptyAnswer, ReadersTyped

LEMMA StepTells ==
  ASSUME IInv, [Next]_vars, NEW r \in Readers,
         answer'[r] # answer[r], answer'[r].ids = {},
         answer'[r].kind \in {"page", "timed_out", "shutdown"}
  PROVE  Matching(events, call[r], call[r].after) = {}
<1>1. PICK q \in Readers : Request(q) \/ RequestTail(q) \/ ReadStep(q) \/ Timeout(q)
  BY DEF Next, vars, readers, Append, Discard, Shutdown, Restart, Cleanup
<1>2. answer \in [Readers -> AnswerRecords]
  BY DEF IInv, TypeOK, AnswerRecords
<1>3. q = r
  BY <1>1, <1>2 DEF Request, RequestTail, ReadStep, Resolve, CheckRetention, Select, Enter, Wake,
       Timeout, Look, Return
<1>4. CASE Request(r) \/ RequestTail(r) \/ Resolve(r)
  BY <1>2, <1>4 DEF Request, RequestTail, Resolve, NoAnswer
<1>5. CASE CheckRetention(r)
  BY <1>2, <1>5 DEF CheckRetention, Return, Answer
<1>6. CASE Select(r)
  <2>1. answer'[r] = Answer("page", call[r], Page(call[r]))
    BY <1>2, <1>6 DEF Select, Return
  <2>2. Ids(Page(call[r])) = {}
    BY <2>1 DEF Answer
  <2> QED BY <2>2, EmptyAnswer, ReadersTyped
<1>7. CASE Enter(r)
  <2>1. CASE waiters >= MaxWaiters
    BY <1>2, <1>7, <2>1 DEF Enter, Return, Answer
  <2>2. CASE ~ (waiters >= MaxWaiters)
    BY <1>7, <2>2, LookTells DEF Enter
  <2> QED BY <2>1, <2>2
<1>8. CASE Wake(r) \/ Timeout(r)
  BY <1>8, LookTells DEF Wake, Timeout
<1> QED BY <1>1, <1>3, <1>4, <1>5, <1>6, <1>7, <1>8 DEF ReadStep

(* "timed_out", "shutdown" and an empty page are never told while an       *)
(* event the client asks for is there (wait_after).                        *)
THEOREM EmptyAnswersStayTrue == Spec => EmptyAnswersAreTrue
<1>1. IInv /\ [Next]_vars =>
        [\A r \in Readers :
           answer'[r] # answer[r] /\ answer'[r].ids = {}
             /\ answer'[r].kind \in {"page", "timed_out", "shutdown"}
           => Matching(events, call[r], call[r].after) = {}]_vars
  BY StepTells
<1> QED BY <1>1, Invariance, PTL DEF Spec, EmptyAnswersAreTrue

-----------------------------------------------------------------------------
(* The store behaves as the log of EventLog.                               *)

(* A discarded workspace has no watermark: nothing is refused in it.       *)
GoneInv == \A w \in discarded : expired[w] = 0

SeenAs(s) == IF s = "idle" THEN "idle" ELSE IF s = "resolve" THEN "tail" ELSE "asked"

LEMMA StageOf == \A r \in Readers : Stage[r] = SeenAs(step[r])
BY DEF Stage, SeenAs

LEMMA StageMoves ==
  ASSUME TypeOK, NEW r \in Readers, NEW s, step' = [step EXCEPT ![r] = s]
  PROVE  Stage' = [Stage EXCEPT ![r] = SeenAs(s)]
<1>1. \A q \in Readers : Stage'[q] = IF q = r THEN SeenAs(s) ELSE Stage[q]
  BY DEF Stage, SeenAs, TypeOK
<1> QED BY <1>1 DEF Stage

LEMMA SeenMoves ==
  /\ SeenAs("idle") = "idle" /\ SeenAs("resolve") = "tail"
  /\ \A s \in {"check", "select", "enter", "waiting", "woken"} : SeenAs(s) = "asked"
BY DEF SeenAs

LEMMA NotifiedSeen == ASSUME TypeOK, step' = Notified PROVE Stage' = Stage
<1>1. \A r \in Readers : Stage'[r] = Stage[r]
  BY DEF TypeOK, Notified, Stage
<1> QED BY <1>1 DEF Stage

(* The rows are the part of the log that is kept.                          *)
LEMMA RowsAreKept ==
  ASSUME IInv
  PROVE  \A w \in Workspaces : Log!Kept(w) = Of(w)
BY DEF IInv, RowsInv, Log!Kept

LEMMA SameCardinality == \A S : Log!Cardinality(S) = Cardinality(S)
BY DEF Log!Cardinality, Cardinality

LEMMA PageIsNext ==
  ASSUME IInv, NEW c \in Calls
  PROVE  /\ Log!Behind(c) = Matching(events, c, c.after)
         /\ Log!Page(c) = Page(c) /\ Page(c) \subseteq Log!Behind(c)
         /\ Page(c) = {} <=> Log!Behind(c) = {}
<1>1. c.workspace \in Workspaces
  BY DEF Calls
<1>2. Log!Behind(c) = Matching(events, c, c.after)
  BY <1>1, RowsAreKept DEF Log!Behind, Matching, Of
<1>3. Log!Page(c) = Page(c)
  <2> DEFINE rows == Matching(events, c, c.after)
  <2>1. Log!Page(c) = {e \in rows : Log!Cardinality({f \in rows : f.id < e.id}) < PageSize}
    BY <1>2, Zenon DEF Log!Page
  <2> HIDE DEF rows
  <2>2. Log!Page(c) = {e \in rows : Cardinality({f \in rows : f.id < e.id}) < PageSize}
    BY <2>1, SameCardinality
  <2> QED BY <2>2, Zenon DEF Page, rows
<1>4. Page(c) \subseteq Matching(events, c, c.after)
  BY DEF Page
<1>5. Page(c) = {} => Matching(events, c, c.after) = {}
  BY PageIsPrefix DEF IInv, WrittenInv
<1> QED BY <1>2, <1>3, <1>4, <1>5

LEMMA SameNewest == \A S : Log!Newest(S) = Newest(S)
BY DEF Log!Newest, Newest

LEMMA SameIds == \A E : Log!Ids(E) = Ids(E)
BY DEF Log!Ids, Ids

LEMMA AppendSeen ==
  ASSUME IInv, NEW w \in Workspaces, NEW p \in {Any} \cup Procs, Append(w, p)
  PROVE  Log!Append(w, p)
<1> DEFINE own == {e \in Log!Kept(w) : e.process = p}
           sequence == IF p = Any THEN 0 ELSE Newest({e.sequence : e \in own}) + 1
<1>1. /\ w \notin discarded /\ (p \in Procs => Home[p] = w)
      /\ UNCHANGED <<expired, discarded, call, answer>> /\ step' = Notified
  BY DEF Append
<1>2. p # Any => sequence = NextSequence(p)
  <2> SUFFICES ASSUME p # Any PROVE own = {f \in events : f.process = p}
    BY DEF NextSequence
  <2>1. p \in Procs /\ Home[p] = w
    BY <1>1
  <2>2. \A f \in events : f.process = p => f.workspace = w
    BY <2>1 DEF IInv, TypeOK, WrittenInv
  <2> QED BY <2>2, RowsAreKept DEF Of
<1>3. written' = written \cup {[id |-> Newest(Ids(written)) + 1, workspace |-> w, process |-> p,
                               sequence |-> sequence]}
  BY <1>2 DEF Append
<1>4. Stage' = Stage
  BY <1>1, NotifiedSeen DEF IInv
<1> QED BY <1>1, <1>3, <1>4, SameNewest, SameIds DEF Log!Append, Log!readers

LEMMA CleanupSeen ==
  ASSUME IInv, GoneInv, Cleanup
  PROVE  Log!Forget /\ GoneInv'
<1>1. /\ \A r \in Readers : step[r] = "idle"
      /\ UNCHANGED <<written, discarded, step, call, answer>>
  BY DEF Cleanup, IInv, CallsInv, readers
<1>2. PICK aged \in 0 .. MaxEvents :
        expired' = [w \in Workspaces |-> Newest({expired[w], ExpiredThrough(w, aged)})]
  BY DEF Cleanup
<1>3. ASSUME NEW w \in Workspaces
      PROVE  /\ expired'[w] \in 0 .. Newest(Ids(written)) /\ expired'[w] >= expired[w]
             /\ w \in discarded => expired'[w] = 0
  <2> DEFINE through == ExpiredThrough(w, aged)
             excess == {e \in Of(w) : Cardinality({f \in Of(w) : f.id > e.id}) >= MaxKept}
             old == {e \in Of(w) : e.id <= aged}
  <2>1. through = Newest(Ids(excess \cup old)) /\ excess \cup old \in SUBSET written
    BY DEF ExpiredThrough, Of, IInv, TypeOK
  <2>2. Ids(excess \cup old) \in SUBSET (0 .. MaxEvents)
    BY <2>1, IdsTyped DEF IInv
  <2>3. /\ through \in 0 .. MaxEvents /\ expired[w] \in 0 .. MaxEvents
        /\ through \in Ids(excess \cup old) \cup {0}
    BY <2>1, <2>2, NewestIs DEF IInv, TypeOK
  <2>4. expired'[w] = Newest({expired[w], through})
    BY <1>2
  <2>5. w \in discarded => through = 0 /\ expired[w] = 0
    BY <2>3 DEF IInv, RowsInv, GoneInv, Ids
  <2> HIDE DEF through
  <2>6. {expired[w], through} \in SUBSET (0 .. MaxEvents)
    BY <2>3
  <2>7. /\ expired'[w] \in {expired[w], through} \cup {0} /\ expired'[w] \in 0 .. MaxEvents
        /\ expired[w] <= expired'[w]
    BY <2>4, <2>6, NewestIs
  <2>8. /\ through \in Ids(written) \cup {0}
        /\ expired[w] <= Newest(Ids(written)) /\ Newest(Ids(written)) \in Nat
        /\ \A n \in Ids(written) : n <= Newest(Ids(written))
    <3>1. Ids(written) \in SUBSET (0 .. MaxEvents)
      BY IdsTyped DEF IInv
    <3>2. /\ Newest(Ids(written)) \in 0 .. MaxEvents
          /\ \A n \in Ids(written) : n <= Newest(Ids(written))
      BY <3>1, NewestIs
    <3>3. Count \in Nat /\ Ids(written) = 1 .. Count
      BY FS_CardinalityType DEF IInv, WrittenInv, Count
    <3>4. Count <= Newest(Ids(written))
      <4>1. Newest(Ids(written)) \in Nat
        BY <3>2, StoreAssumption
      <4>2. Count = 0 \/ Count \in Ids(written)
        BY <3>3
      <4> QED BY <3>2, <3>3, <4>1, <4>2
    <3>5. expired[w] = 0 \/ expired[w] <= Count
      BY DEF IInv, RowsInv, GoneInv
    <3>6. through \in Ids(written) \cup {0}
      BY <2>1, <2>3 DEF Ids
    <3> QED BY <2>3, <3>2, <3>3, <3>4, <3>5, <3>6, StoreAssumption
  <2> QED BY <2>3, <2>5, <2>7, <2>8, StoreAssumption
<1>4. expired' \in [Workspaces -> 0 .. Newest(Ids(written))]
  BY <1>2, <1>3
<1>5. \A r \in Readers : Stage[r] = "idle"
  BY <1>1, StageOf DEF SeenAs
<1>6. Stage' = Stage
  BY <1>1 DEF Stage
<1>7. Log!Forget
  BY <1>1, <1>3, <1>4, <1>5, <1>6, SameNewest, SameIds DEF Log!Forget, Log!readers
<1>8. GoneInv'
  BY <1>1, <1>3 DEF GoneInv, IInv, TypeOK
<1> QED BY <1>7, <1>8

LEMMA ServerSeen ==
  ASSUME IInv
  PROVE  /\ \A w \in Workspaces : Discard(w) => Log!Discard(w)
         /\ Restart => Log!Restart
         /\ Shutdown => UNCHANGED <<written, expired, discarded, Stage, call, answer>>
<1>1. ASSUME NEW w \in Workspaces, Discard(w) PROVE Log!Discard(w)
  BY <1>1 DEF Discard, Log!Discard, Log!readers, readers, Stage
<1>2. ASSUME Restart PROVE Log!Restart
  <2>1. step' = [r \in Readers |-> "idle"] /\ call' = [r \in Readers |-> NoCall]
        /\ UNCHANGED <<written, expired, discarded, answer>>
    BY <1>2 DEF Restart, store
  <2>2. Stage' = [r \in Readers |-> "idle"]
    BY <2>1 DEF Stage
  <2> QED BY <2>1, <2>2 DEF Log!Restart
<1>3. ASSUME Shutdown PROVE UNCHANGED <<written, expired, discarded, Stage, call, answer>>
  BY <1>3, NotifiedSeen DEF Shutdown, store, IInv
<1> QED BY <1>1, <1>2, <1>3

LEMMA AskSeen ==
  ASSUME IInv, NEW r \in Readers, Request(r) \/ RequestTail(r)
  PROVE  Log!Ask(r)
<1>1. /\ Stage[r] = "idle" /\ UNCHANGED <<written, expired, discarded>>
      /\ answer' = [answer EXCEPT ![r] = NoAnswer]
  BY StageOf DEF Request, RequestTail, store, SeenAs
<1>2. CASE Request(r)
  <2>1. PICK w \in Workspaces \ discarded, n \in 0 .. Newest(Ids(written)) :
          \E p \in {Any} \cup {q \in Procs : Home[q] = w} :
            call' = [call EXCEPT ![r] = [workspace |-> w, process |-> p, after |-> n]]
    BY <1>2 DEF Request
  <2>2. PICK p \in {Any} \cup {q \in Procs : Home[q] = w} :
          call' = [call EXCEPT ![r] = [workspace |-> w, process |-> p, after |-> n]]
    BY <2>1
  <2>3. Stage' = [Stage EXCEPT ![r] = "asked"]
    <3>1. step' = [step EXCEPT ![r] = "check"]
      BY <1>2 DEF Request
    <3>2. Stage' = [Stage EXCEPT ![r] = SeenAs("check")]
      BY <3>1, StageMoves DEF IInv
    <3> QED BY <3>2, SeenMoves
  <2>4. p \in {Any} \cup Procs /\ (p \in Procs => Home[p] = w)
    BY StoreAssumption
  <2> QED BY <1>1, <2>2, <2>3, <2>4, SameNewest, SameIds DEF Log!Ask
<1>3. CASE RequestTail(r)
  <2>1. PICK w \in Workspaces \ discarded :
          \E p \in {Any} \cup {q \in Procs : Home[q] = w} :
            call' = [call EXCEPT ![r] = [workspace |-> w, process |-> p, after |-> 0]]
    BY <1>3 DEF RequestTail
  <2>2. PICK p \in {Any} \cup {q \in Procs : Home[q] = w} :
          call' = [call EXCEPT ![r] = [workspace |-> w, process |-> p, after |-> 0]]
    BY <2>1
  <2>3. Stage' = [Stage EXCEPT ![r] = "tail"]
    <3>1. step' = [step EXCEPT ![r] = "resolve"]
      BY <1>3 DEF RequestTail
    <3>2. Stage' = [Stage EXCEPT ![r] = SeenAs("resolve")]
      BY <3>1, StageMoves DEF IInv
    <3> QED BY <3>2, SeenMoves
  <2>4. p \in {Any} \cup Procs /\ (p \in Procs => Home[p] = w)
    BY StoreAssumption
  <2> QED BY <1>1, <2>2, <2>3, <2>4 DEF Log!Ask
<1> QED BY <1>2, <1>3

LEMMA ResolveSeen ==
  ASSUME IInv, NEW r \in Readers, Resolve(r)
  PROVE  Log!Begin(r)
<1>1. call[r].workspace \in Workspaces
  BY DEF IInv, TypeOK, Calls
<1>2. Stage[r] = "tail" /\ Stage' = [Stage EXCEPT ![r] = "asked"]
  <2>1. step[r] = "resolve" /\ step' = [step EXCEPT ![r] = "check"]
    BY DEF Resolve
  <2>2. Stage[r] = SeenAs("resolve") /\ Stage' = [Stage EXCEPT ![r] = SeenAs("check")]
    BY <2>1, StageOf, StageMoves DEF IInv
  <2> QED BY <2>2, SeenMoves
<1>3. Newest(Ids(Of(call[r].workspace))) = Log!Newest(Log!Ids(Log!Kept(call[r].workspace)))
  BY <1>1, RowsAreKept, SameNewest, SameIds
<1> QED BY <1>2, <1>3 DEF Resolve, Log!Begin, store

(* A call that is answered.                                                *)
LEMMA AnswerSeen ==
  ASSUME IInv, NEW r \in Readers, UNCHANGED <<written, expired, discarded>>,
         step[r] \notin {"idle", "resolve"},
         NEW kind, NEW E, Return(r, Answer(kind, call[r], E)),
         \/ kind = "expired" /\ Refused(call[r]) /\ E = {}
         \/ kind = "page" /\ ~ Refused(call[r]) /\ E = Page(call[r])
         \/ /\ kind \in {"timed_out", "shutdown"} /\ ~ Refused(call[r])
            /\ E = {} /\ Page(call[r]) = {}
         \/ kind = "limited" /\ E = {}
  PROVE  Log!Answer(r)
<1> DEFINE c == call[r]
           Told(k, ids, cursor) == [kind |-> k, ids |-> ids, from |-> c, cursor |-> cursor]
<1>1. c \in Calls
  BY ReadersTyped
<1>2. /\ Stage[r] = "asked" /\ Stage' = [Stage EXCEPT ![r] = "idle"]
      /\ call' = [call EXCEPT ![r] = NoCall]
  BY StageOf, StageMoves DEF Return, SeenAs, IInv
<1>3. /\ answer' = [answer EXCEPT ![r] = Answer(kind, c, E)]
      /\ Answer(kind, c, E) =
           Told(kind, Ids(E), IF kind = "expired" THEN expired[c.workspace]
                              ELSE IF E = {} THEN c.after ELSE Newest(Ids(E)))
  BY DEF Return, Answer
<1>4. /\ Log!Page(c) = Page(c) /\ (Page(c) = {} <=> Log!Behind(c) = {})
      /\ Log!Forgotten(c) <=> Refused(c)
  BY <1>1, PageIsNext DEF Log!Forgotten, Refused
<1>5. Ids({}) = {}
  BY DEF Ids
<1>6. CASE kind = "expired"
  BY <1>2, <1>3, <1>4, <1>5, <1>6, SameIds DEF Log!Answer
<1>7. CASE kind = "page" /\ E = {}
  BY <1>2, <1>3, <1>4, <1>5, <1>7, SameIds DEF Log!Answer
<1>8. CASE kind = "page" /\ E # {}
  BY <1>2, <1>3, <1>4, <1>8, SameIds, SameNewest DEF Log!Answer
<1>9. CASE kind \in {"timed_out", "shutdown"}
  BY <1>2, <1>3, <1>4, <1>5, <1>9, SameIds DEF Log!Answer
<1>10. CASE kind = "limited"
  BY <1>2, <1>3, <1>4, <1>5, <1>10, SameIds DEF Log!Answer
<1> QED BY <1>6, <1>7, <1>8, <1>9, <1>10

StepSeen(r) ==
  Log!Answer(r) \/ UNCHANGED <<written, expired, discarded, Stage, call, answer>>

(* A call that goes on is still asked.                                     *)
LEMMA WaitSeen ==
  ASSUME IInv, NEW r \in Readers, UNCHANGED <<written, expired, discarded, call, answer>>,
         step[r] \notin {"idle", "resolve"},
         NEW s \in {"select", "enter", "waiting"}, step' = [step EXCEPT ![r] = s]
  PROVE  StepSeen(r)
<1>1. \A q \in Readers : SeenAs(step'[q]) = SeenAs(step[q])
  BY DEF IInv, TypeOK, SeenAs
<1>2. Stage' = Stage
  BY <1>1 DEF Stage, SeenAs
<1> QED BY <1>2 DEF StepSeen

LEMMA CheckRetentionSeen == ASSUME IInv, NEW r \in Readers, CheckRetention(r) PROVE StepSeen(r)
<1>1. step[r] = "check" /\ UNCHANGED <<written, expired, discarded>>
  BY DEF CheckRetention, store
<1>2. CASE Refused(call[r])
  BY <1>1, <1>2, AnswerSeen DEF CheckRetention, StepSeen
<1>3. CASE ~ Refused(call[r])
  BY <1>1, <1>3, WaitSeen DEF CheckRetention
<1> QED BY <1>2, <1>3

LEMMA SelectSeen == ASSUME IInv, GoneInv, NEW r \in Readers, Select(r) PROVE StepSeen(r)
<1>1. step[r] = "select" /\ UNCHANGED <<written, expired, discarded>>
  BY DEF Select, store
<1>2. call[r] \in Calls /\ (call[r].workspace \in discarded \/ ~ Refused(call[r]))
  BY <1>1, ReadersTyped DEF IInv, CallsInv
<1>3. ~ Refused(call[r])
  BY <1>2, StoreAssumption DEF GoneInv, Refused, Calls
<1>4. CASE Return(r, Answer("page", call[r], Page(call[r])))
  BY <1>1, <1>3, <1>4, AnswerSeen DEF StepSeen
<1>5. CASE step' = [step EXCEPT ![r] = "enter"] /\ UNCHANGED <<call, answer>>
  BY <1>1, <1>5, WaitSeen
<1> QED BY <1>4, <1>5 DEF Select

LEMMA LookSeen ==
  ASSUME IInv, NEW r \in Readers, NEW late \in BOOLEAN, NEW others, Look(r, others, late),
         step[r] \in {"enter", "waiting", "woken"}
  PROVE  StepSeen(r)
<1> DEFINE c == call[r]  v == Verdict(c, late)
           E == IF v = "page" THEN Page(c) ELSE {}
<1>1. UNCHANGED <<written, expired, discarded>>
  BY DEF Look, store
<1>2. CASE v = "wait"
  BY <1>1, <1>2, WaitSeen DEF Look
<1>3. CASE v # "wait"
  <2>1. Return(r, Answer(v, c, E))
    BY <1>3 DEF Look
  <2>2. \/ v = "expired" /\ Refused(c) /\ E = {}
        \/ v = "page" /\ ~ Refused(c) /\ E = Page(c)
        \/ v \in {"timed_out", "shutdown"} /\ ~ Refused(c) /\ E = {} /\ Page(c) = {}
    BY <1>3 DEF Verdict
  <2> HIDE DEF c, v, E
  <2>3. Return(r, Answer(v, call[r], E))
    BY <2>1 DEF c
  <2>4. Log!Answer(r)
    BY <1>1, <2>2, <2>3, AnswerSeen DEF c
  <2> QED BY <2>4 DEF StepSeen
<1> QED BY <1>2, <1>3

LEMMA EnterSeen == ASSUME IInv, NEW r \in Readers, Enter(r) PROVE StepSeen(r)
<1>1. step[r] = "enter"
  BY DEF Enter
<1>2. CASE waiters >= MaxWaiters
  <2>1. /\ Return(r, Answer("limited", call[r], {}))
        /\ UNCHANGED <<written, expired, discarded>>
    BY <1>2 DEF Enter, store
  <2> QED BY <1>1, <2>1, AnswerSeen DEF StepSeen
<1>3. CASE ~ (waiters >= MaxWaiters)
  BY <1>1, <1>3, LookSeen DEF Enter
<1> QED BY <1>2, <1>3

LEMMA ReadersSeen ==
  ASSUME IInv, GoneInv, NEW r \in Readers,
         Request(r) \/ RequestTail(r) \/ ReadStep(r) \/ Timeout(r)
  PROVE  Log!Ask(r) \/ Log!Begin(r) \/ StepSeen(r)
<1>1. CASE Request(r) \/ RequestTail(r)
  BY <1>1, AskSeen
<1>2. CASE Resolve(r)
  BY <1>2, ResolveSeen
<1>3. CASE CheckRetention(r) \/ Select(r) \/ Enter(r)
  BY <1>3, CheckRetentionSeen, SelectSeen, EnterSeen
<1>4. CASE Wake(r) \/ Timeout(r)
  BY <1>4, LookSeen DEF Wake, Timeout
<1> QED BY <1>1, <1>2, <1>3, <1>4 DEF ReadStep

LEMMA GoneStep ==
  ASSUME IInv, GoneInv, [Next]_vars
  PROVE  GoneInv'
<1>1. ASSUME NEW w \in Workspaces, Discard(w) PROVE GoneInv'
  BY <1>1 DEF Discard, GoneInv, IInv, TypeOK
<1>2. CASE Cleanup
  BY <1>2, CleanupSeen
<1>3. ASSUME UNCHANGED <<expired, discarded>> PROVE GoneInv'
  BY <1>3 DEF GoneInv
<1>4. ASSUME NEW w \in Workspaces, NEW p \in {Any} \cup Procs, Append(w, p) PROVE GoneInv'
  BY <1>3, <1>4 DEF Append
<1>5. CASE Shutdown \/ Restart \/ UNCHANGED vars
  BY <1>3, <1>5 DEF Shutdown, Restart, vars, store
<1>6. ASSUME NEW r \in Readers, Request(r) \/ RequestTail(r) \/ ReadStep(r) \/ Timeout(r)
      PROVE  GoneInv'
  BY <1>3, <1>6 DEF Request, RequestTail, ReadStep, Resolve, CheckRetention, Select, Enter, Wake,
     Timeout, Look, store
<1> QED BY <1>1, <1>2, <1>4, <1>5, <1>6 DEF Next

LEMMA LogStep ==
  ASSUME IInv, GoneInv, [Next]_vars
  PROVE  [Log!Next]_(Log!vars)
<1>1. ASSUME NEW w \in Workspaces, Discard(w) \/ \E p \in {Any} \cup Procs : Append(w, p)
      PROVE  Log!Next
  BY <1>1, AppendSeen, ServerSeen DEF Log!Next
<1>2. CASE Cleanup
  BY <1>2, CleanupSeen DEF Log!Next
<1>3. CASE Restart
  BY <1>3, ServerSeen DEF Log!Next
<1>4. CASE Shutdown
  BY <1>4, ServerSeen DEF Log!vars, Log!readers
<1>5. ASSUME NEW r \in Readers, Request(r) \/ RequestTail(r) \/ ReadStep(r) \/ Timeout(r)
      PROVE  [Log!Next]_(Log!vars)
  BY <1>5, ReadersSeen DEF StepSeen, Log!Next, Log!vars, Log!readers
<1>6. CASE UNCHANGED vars
  BY <1>6 DEF vars, store, readers, Stage, Log!vars, Log!readers
<1> QED BY <1>1, <1>2, <1>3, <1>4, <1>5, <1>6 DEF Next

(* To its readers the store is a log: the three reads of list_after, the   *)
(* loop of wait_after, cleanup and shutdown cannot be told from answers    *)
(* that are given in one step.                                             *)
THEOREM StoreIsALog == Spec => ImplementsEventLog
<1>1. Init => GoneInv /\ Log!Init
  <2> SUFFICES ASSUME Init PROVE GoneInv /\ Log!Init
    OBVIOUS
  <2>1. Stage = [r \in Readers |-> "idle"]
    BY DEF Init, Stage
  <2> QED BY <2>1 DEF Init, GoneInv, Log!Init
<1>2. IInv /\ GoneInv /\ [Next]_vars => GoneInv' /\ [Log!Next]_(Log!vars)
  BY GoneStep, LogStep
<1> QED BY <1>1, <1>2, Invariance, PTL DEF Spec, ImplementsEventLog, Log!Spec, Log!vars

=============================================================================
