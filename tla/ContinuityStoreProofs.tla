----------------------- MODULE ContinuityStoreProofs -----------------------
(***************************************************************************)
(* The continuity store for any keys, routes, limit and lifetime: its      *)
(* types and its bound, and the two properties of the checkpoint, that     *)
(* what counts as clean is saved and that what is dirty is scheduled.      *)
(***************************************************************************)
EXTENDS ContinuityStore, FiniteSetTheorems, TLAPS

-----------------------------------------------------------------------------
(* Sets of bindings.                                                         *)

LEMMA UsedFinite ==
    ASSUME NEW b
    PROVE  IsFiniteSet(Used(b)) /\ Cardinality(Used(b)) \in Nat
  BY StoreAssumption, FS_Subset, FS_CardinalityType DEF Used

LEMMA OnlyUsed ==
    ASSUME NEW b \in Store, NEW S \in SUBSET Used(b)
    PROVE  Only(b, S) \in Store /\ Used(Only(b, S)) = S
  BY DEF Only, Used, Store

LEMMA NothingUsed == Nothing \in Store /\ Used(Nothing) = {} /\ Cardinality(Used(Nothing)) = 0
  BY FS_EmptySet DEF Nothing, Used, Store

(* What evictLocked leaves has room for one more, and is part of what was. *)
LEMMA EvictedFits ==
    ASSUME NEW b \in Store, NEW kept \in Evicted(b)
    PROVE  /\ kept \in Store
           /\ Cardinality(Used(kept)) < Limit
  <1>1. CASE Cardinality(Live(b)) < Limit
    <2>1. kept = Only(b, Live(b))
      BY <1>1 DEF Evicted
    <2> QED BY <1>1, <2>1, OnlyUsed DEF Live
  <1>2. CASE ~(Cardinality(Live(b)) < Limit)
    <2>1. PICK S \in SUBSET Live(b) : kept = Only(b, S) /\ Cardinality(S) = Limit - 1
      BY <1>2 DEF Evicted
    <2>2. S \in SUBSET Used(b)
      BY DEF Live
    <2> QED BY <2>1, <2>2, OnlyUsed, StoreAssumption
  <1> QED BY <1>1, <1>2

(* A file within the limit is loaded as it is, but for what has expired. *)
LEMMA LoadedLive ==
    ASSUME NEW b \in Store, Cardinality(Used(b)) <= Limit, NEW kept \in Loaded(b)
    PROVE  /\ kept = Only(b, Live(b))
           /\ kept \in Store
           /\ Cardinality(Used(kept)) <= Limit
  <1>1. Live(b) \in SUBSET Used(b)
    BY DEF Live
  <1>2. Cardinality(Live(b)) \in Nat /\ Cardinality(Live(b)) <= Cardinality(Used(b))
    BY <1>1, UsedFinite, FS_Subset, FS_CardinalityType
  <1>3. ~(Cardinality(Live(b)) > Limit)
    BY <1>2, UsedFinite, StoreAssumption
  <1>4. kept = Only(b, Live(b))
    BY <1>3 DEF Loaded
  <1> QED BY <1>1, <1>2, <1>4, OnlyUsed, UsedFinite, StoreAssumption

-----------------------------------------------------------------------------
(* Type correctness.                                                         *)

(* The store may change to b: types and bound are kept. *)
Fits(b) == b \in Store /\ Cardinality(Used(b)) <= Limit

LEMMA FitsPart ==
    ASSUME NEW b, Fits(b), NEW c \in Store, Used(c) \subseteq Used(b)
    PROVE  Fits(c)
  <1>1. Cardinality(Used(c)) <= Cardinality(Used(b))
    BY UsedFinite, FS_Subset
  <1> QED BY <1>1, UsedFinite, StoreAssumption DEF Fits

LEMMA FitsBound ==
    ASSUME NEW kept \in Store, Cardinality(Used(kept)) < Limit, NEW k \in Keys,
           NEW binding \in Binding
    PROVE  Fits([kept EXCEPT ![k] = binding])
  <1> DEFINE c == [kept EXCEPT ![k] = binding]
  <1>1. c \in Store /\ Used(c) \subseteq Used(kept) \cup {k}
    BY DEF Store, Used
  <1>2. /\ IsFiniteSet(Used(kept) \cup {k})
        /\ Cardinality(Used(kept) \cup {k}) <= Cardinality(Used(kept)) + 1
    <2> DEFINE U == Used(kept)
    <2>1. IsFiniteSet(U) /\ Cardinality(U) \in Nat
      BY UsedFinite
    <2> HIDE DEF U
    <2>2. /\ IsFiniteSet(U \cup {k})
          /\ Cardinality(U \cup {k}) = IF k \in U THEN Cardinality(U) ELSE Cardinality(U) + 1
      BY <2>1, FS_AddElement
    <2>3. Cardinality(U \cup {k}) <= Cardinality(U) + 1
      BY <2>1, <2>2
    <2> QED BY <2>2, <2>3 DEF U
  <1>3. Cardinality(Used(c)) <= Cardinality(Used(kept) \cup {k})
    BY <1>1, <1>2, FS_Subset
  <1>4. Cardinality(Used(kept) \cup {k}) \in Nat
    BY <1>2, FS_CardinalityType
  <1> QED BY <1>1, <1>2, <1>3, <1>4, UsedFinite, StoreAssumption DEF Fits

StoreStep ==
    \/ \E k \in Keys :
        \/ Lookup(k) \/ ReserveTurn(k)
        \/ \E route \in Routes, turn \in {1, 2} : Bind(k, route, turn)
    \/ \E route \in Routes : DeleteAccount(route)

LEMMA TypedOperation ==
    ASSUME TypeOK, StoreStep
    PROVE  TypeOK'
  <1>1. Fits(bindings) /\ Fits(snapshot) /\ Fits(disk) /\ clock \in Nat
    BY StoreAssumption DEF TypeOK, Fits
  <1>2. Operation /\ Changed
    BY DEF StoreStep, Lookup, ReserveTurn, Bind, DeleteAccount
  <1>3. Fits(bindings')
    <2>1. ASSUME NEW k \in Keys, RemoveExpired(k) PROVE Fits(bindings')
      <3>1. bindings' = [bindings EXCEPT ![k] = None]
        BY <2>1 DEF RemoveExpired
      <3>2. bindings' \in Store /\ Used(bindings') \subseteq Used(bindings)
        BY <1>1, <3>1 DEF Fits, Store, Used
      <3> QED BY <1>1, <3>2, FitsPart
    <2>2. ASSUME NEW k \in Live(bindings),
                 bindings' = [bindings EXCEPT ![k].until = clock + TTL]
          PROVE  Fits(bindings')
      <3>1. bindings[k] \in Binding
        BY <1>1, <2>2 DEF Fits, Store, Live, Used
      <3>2. [bindings[k] EXCEPT !.until = clock + TTL] \in Binding
        BY <1>1, <3>1, StoreAssumption DEF Binding
      <3>3. bindings' \in Store /\ Used(bindings') \subseteq Used(bindings)
        BY <1>1, <2>2, <3>2 DEF Fits, Store, Used, Live
      <3> QED BY <1>1, <3>3, FitsPart
    <2>3. ASSUME NEW k \in Live(bindings),
                 bindings' = [bindings EXCEPT ![k].until = clock + TTL, ![k].next = @ + 1]
          PROVE  Fits(bindings')
      <3>1. bindings[k] \in Binding
        BY <1>1, <2>3 DEF Fits, Store, Live, Used
      <3>2. [bindings[k] EXCEPT !.until = clock + TTL, !.next = @ + 1] \in Binding
        <4> DEFINE b == bindings[k]
        <4>1. b \in [route : Routes, next : Nat, until : Nat]
          BY <3>1 DEF Binding
        <4>2. clock + TTL \in Nat /\ b.next + 1 \in Nat
          BY <1>1, <4>1, StoreAssumption
        <4>3. ASSUME NEW u \in Nat, NEW n \in Nat,
                     NEW c \in [route : Routes, next : Nat, until : Nat]
              PROVE  [c EXCEPT !.until = u, !.next = n] \in Binding
          BY DEF Binding
        <4> HIDE DEF b
        <4>4. [b EXCEPT !.until = clock + TTL, !.next = b.next + 1] \in Binding
          BY <4>1, <4>2, <4>3
        <4> QED BY <4>4 DEF b
      <3>3. bindings' = [bindings EXCEPT
                            ![k] = [bindings[k] EXCEPT !.until = clock + TTL, !.next = @ + 1]]
        BY <1>1, <2>3, <3>1 DEF Fits, Store, Binding
      <3>4. bindings' \in Store /\ Used(bindings') \subseteq Used(bindings)
        BY <1>1, <2>3, <3>2, <3>3 DEF Fits, Store, Used, Live
      <3> QED BY <1>1, <3>4, FitsPart
    <2>4. ASSUME NEW k \in Keys, NEW route \in Routes, NEW turn \in {1, 2},
                 Bind(k, route, turn)
          PROVE  Fits(bindings')
      <3>1. PICK kept \in Evicted(bindings) :
                bindings' = [kept EXCEPT ![k] = [route |-> route, next |-> turn,
                                                 until |-> clock + TTL]]
        BY <2>4 DEF Bind
      <3>2. [route |-> route, next |-> turn, until |-> clock + TTL] \in Binding
        BY <1>1, StoreAssumption DEF Binding
      <3>3. kept \in Store /\ Cardinality(Used(kept)) < Limit
        BY <1>1, EvictedFits DEF Fits
      <3> QED BY <3>1, <3>2, <3>3, FitsBound
    <2>5. ASSUME NEW route \in Routes, DeleteAccount(route) PROVE Fits(bindings')
      <3>1. PICK S \in SUBSET Keys : bindings' = Only(bindings, S)
        BY <2>5 DEF DeleteAccount
      <3>2. bindings' \in Store /\ Used(bindings') \subseteq Used(bindings)
        BY <1>1, <3>1 DEF Only, Fits, Store, Used
      <3> QED BY <1>1, <3>2, FitsPart
    <2> QED BY <2>1, <2>2, <2>3, <2>4, <2>5 DEF StoreStep, Lookup, ReserveTurn
  <1>4. ops' \in 0..MaxOps
    BY <1>2, StoreAssumption DEF Operation, TypeOK
  <1> QED
    BY <1>1, <1>2, <1>3, <1>4
       DEF TypeOK, Operation, Changed, Fits, loopVars, processVars, Used

LEMMA TypedLoop ==
    ASSUME TypeOK, LoopStep
    PROVE  TypeOK'
  <1>1. Fits(bindings) /\ Fits(snapshot) /\ Fits(disk) /\ Fits(Nothing)
    BY NothingUsed, StoreAssumption DEF TypeOK, Fits
  <1>2. CASE TakeWake \/ TimerFires \/ SeesClosed \/ FlushClean
    BY <1>2 DEF TypeOK, TakeWake, TimerFires, SeesClosed, FlushClean, Selects, Returns,
                processVars, Used
  <1>3. CASE Snapshot
    <2>1. Fits(bindings') /\ Fits(snapshot')
      <3>1. PICK kept \in Evicted(bindings) : bindings' = kept /\ snapshot' = kept
        BY <1>3 DEF Snapshot
      <3>2. kept \in Store /\ Cardinality(Used(kept)) < Limit
        BY <1>1, EvictedFits DEF Fits
      <3> QED BY <3>1, <3>2, UsedFinite, StoreAssumption DEF Fits
    <2> QED BY <1>1, <1>3, <2>1 DEF TypeOK, Snapshot, Fits, processVars, Used
  <1>4. CASE Written \/ WriteFails \/ WriteDoesNotStart
    <2>1. EndsWrite /\ faults' \in 0..MaxFaults /\ disk' \in {disk, snapshot}
          /\ dirty' \in BOOLEAN /\ wake' \in BOOLEAN /\ abandoned' \in BOOLEAN
      <3>1. CASE Written
        BY <1>4, <3>1 DEF Written, TypeOK
      <3>2. CASE WriteFails
        BY <1>4, <3>2, StoreAssumption DEF WriteFails, Fault, Changed, TypeOK
      <3>3. CASE WriteDoesNotStart
        BY <1>4, <3>3, StoreAssumption DEF WriteDoesNotStart, Fault, TypeOK
      <3> QED BY <1>4, <3>1, <3>2, <3>3
    <2>2. Fits(disk') /\ Fits(snapshot') /\ Fits(bindings')
      BY <1>1, <2>1 DEF EndsWrite, Fits, Used
    <2>3. loop' \in {"select", "gone"}
      BY <2>1 DEF EndsWrite, Returns
    <2> QED BY <2>1, <2>2, <2>3 DEF TypeOK, EndsWrite, Fits
  <1> QED BY <1>2, <1>3, <1>4 DEF LoopStep

LEMMA TypedProcess ==
    ASSUME TypeOK, Close \/ Stop \/ Restart \/ Tick
    PROVE  TypeOK'
  <1>1. Fits(bindings) /\ Fits(snapshot) /\ Fits(disk) /\ Fits(Nothing)
    BY NothingUsed, StoreAssumption DEF TypeOK, Fits
  <1>2. CASE Close
    BY <1>2 DEF TypeOK, Close, loopVars, Used
  <1>3. CASE Stop
    <2>1. faults' \in 0..MaxFaults
      BY <1>3, StoreAssumption DEF Stop, TypeOK
    <2> QED BY <1>1, <1>3, <2>1 DEF TypeOK, Stop, Fits, Used
  <1>4. CASE Restart
    <2>1. Fits(bindings')
      <3>1. PICK kept \in Loaded(disk) : bindings' = kept
        BY <1>4 DEF Restart
      <3> QED BY <1>1, <3>1, LoadedLive DEF Fits
    <2>2. faults' \in 0..MaxFaults
      BY <1>4, StoreAssumption DEF Restart, Fault, TypeOK
    <2> QED BY <1>1, <1>4, <2>1, <2>2 DEF TypeOK, Restart, Fits, Used
  <1>5. CASE Tick
    <2>1. clock' \in 0..MaxTime
      BY <1>5, StoreAssumption DEF Tick, TypeOK
    <2> QED BY <1>5, <2>1 DEF TypeOK, Tick, loopVars, Used
  <1> QED BY <1>2, <1>3, <1>4, <1>5

(* The types, and the bound on memory and on the file. *)
THEOREM TypeCorrect == Spec => []TypeOK
  <1>1. Init => TypeOK
    <2> SUFFICES ASSUME Init PROVE TypeOK
      OBVIOUS
    <2>1. \A b \in {bindings, snapshot, disk} : b \in Store /\ Cardinality(Used(b)) <= Limit
      BY NothingUsed, StoreAssumption DEF Init
    <2>2. clock \in 0..MaxTime /\ ops \in 0..MaxOps /\ faults \in 0..MaxFaults
      BY StoreAssumption DEF Init
    <2> QED BY <2>1, <2>2 DEF Init, TypeOK
  <1>2. TypeOK /\ [Next]_vars => TypeOK'
    <2> SUFFICES ASSUME TypeOK, [Next]_vars PROVE TypeOK'
      OBVIOUS
    <2>1. CASE UNCHANGED vars
      BY <2>1 DEF vars, TypeOK, Used
    <2>2. CASE StoreStep
      BY <2>2, TypedOperation
    <2>3. CASE LoopStep
      BY <2>3, TypedLoop
    <2>4. CASE Close \/ Stop \/ Restart \/ Tick
      BY <2>4, TypedProcess
    <2> QED BY <2>1, <2>2, <2>3, <2>4 DEF Next, StoreStep
  <1> QED BY <1>1, <1>2, PTL DEF Spec

-----------------------------------------------------------------------------
(* What is dirty is scheduled.                                               *)

(* Why it holds: a snapshot takes everything there is, so that what is dirty *)
(* while the file is being written has changed since, and with a signal; and *)
(* a process that does not exist has nothing to save.                        *)
ScheduledInv ==
    /\ DirtyIsScheduled
    /\ running /\ dirty /\ Writing => wake
    /\ ~running => ~dirty

LEMMA ScheduledStep ==
    ASSUME TypeOK, ScheduledInv, [Next]_vars
    PROVE  ScheduledInv'
  <1> USE DEF ScheduledInv, DirtyIsScheduled, Flushing, Writing
  <1>1. CASE UNCHANGED vars
    BY <1>1 DEF vars
  <1>2. CASE StoreStep
    <2>1. Operation /\ Changed
      BY <1>2 DEF StoreStep, Lookup, ReserveTurn, Bind, DeleteAccount
    <2> QED BY <2>1 DEF Operation, Changed, loopVars, processVars
  <1>3. CASE TakeWake
    BY <1>3 DEF TakeWake, Selects, processVars
  <1>4. CASE TimerFires
    BY <1>4 DEF TimerFires, Selects, processVars
  <1>5. CASE SeesClosed
    BY <1>5 DEF SeesClosed, Selects, processVars
  <1>6. CASE FlushClean
    BY <1>6 DEF FlushClean, processVars
  <1>7. CASE Snapshot
    BY <1>7 DEF Snapshot, processVars
  <1>8. CASE Written \/ WriteDoesNotStart
    BY <1>8 DEF Written, WriteDoesNotStart, EndsWrite, Returns
  <1>9. CASE WriteFails
    BY <1>9 DEF WriteFails, Changed, EndsWrite, Returns
  <1>10. CASE Close
    BY <1>10 DEF Close, loopVars
  <1>11. CASE Stop
    BY <1>11 DEF Stop
  <1>12. CASE Restart
    BY <1>12 DEF Restart
  <1>13. CASE Tick
    BY <1>13 DEF Tick, loopVars
  <1> QED
    BY <1>1, <1>2, <1>3, <1>4, <1>5, <1>6, <1>7, <1>8, <1>9, <1>10, <1>11, <1>12, <1>13
       DEF Next, LoopStep, StoreStep

(* No change of the store is forgotten by its checkpoint loop. *)
THEOREM DirtyScheduled == Spec => []DirtyIsScheduled
  <1>1. Init => ScheduledInv
    BY DEF Init, ScheduledInv, DirtyIsScheduled, Flushing, Writing
  <1>2. TypeOK /\ ScheduledInv /\ [Next]_vars => ScheduledInv'
    BY ScheduledStep
  <1>3. ScheduledInv => DirtyIsScheduled
    BY DEF ScheduledInv
  <1> QED BY <1>1, <1>2, <1>3, TypeCorrect, PTL DEF Spec

-----------------------------------------------------------------------------
(* What counts as clean is saved.                                            *)

(* Two stores agree at a time if what has not expired by then is the same. *)
LiveAt(b, t) == {k \in Used(b) : t < b[k].until}
AgreeAt(b, c, t) == Only(b, LiveAt(b, t)) = Only(c, LiveAt(c, t))

LEMMA AgreeMeans ==
    ASSUME NEW b, NEW c, NEW t
    PROVE  AgreeAt(b, c, t) <=> /\ LiveAt(b, t) = LiveAt(c, t)
                                /\ \A k \in LiveAt(b, t) : b[k] = c[k]
  <1>1. \A d : \A k \in LiveAt(d, t) : k \in Keys /\ d[k] # None
    BY DEF LiveAt, Used
  <1>2. ASSUME AgreeAt(b, c, t)
        PROVE  /\ LiveAt(b, t) = LiveAt(c, t)
               /\ \A k \in LiveAt(b, t) : b[k] = c[k]
    <2>1. \A k \in Keys : (IF k \in LiveAt(b, t) THEN b[k] ELSE None)
                              = (IF k \in LiveAt(c, t) THEN c[k] ELSE None)
      BY <1>2 DEF AgreeAt, Only
    <2> QED BY <1>1, <2>1
  <1>3. ASSUME LiveAt(b, t) = LiveAt(c, t), \A k \in LiveAt(b, t) : b[k] = c[k]
        PROVE  AgreeAt(b, c, t)
    BY <1>3 DEF AgreeAt, Only
  <1> QED BY <1>2, <1>3

(* What has expired stays expired: stores that agree go on agreeing. *)
LEMMA AgreeLater ==
    ASSUME NEW b \in Store, NEW c \in Store, NEW t \in Nat, AgreeAt(b, c, t)
    PROVE  AgreeAt(b, c, t + 1)
  <1>1. /\ LiveAt(b, t) = LiveAt(c, t)
        /\ \A k \in LiveAt(b, t) : b[k] = c[k]
    BY AgreeMeans
  <1>2. ASSUME NEW d \in Store
        PROVE  LiveAt(d, t + 1) = {k \in LiveAt(d, t) : t + 1 < d[k].until}
    <2>1. \A k \in Used(d) : d[k].until \in Nat
      BY DEF Used, Store, Binding
    <2> QED BY <2>1 DEF LiveAt
  <1>3. /\ LiveAt(b, t + 1) = LiveAt(c, t + 1)
        /\ \A k \in LiveAt(b, t + 1) : b[k] = c[k]
    BY <1>1, <1>2
  <1> QED BY <1>3, AgreeMeans

(* Loading leaves out only what has expired. *)
LEMMA AgreeLoaded ==
    ASSUME NEW b \in Store, NEW t
    PROVE  AgreeAt(Only(b, LiveAt(b, t)), b, t)
  <1> DEFINE c == Only(b, LiveAt(b, t))
  <1>1. LiveAt(b, t) \subseteq Used(b) /\ Used(b) \subseteq Keys
    BY DEF LiveAt, Used
  <1>2. Used(c) = LiveAt(b, t) /\ \A k \in LiveAt(b, t) : c[k] = b[k]
    BY <1>1, OnlyUsed DEF Only
  <1>3. LiveAt(c, t) = LiveAt(b, t)
    BY <1>2 DEF LiveAt
  <1> QED BY <1>2, <1>3, AgreeMeans

(* Why it holds: between the snapshot and the end of the write the snapshot  *)
(* stands in for the file, also when an earlier write was abandoned.         *)
CleanInv ==
    /\ running /\ ~dirty /\ Writing => AgreeAt(bindings, snapshot, clock)
    /\ running /\ ~dirty /\ ~Writing /\ ~abandoned => AgreeAt(bindings, disk, clock)

LEMMA CleanStep ==
    ASSUME TypeOK, CleanInv, [Next]_vars
    PROVE  CleanInv'
  <1> USE DEF CleanInv
  <1>1. CASE UNCHANGED vars
    BY <1>1 DEF vars, AgreeAt, LiveAt, Used, Only, Writing
  <1>2. CASE StoreStep
    <2>1. dirty'
      BY <1>2 DEF StoreStep, Lookup, ReserveTurn, Bind, DeleteAccount, Changed
    <2> QED BY <2>1
  <1>3. CASE TakeWake \/ TimerFires \/ SeesClosed \/ FlushClean
    <2>1. UNCHANGED <<bindings, disk, clock, running, dirty, abandoned>>
      BY <1>3 DEF TakeWake, TimerFires, SeesClosed, FlushClean, Selects, processVars
    <2>2. ~Writing /\ ~Writing'
      BY <1>3 DEF TakeWake, TimerFires, SeesClosed, FlushClean, Selects, Returns,
                  Flushing, Writing
    <2> QED BY <2>1, <2>2
  <1>4. CASE Snapshot
    <2>1. bindings' = snapshot' /\ Writing'
      BY <1>4 DEF Snapshot, Writing
    <2> QED BY <2>1 DEF AgreeAt
  <1>5. CASE Written
    <2>1. disk' = snapshot /\ Writing /\ ~Writing'
      BY <1>5 DEF Written, EndsWrite, Returns, Writing
    <2> QED BY <1>5, <2>1 DEF Written, EndsWrite
  <1>6. CASE WriteFails
    BY <1>6 DEF WriteFails, Changed
  <1>7. CASE WriteDoesNotStart
    <2>1. abandoned' /\ ~Writing'
      BY <1>7 DEF WriteDoesNotStart, EndsWrite, Returns, Writing
    <2> QED BY <2>1
  <1>8. CASE Close
    BY <1>8 DEF Close, loopVars, Writing
  <1>9. CASE Stop
    BY <1>9 DEF Stop
  <1>10. CASE Restart
    <2>1. disk \in Store /\ Cardinality(Used(disk)) <= Limit
      BY DEF TypeOK
    <2>2. bindings' = Only(disk, LiveAt(disk, clock))
      BY <1>10, <2>1, LoadedLive DEF Restart, Live, LiveAt
    <2>3. disk' = disk /\ clock' = clock /\ ~Writing'
      BY <1>10 DEF Restart, Writing
    <2>4. AgreeAt(bindings', disk', clock')
      BY <2>1, <2>2, <2>3, AgreeLoaded
    <2> QED BY <2>3, <2>4
  <1>11. CASE Tick
    <2>1. /\ clock \in Nat /\ clock' = clock + 1
          /\ bindings \in Store /\ snapshot \in Store /\ disk \in Store
          /\ UNCHANGED <<bindings, snapshot, disk, running, dirty, abandoned, loop>>
      BY <1>11, StoreAssumption DEF Tick, TypeOK, loopVars
    <2>2. Writing' = Writing
      BY <2>1 DEF Writing
    <2>3. /\ AgreeAt(bindings, snapshot, clock) => AgreeAt(bindings, snapshot, clock + 1)
          /\ AgreeAt(bindings, disk, clock) => AgreeAt(bindings, disk, clock + 1)
      BY <2>1, AgreeLater
    <2> QED BY <2>1, <2>2, <2>3
  <1> QED
    BY <1>1, <1>2, <1>3, <1>4, <1>5, <1>6, <1>7, <1>8, <1>9, <1>10, <1>11
       DEF Next, LoopStep, StoreStep

(* A restart loses nothing that counts as saved. *)
THEOREM CleanSaved == Spec => []CleanIsSaved
  <1>1. Init => CleanInv
    BY DEF Init, CleanInv, AgreeAt
  <1>2. TypeOK /\ CleanInv /\ [Next]_vars => CleanInv'
    BY CleanStep
  <1>3. CleanInv => CleanIsSaved
    BY DEF CleanInv, CleanIsSaved, Saved, Usable, Live, AgreeAt, LiveAt
  <1> QED BY <1>1, <1>2, <1>3, TypeCorrect, PTL DEF Spec
=============================================================================
