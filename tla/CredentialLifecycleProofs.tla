--------------------- MODULE CredentialLifecycleProofs ---------------------
(***************************************************************************)
(* The safety of one credential for every number of goroutines, every      *)
(* assignment of operations to them and every number of outside events.    *)
(***************************************************************************)
EXTENDS CredentialLifecycle, FiniteSetTheorems, NaturalsInduction, WellFoundedInduction, TLAPS

-----------------------------------------------------------------------------
(* The values the model chooses.                                             *)

(* A set of natural numbers that is not empty has a least element.           *)
LEMMA Least ==
    ASSUME NEW S, S \subseteq Nat, S # {}
    PROVE  \E v \in S : \A w \in S : v <= w
  <1>1. \E v \in S : \A w \in S : ~ (<<w, v>> \in OpToRel(<, Nat))
    BY NatLessThanWellFounded, WFMin
  <1>2. \E v \in S : \A w \in S : ~(w < v)
    BY <1>1 DEF OpToRel
  <1>3. PICK v \in S : \A w \in S : ~(w < v)
    BY <1>2
  <1>4. ASSUME NEW w \in S PROVE v <= w
    <2>1. v \in Nat /\ w \in Nat /\ ~(w < v)
      BY <1>3
    <2> QED BY <2>1
  <1> QED BY <1>4

(* The provider issues a version it has not issued before.                   *)
LEMMA NewVersion == ASSUME Unissued # {} PROVE NextVersion \in Unissued /\ NextVersion \in Versions
  <1>1. Unissued \subseteq Nat
    BY ConstantsAssumption DEF Unissued, Versions
  <1>2. \E v \in Unissued : \A w \in Unissued : v <= w
    BY <1>1, Least
  <1> QED BY <1>2 DEF NextVersion, Unissued

(* A goroutine points to one object at most, so while the pool has none one  *)
(* of the objects is free.                                                   *)
LEMMA SpareObject ==
    ASSUME current = None, my \in [Threads -> Frame]
    PROVE  Fresh \in Objects /\ \A t \in Threads : my[t].obj # Fresh
  <1> DEFINE held == {my[t].obj : t \in Threads}
             n == Cardinality(Threads) + 1
  <1>1. Cardinality(Threads) \in Nat
    BY ConstantsAssumption, FS_CardinalityType
  <1>2. IsFiniteSet(held) /\ Cardinality(held) <= Cardinality(Threads)
    <2> DEFINE f == [t \in Threads |-> my[t].obj]
    <2>1. f \in Surjection(Threads, held)
      BY DEF Surjection
    <2> HIDE DEF f, held
    <2> QED BY <2>1, ConstantsAssumption, FS_Surjection
  <1>3. IsFiniteSet(Objects) /\ Cardinality(Objects) = n
    BY <1>1, FS_Interval DEF Objects
  <1>4. ~(Objects \subseteq held)
    <2> SUFFICES ASSUME Objects \subseteq held PROVE FALSE
      OBVIOUS
    <2>1. Cardinality(Objects) <= Cardinality(held)
      BY <1>2, FS_Subset
    <2>2. Cardinality(held) \in Nat
      BY <1>2, FS_CardinalityType
    <2> HIDE DEF held
    <2> QED BY <1>1, <1>2, <1>3, <2>1, <2>2
  <1>5. Unused # {}
    <2>1. PICK e \in Objects : e \notin held
      BY <1>4
    <2>2. e \in Unused
      BY <1>1, <2>1 DEF Unused, Objects, None
    <2> QED BY <2>2
  <1>6. \E e \in Unused : \A g \in Unused : e <= g
    <2>1. Unused \subseteq Nat
      BY <1>1 DEF Unused, Objects
    <2> QED BY <1>5, <2>1, Least
  <1> QED BY <1>6 DEF Fresh, Unused

-----------------------------------------------------------------------------
(* Types.                                                                    *)

Types ==
    /\ pc \in [Threads -> Points]
    /\ my \in [Threads -> Frame]
    /\ sameGen \in [Threads -> BOOLEAN]
    /\ objects \in [Objects -> Object]
    /\ current \in Objects \cup {None}
    /\ states \in State
    /\ cache \in [has : BOOLEAN, match : BOOLEAN, cred : Version]
    /\ reading \in [cred : Version, match : BOOLEAN]
    /\ mutex \in Threads \cup {Free}
    /\ stateFile \in State
    /\ file \in Version
    /\ flock \in Threads \cup {Free, Sibling}
    /\ refreshTok \in [Versions -> {"unissued", "accepted", "spent", "lost"}]
    /\ access \in [Versions -> {"fresh", "due", "expired", "revoked"}]
    /\ events \in 0..MaxEvents

LEMMA Split == TypeOK <=> HasObject /\ Types
  BY DEF TypeOK, Types

(* The starting values are of their types.                                   *)
LEMMA Values ==
    /\ None \in Version /\ EmptyFrame \in Frame /\ EmptyState \in State
    /\ \A v \in Version : NewObject(v) \in Object
    /\ 1 \in Objects /\ 1 \in Versions /\ None \notin Objects /\ None \notin Versions
  <1>1. Cardinality(Threads) \in Nat
    BY ConstantsAssumption, FS_CardinalityType
  <1>2. 1 \in Objects /\ None \notin Objects
    BY <1>1 DEF Objects, None
  <1>3. 1 \in Versions /\ None \notin Versions
    BY ConstantsAssumption DEF Versions, None
  <1>4. None \in Version /\ EmptyFrame \in Frame /\ EmptyState \in State
    BY DEF Version, EmptyFrame, Frame, EmptyState, State, Cooldowns
  <1>5. \A v \in Version : NewObject(v) \in Object
    BY DEF NewObject, Object, Reasons, Cooldowns
  <1> QED BY <1>2, <1>3, <1>4, <1>5

LEMMA TypedInit == Init => Types
  <1> SUFFICES ASSUME Init PROVE Types
    OBVIOUS
  <1>1. objects \in [Objects -> Object]
    <2>1. \A e \in Objects : (IF e = 1 THEN 1 ELSE None) \in Version
      BY Values DEF Version
    <2> QED BY <2>1, Values DEF Init
  <1>2. /\ pc \in [Threads -> Points] /\ my \in [Threads -> Frame] /\ sameGen \in [Threads -> BOOLEAN]
        /\ states \in State /\ stateFile \in State /\ mutex = Free /\ flock = Free
    BY Values DEF Init, Points
  <1>3. /\ cache \in [has : BOOLEAN, match : BOOLEAN, cred : Version]
        /\ reading \in [cred : Version, match : BOOLEAN] /\ file \in Version
        /\ current \in Objects
    BY Values DEF Init, Version
  <1>4. /\ refreshTok \in [Versions -> {"unissued", "accepted", "spent", "lost"}]
        /\ access \in [Versions -> {"fresh", "due", "expired", "revoked"}]
    BY DEF Init
  <1>5. events \in 0..MaxEvents
    BY ConstantsAssumption DEF Init
  <1> QED BY <1>1, <1>2, <1>3, <1>4, <1>5 DEF Types

(* Steps of a goroutine that several actions share.                          *)
LEMMA TypedReturn ==
    ASSUME Types, NEW t \in Threads, Return(t)
    PROVE  pc' \in [Threads -> Points] /\ my' \in [Threads -> Frame]
           /\ sameGen' \in [Threads -> BOOLEAN]
  <1>1. pc' \in [Threads -> Points]
    BY DEF Types, Return, Points
  <1>2. my' \in [Threads -> Frame] /\ sameGen' \in [Threads -> BOOLEAN]
    BY Values DEF Types, Return
  <1> QED BY <1>1, <1>2

LEMMA TypedPenalty ==
    ASSUME Types, NEW t \in Threads, NEW p \in Penalties,
           my' = [my EXCEPT ![t].penalty = p]
    PROVE  my' \in [Threads -> Frame]
  <1>0. my[t] \in Frame
    BY DEF Types
  <1>1. [my[t] EXCEPT !.penalty = p] \in Frame
    BY <1>0 DEF Frame
  <1>2. my' = [my EXCEPT ![t] = [my[t] EXCEPT !.penalty = p]]
    OBVIOUS
  <1> QED BY <1>1, <1>2 DEF Types

LEMMA TypedEnds ==
    ASSUME Types, NEW t \in Threads, GiveUp(t) \/ AfterPenalty(t) \/ (\E n : DeleteStops(t, n))
    PROVE  pc' \in [Threads -> Points] /\ my' \in [Threads -> Frame]
           /\ sameGen' \in [Threads -> BOOLEAN]
  <1>1. "authentication_failed" \in Penalties /\ "quota_exhausted" \in Penalties
    BY DEF Penalties, Reasons
  <1>2. CASE GiveUp(t)
    BY <1>1, <1>2, TypedReturn, TypedPenalty DEF GiveUp, Types, Points
  <1>3. CASE AfterPenalty(t)
    BY <1>3, TypedReturn DEF AfterPenalty, Types, Points
  <1>4. CASE \E n : DeleteStops(t, n)
    BY <1>1, <1>4, TypedReturn, TypedPenalty DEF DeleteStops, Types, Points
  <1> QED BY <1>2, <1>3, <1>4

(* An account is changed in one of its fields.                               *)
LEMMA TypedObject ==
    ASSUME Types, NEW e \in Objects
    PROVE  /\ objects[e] \in Object
           /\ \A b \in BOOLEAN : /\ [objects EXCEPT ![e].locked = b] \in [Objects -> Object]
                                /\ [objects EXCEPT ![e].deleting = b] \in [Objects -> Object]
           /\ \A s \in Reasons : [objects EXCEPT ![e].status = s] \in [Objects -> Object]
           /\ \A c \in Cooldowns : [objects EXCEPT ![e].cool = c] \in [Objects -> Object]
           /\ \A n \in Nat : [objects EXCEPT ![e].fails = n] \in [Objects -> Object]
  <1>1. objects[e] \in Object
    BY DEF Types
  <1>2. /\ \A b \in BOOLEAN : /\ [objects[e] EXCEPT !.locked = b] \in Object
                             /\ [objects[e] EXCEPT !.deleting = b] \in Object
        /\ \A s \in Reasons : [objects[e] EXCEPT !.status = s] \in Object
        /\ \A c \in Cooldowns : [objects[e] EXCEPT !.cool = c] \in Object
        /\ \A n \in Nat : [objects[e] EXCEPT !.fails = n] \in Object
    BY <1>1 DEF Object
  <1> QED BY <1>1, <1>2 DEF Types

LEMMA TypedBumped == \A e : Bumped(e) \in [Threads -> BOOLEAN]
  BY DEF Bumped

LEMMA TypedUse ==
    ASSUME Types, HasObject, NEW t \in Threads,
           \/ \E op \in Ops : Start(t, op)
           \/ Acquire(t) \/ Lease(t) \/ Send(t) \/ Lookup(t)
    PROVE  Types'
  <1> USE DEF Types, memory, disk, tokens
  <1>0. my[t] \in Frame
    OBVIOUS
  <1>1. CASE \E op \in Ops : Start(t, op)
    <2> PICK op \in Ops : Start(t, op)
      BY <1>1
    <2>1. [my[t] EXCEPT !.op = op] \in Frame
      BY <1>0 DEF Frame
    <2>2. pc' \in [Threads -> Points]
      BY DEF Start, Go, Points, Ops
    <2> QED BY <2>1, <2>2 DEF Start
  <1>2. CASE Acquire(t)
    <2>1. [my[t] EXCEPT !.obj = current, !.then = "lease"] \in Frame
      BY <1>0 DEF Frame
    <2>2. CASE Available
      <3>1. my' = [my EXCEPT ![t].obj = current, ![t].then = "lease"]
        BY <1>2, <2>2 DEF Acquire
      <3>2. my' \in [Threads -> Frame]
        BY <2>1, <3>1
      <3>3. pc' \in [Threads -> Points]
        BY <1>2, <2>2 DEF Acquire, Go, Points
      <3>4. UNCHANGED <<sameGen, memory, disk, tokens, events>>
        BY <1>2, <2>2 DEF Acquire
      <3> QED BY <3>2, <3>3, <3>4
    <2>3. CASE ~Available
      BY <1>2, <2>3, TypedReturn DEF Acquire
    <2> QED BY <2>2, <2>3
  <1>3. CASE Lease(t)
    <2>1. my[t].obj \in Objects
      BY <1>0, <1>3 DEF Lease, Go, HasObject, Frame
    <2>2. objects[my[t].obj].cred \in Version
      BY <2>1, TypedObject DEF Object
    <2>3. [my[t] EXCEPT !.leased = objects[my[t].obj].cred] \in Frame
      BY <1>0, <2>2 DEF Frame
    <2> QED BY <1>3, <2>3 DEF Lease, Go, Points
  <1>4. CASE Send(t)
    <2>1. /\ [my[t] EXCEPT !.penalty = "authentication_failed"] \in Frame
          /\ [my[t] EXCEPT !.penalty = "rate_limited"] \in Frame
          /\ [my[t] EXCEPT !.again = TRUE, !.then = "retry", !.obj = current] \in Frame
      BY <1>0 DEF Frame, Penalties, Reasons, Cooldowns
    <2>2. pc' \in [Threads -> Points]
      BY <1>4, TypedReturn DEF Send, Go, Points
    <2>3. my' \in [Threads -> Frame]
      BY <1>4, <2>1, TypedReturn DEF Send
    <2>4. sameGen' \in [Threads -> BOOLEAN]
      BY <1>4, TypedReturn DEF Send
    <2> QED BY <1>4, <2>2, <2>3, <2>4 DEF Send
  <1>5. CASE Lookup(t)
    <2>1. [my[t] EXCEPT !.obj = current] \in Frame
      BY <1>0 DEF Frame
    <2> QED BY <1>5, <2>1, TypedReturn DEF Lookup, Go, Points
  <1> QED BY <1>1, <1>2, <1>3, <1>4, <1>5

(* Rotating a token at the provider.                                         *)
LEMMA TypedRotate ==
    ASSUME Types, NEW v \in Version, NEW worth \in {"spent", "lost"}, Rotate(v, worth)
    PROVE  /\ refreshTok' \in [Versions -> {"unissued", "accepted", "spent", "lost"}]
           /\ NextVersion \in Versions
  BY NewVersion DEF Rotate, Types

LEMMA TypedFailed ==
    ASSUME Types, NEW t \in Threads, NEW permanent \in BOOLEAN, Failed(t, permanent),
           my[t].obj \in Objects
    PROVE  /\ pc' \in [Threads -> Points] /\ my' \in [Threads -> Frame]
           /\ objects' \in [Objects -> Object]
  <1>1. objects[my[t].obj].fails + 1 \in Nat
    BY TypedObject DEF Object
  <1>2. my' \in [Threads -> Frame]
    <2>1. \A p \in {"refresh_invalid", "refresh_exhausted", "refresh_backoff"} : p \in Penalties
      BY DEF Penalties, Reasons, Cooldowns
    <2>2. \E p \in Penalties : my' = [my EXCEPT ![t].penalty = p]
      BY <2>1 DEF Failed
    <2> QED BY <2>2, TypedPenalty
  <1>3. objects' \in [Objects -> Object]
    BY <1>1, TypedObject DEF Failed
  <1> QED BY <1>2, <1>3 DEF Failed, Types, Points

LEMMA TypedRefresh ==
    ASSUME Types, HasObject, NEW t \in Threads,
           \/ Enter(t) \/ Check(t) \/ Flock(t) \/ Reread(t) \/ Exchange(t) \/ LoseResponse(t)
           \/ PermanentFailure(t) \/ TransientFailure(t) \/ Write(t) \/ WriteFails(t)
    PROVE  Types'
  <1> USE DEF Types, memory, disk, tokens
  <1>1. my[t].obj \in Objects
    BY DEF Enter, Check, Flock, Reread, Exchange, LoseResponse, PermanentFailure,
           TransientFailure, Write, WriteFails, Go, HasObject, Inside, Frame
  <1>2. objects[my[t].obj] \in Object
    BY <1>1
  <1>3. my[t].cred \in Version /\ my[t].next \in Version /\ my[t] \in Frame
    BY DEF Frame
  <1>4. CASE Enter(t)
    BY <1>1, <1>4, TypedObject DEF Enter, Go, Points
  <1>5. CASE Check(t)
    <2>1. objects[my[t].obj].cred \in Version
      BY <1>2 DEF Object
    <2>2. my' \in [Threads -> Frame]
      <3>1. [my[t] EXCEPT !.cred = objects[my[t].obj].cred] \in Frame
        BY <1>3, <2>1 DEF Frame
      <3> QED BY <1>5, <3>1 DEF Check
    <2> QED BY <1>5, <2>2 DEF Check, Go, Points
  <1>6. CASE Flock(t)
    BY <1>6 DEF Flock, Go, Points
  <1>7. CASE Reread(t)
    <2>1. my' \in [Threads -> Frame]
      <3>1. PICK v \in Version, w \in Version : my' = [my EXCEPT ![t].next = v, ![t].cred = w]
        BY <1>3, <1>7, Values DEF Reread
      <3>2. [my[t] EXCEPT !.next = v, !.cred = w] \in Frame
        BY <1>3 DEF Frame
      <3>3. my' = [my EXCEPT ![t] = [my[t] EXCEPT !.next = v, !.cred = w]]
        BY <3>1
      <3> QED BY <3>2, <3>3
    <2> QED BY <1>7, <2>1 DEF Reread, Go, Points
  <1>8. CASE Exchange(t)
    <2>1. [my[t] EXCEPT !.next = NextVersion] \in Frame
      BY <1>3, <1>8, TypedRotate DEF Exchange, Frame, Version
    <2> QED BY <1>3, <1>8, <2>1, TypedRotate DEF Exchange, Go, Points
  <1>9. CASE LoseResponse(t)
    BY <1>3, <1>9, TypedRotate DEF LoseResponse, Go, Points
  <1>10. CASE PermanentFailure(t)
    BY <1>1, <1>10, TypedFailed DEF PermanentFailure, Failed
  <1>11. CASE TransientFailure(t)
    BY <1>1, <1>11, TypedFailed DEF TransientFailure, Failed
  <1>12. CASE Write(t)
    BY <1>3, <1>12 DEF Write, FileReplaced, Go, Points
  <1>13. CASE WriteFails(t)
    BY <1>1, <1>13, TypedFailed DEF WriteFails, Failed
  <1> QED BY <1>4, <1>5, <1>6, <1>7, <1>8, <1>9, <1>10, <1>11, <1>12, <1>13

LEMMA TypedApply ==
    ASSUME Types, HasObject, NEW t \in Threads,
           \/ Apply(t) \/ ApplyStates(t) \/ Refreshed(t) \/ Refused(t)
           \/ EnterCancelled(t) \/ Cancelled(t)
    PROVE  Types'
  <1> USE DEF Types, memory, disk, tokens
  <1>1. pc[t] \in {"apply", "applyStates", "refreshed", "refused"} => my[t].obj \in Objects
    BY DEF HasObject, Inside, Frame
  <1>2. my[t].next \in Version /\ my[t] \in Frame
    BY DEF Frame
  <1>3. CASE Apply(t)
    <2> DEFINE e == my[t].obj
               a == objects[e]
               c == IF a.cool = "rate_limited" THEN a.cool ELSE "none"
    <2>1. e \in Objects /\ a \in Object
      BY <1>1, <1>3 DEF Apply
    <2>2. CASE a.deleting
      <3>1. [a EXCEPT !.fails = 0] \in Object
        BY <2>1 DEF Object
      <3>2. objects' = [objects EXCEPT ![e] = [a EXCEPT !.fails = 0]]
        BY <1>3, <2>2 DEF Apply
      <3>3. pc' \in [Threads -> Points] /\ UNCHANGED <<my, sameGen>>
        BY <1>3, <2>2 DEF Apply, Go, Points
      <3> QED BY <1>3, <2>1, <3>1, <3>2, <3>3 DEF Apply
    <2>3. CASE ~a.deleting
      <3>1. [a EXCEPT !.fails = 0, !.cred = my[t].next, !.status = "enabled", !.cool = c] \in Object
        BY <1>2, <2>1 DEF Object, Reasons, Cooldowns
      <3>2. objects' = [objects EXCEPT ![e] = [a EXCEPT !.fails = 0, !.cred = my[t].next,
                                                 !.status = "enabled", !.cool = c]]
        BY <1>3, <2>1, <2>3 DEF Apply, Types, Object
      <3>3. objects' \in [Objects -> Object]
        BY <2>1, <3>1, <3>2
      <3>4. my' \in [Threads -> Frame]
        <4>1. PICK b \in BOOLEAN : my' = [my EXCEPT ![t].keep = b]
          BY <1>3, <2>3 DEF Apply
        <4>2. [my[t] EXCEPT !.keep = b] \in Frame
          BY <1>2 DEF Frame
        <4> QED BY <4>1, <4>2
      <3>5. pc' \in [Threads -> Points] /\ sameGen' \in [Threads -> BOOLEAN]
        <4>1. pc' = [pc EXCEPT ![t] = "applyStates"] /\ sameGen' = Bumped(e)
          BY <1>3, <2>3 DEF Apply, Go
        <4>2. pc' \in [Threads -> Points]
          BY <4>1 DEF Points
        <4> QED BY <4>1, <4>2, TypedBumped
      <3>6. UNCHANGED <<current, states, cache, reading, mutex, disk, tokens, events>>
        BY <1>3 DEF Apply
      <3> QED BY <3>3, <3>4, <3>5, <3>6
    <2> QED BY <2>2, <2>3
  <1>4. CASE ApplyStates(t)
    <2>1. pc' \in [Threads -> Points] /\ states' \in State
      BY <1>4, Values DEF ApplyStates, Go, Points
    <2>2. [cache EXCEPT !.match = TRUE, !.cred = my[t].next] \in [has : BOOLEAN, match : BOOLEAN, cred : Version]
      BY <1>2
    <2>3. cache' \in [has : BOOLEAN, match : BOOLEAN, cred : Version]
      BY <1>4, <2>2 DEF ApplyStates
    <2> QED BY <1>4, <2>1, <2>3 DEF ApplyStates
  <1>5. CASE Refreshed(t)
    <2>1. objects' \in [Objects -> Object]
      BY <1>1, <1>5, TypedObject DEF Refreshed
    <2>2. pc' \in [Threads -> Points] /\ my' \in [Threads -> Frame] /\ sameGen' \in [Threads -> BOOLEAN]
      BY <1>5, TypedReturn DEF Refreshed, Go, Points
    <2> QED BY <1>5, <2>1, <2>2 DEF Refreshed
  <1>6. CASE Refused(t)
    BY <1>1, <1>6, TypedObject, TypedEnds DEF Refused
  <1>7. CASE EnterCancelled(t)
    BY <1>7, TypedEnds DEF EnterCancelled
  <1>8. CASE Cancelled(t)
    BY <1>8 DEF Cancelled, Go, Points
  <1> QED BY <1>3, <1>4, <1>5, <1>6, <1>7, <1>8

LEMMA TypedPenalties ==
    ASSUME Types, HasObject, NEW t \in Threads,
           Penalty(t) \/ PenaltyStates(t) \/ PenaltyPersist(t)
    PROVE  Types'
  <1> USE DEF Types, memory, disk, tokens
  <1>1. my[t] \in Frame /\ my[t].penalty \in Penalties \cup {"none"} /\ my[t].cred \in Version
    BY DEF Frame
  <1>2. CASE Penalty(t)
    <2>1. objects' \in [Objects -> Object]
      BY <1>2, TypedObject DEF Penalty
    <2>2. my' \in [Threads -> Frame]
      <3>1. current # None => [my[t] EXCEPT !.cred = objects[current].cred] \in Frame
        <4>1. current # None => objects[current].cred \in Version
          BY TypedObject DEF Object
        <4> QED BY <1>1, <4>1 DEF Frame
      <3> QED BY <1>2, <3>1, TypedEnds DEF Penalty
    <2>3. pc' \in [Threads -> Points] /\ sameGen' \in [Threads -> BOOLEAN]
      BY <1>2, TypedEnds DEF Penalty, Go, Points
    <2> QED BY <1>2, <2>1, <2>2, <2>3 DEF Penalty
  <1>3. CASE PenaltyStates(t)
    <2>1. states' \in State
      <3>1. \A c \in Cooldowns : [states EXCEPT !.cool = c] \in State
        BY DEF State
      <3>2. [states EXCEPT !.disabled = TRUE, !.fingerprint = my[t].cred] \in State
        BY <1>1 DEF State
      <3> QED BY <1>3, <3>1, <3>2 DEF PenaltyStates
    <2> QED BY <1>3, <2>1 DEF PenaltyStates, Go, Points
  <1>4. CASE PenaltyPersist(t)
    BY <1>4, TypedEnds DEF PenaltyPersist
  <1> QED BY <1>2, <1>3, <1>4

LEMMA TypedDelete ==
    ASSUME Types, HasObject, NEW t \in Threads,
           \/ DeleteStart(t) \/ Mark(t) \/ MarkStates(t) \/ MarkPersist(t) \/ DeleteLock(t)
           \/ DeleteFile(t) \/ DeleteFindsNothing(t) \/ DeleteFails(t) \/ DeleteStates(t)
    PROVE  Types'
  <1> USE DEF Types, memory, disk, tokens
  <1>1. my[t] \in Frame /\ my[t].cred \in Version
    BY DEF Frame
  <1>2. pc[t] \in {"mark", "markStates", "markPersist", "deleteLock", "deleteFile", "deleteStates"}
          => my[t].obj \in Objects
    BY DEF HasObject, Inside, Frame
  <1>3. CASE DeleteStart(t)
    <2>1. [my[t] EXCEPT !.obj = current, !.again = FALSE] \in Frame
      BY <1>1 DEF Frame
    <2>2. my' \in [Threads -> Frame]
      BY <1>3, <2>1, TypedEnds DEF DeleteStart
    <2>3. pc' \in [Threads -> Points] /\ sameGen' \in [Threads -> BOOLEAN]
      BY <1>3, TypedEnds DEF DeleteStart, Go, Points
    <2> QED BY <1>3, <2>2, <2>3 DEF DeleteStart
  <1>4. CASE Mark(t)
    <2>1. my[t].obj \in Objects
      BY <1>2, <1>4 DEF Mark, Go
    <2>2. objects[my[t].obj] \in Object /\ objects[my[t].obj].cred \in Version
      BY <2>1, TypedObject DEF Object
    <2>3. [objects[my[t].obj] EXCEPT !.deleting = TRUE, !.status = "removed"] \in Object
      BY <2>2 DEF Object, Reasons
    <2>4. objects' \in [Objects -> Object]
      BY <1>4, <2>1, <2>3 DEF Mark
    <2>5. [my[t] EXCEPT !.cred = objects[my[t].obj].cred] \in Frame
      BY <1>1, <2>2 DEF Frame
    <2>6. my' \in [Threads -> Frame]
      BY <1>4, <2>5 DEF Mark
    <2> QED BY <1>4, <2>4, <2>6, TypedBumped DEF Mark, Go, Points
  <1>5. CASE MarkStates(t)
    <2>1. [states EXCEPT !.disabled = TRUE, !.fingerprint = my[t].cred] \in State
      BY <1>1 DEF State
    <2> QED BY <1>5, <2>1 DEF MarkStates, Go, Points
  <1>6. CASE MarkPersist(t)
    BY <1>6 DEF MarkPersist, Go, Points
  <1>7. CASE DeleteLock(t)
    <2>1. [my[t] EXCEPT !.again = TRUE] \in Frame
      BY <1>1 DEF Frame
    <2>2. my' \in [Threads -> Frame]
      BY <1>7, <2>1 DEF DeleteLock
    <2>3. objects' \in [Objects -> Object]
      BY <1>2, <1>7, TypedObject DEF DeleteLock, Go
    <2> QED BY <1>7, <2>2, <2>3 DEF DeleteLock, Go, Points
  <1>8. CASE DeleteFile(t)
    BY <1>8, Values DEF DeleteFile, Go, Points
  <1>9. CASE DeleteFindsNothing(t)
    BY <1>2, <1>9, TypedObject, TypedEnds DEF DeleteFindsNothing, Unlock
  <1>10. CASE DeleteFails(t)
    BY <1>2, <1>10, TypedObject, TypedEnds DEF DeleteFails
  <1>11. CASE DeleteStates(t)
    BY <1>11, Values DEF DeleteStates, Go, Points
  <1> QED BY <1>3, <1>4, <1>5, <1>6, <1>7, <1>8, <1>9, <1>10, <1>11

LEMMA TypedImport ==
    ASSUME Types, HasObject, NEW t \in Threads,
           \/ ImportStart(t) \/ ImportInvalid(t) \/ ImportLock(t) \/ ImportFails(t)
           \/ ImportWrite(t) \/ ImportRevive(t)
    PROVE  Types'
  <1> USE DEF Types, memory, disk, tokens
  <1>1. my[t] \in Frame /\ my[t].next \in Version /\ my[t].obj \in Objects \cup {None}
    BY DEF Frame
  <1>2. CASE ImportStart(t)
    <2>1. PICK v \in Version : my' = [my EXCEPT ![t].obj = current, ![t].next = v]
      BY <1>2, NewVersion DEF ImportStart, Version
    <2>2. [my[t] EXCEPT !.obj = current, !.next = v] \in Frame
      BY <1>1 DEF Frame
    <2>3. my' \in [Threads -> Frame]
      BY <2>1, <2>2
    <2>4. refreshTok' \in [Versions -> {"unissued", "accepted", "spent", "lost"}]
      BY <1>2 DEF ImportStart
    <2> QED BY <1>2, <2>3, <2>4 DEF ImportStart, Go, Points
  <1>3. CASE ImportInvalid(t)
    BY <1>3, TypedReturn DEF ImportInvalid
  <1>4. CASE ImportLock(t)
    <2>1. my[t].obj \in Objects
      BY <1>1, <1>4 DEF ImportLock, Go, HasObject
    <2> QED BY <1>4, <2>1, TypedObject DEF ImportLock, Go, Points
  <1>5. CASE ImportFails(t)
    BY <1>1, <1>5, TypedObject, TypedReturn DEF ImportFails
  <1>6. CASE ImportWrite(t)
    BY <1>1, <1>6 DEF ImportWrite, Go, Points
  <1>7. CASE ImportRevive(t)
    BY <1>7, TypedObject DEF ImportRevive, Go, Points
  <1> QED BY <1>2, <1>3, <1>4, <1>5, <1>6, <1>7

LEMMA TypedScan ==
    ASSUME Types, HasObject, NEW t \in Threads,
           ScanStart(t) \/ Scans(t)
    PROVE  Types'
  <1> USE DEF Types, memory, disk, tokens
  <1>1. my[t].obj \in Objects \cup {None}
    BY DEF Frame
  <1>2. CASE ScanStart(t)
    BY <1>2 DEF ScanStart, Go, Points
  <1>3. CASE ScanRead(t)
    <2>1. reading' \in [cred : Version, match : BOOLEAN]
      BY <1>3 DEF ScanRead
    <2> QED BY <1>3, <2>1 DEF ScanRead, Go, Points
  <1>4. CASE ScanApply(t)
    <2>1. pc' \in [Threads -> Points] /\ mutex' \in Threads \cup {Free}
      BY <1>4 DEF ScanApply, Go, Points
    <2>2. cache' \in [has : BOOLEAN, match : BOOLEAN, cred : Version]
          /\ reading' \in [cred : Version, match : BOOLEAN]
      <3>1. reading' = [cred |-> None, match |-> FALSE]
        BY <1>4 DEF ScanApply
      <3>2. \/ cache' = [has |-> TRUE, match |-> reading.match, cred |-> reading.cred]
            \/ cache' = [cache EXCEPT !.has = FALSE, !.match = FALSE]
        BY <1>4 DEF ScanApply, ScanFindsNothing
      <3>3. [cache EXCEPT !.has = FALSE, !.match = FALSE] \in [has : BOOLEAN, match : BOOLEAN, cred : Version]
        OBVIOUS
      <3>4. [has |-> TRUE, match |-> reading.match, cred |-> reading.cred]
              \in [has : BOOLEAN, match : BOOLEAN, cred : Version]
        OBVIOUS
      <3>5. [cred |-> None, match |-> FALSE] \in [cred : Version, match : BOOLEAN]
        BY Values
      <3> QED BY <3>1, <3>2, <3>3, <3>4, <3>5
    <2>3. /\ objects' \in [Objects -> Object] /\ current' \in Objects \cup {None}
          /\ states' \in State /\ sameGen' \in [Threads -> BOOLEAN]
      <3>1. CASE ScanFindsNothing
        <4>1. "removed" \in Reasons
          BY DEF Reasons
        <4> QED BY <3>1, <4>1, TypedObject DEF ScanFindsNothing
      <3>2. CASE ScanUpdates
        <4>1. current \in Objects /\ objects[current] \in Object /\ reading.cred \in Version
          BY <3>2 DEF ScanUpdates
        <4>2. PICK s \in Reasons, c \in Cooldowns :
                 objects' = [objects EXCEPT ![current].cred = reading.cred,
                                            ![current].status = s, ![current].cool = c]
          <5>1. objects[current].status \in Reasons /\ objects[current].cool \in Cooldowns
            BY <4>1 DEF Object
          <5> QED BY <3>2, <4>1, <5>1 DEF ScanUpdates, Reasons, Cooldowns
        <4>3. [objects[current] EXCEPT !.cred = reading.cred, !.status = s, !.cool = c] \in Object
          BY <4>1 DEF Object
        <4>4. objects' \in [Objects -> Object]
          BY <4>1, <4>2, <4>3
        <4> QED BY <3>2, <4>4, Values, TypedBumped DEF ScanUpdates
      <3>3. CASE ScanAdds
        <4>1. Fresh \in Objects
          BY <3>3, SpareObject DEF ScanAdds
        <4> DEFINE s == IF states.disabled /\ ~(states.fingerprint # None /\ states.fingerprint # reading.cred)
                        THEN "restored" ELSE "enabled"
                   c == IF states.disabled THEN "none" ELSE states.cool
        <4>2. [NewObject(reading.cred) EXCEPT !.status = s, !.cool = c] \in Object
          <5>1. s \in Reasons /\ c \in Cooldowns
            BY DEF Reasons, Cooldowns, State
          <5>2. NewObject(reading.cred) \in Object
            BY Values
          <5> HIDE DEF s, c
          <5> QED BY <5>1, <5>2 DEF Object
        <4>3. objects' \in [Objects -> Object]
          BY <3>3, <4>1, <4>2 DEF ScanAdds
        <4> QED BY <3>3, <4>1, <4>3, Values DEF ScanAdds
      <3> QED BY <1>4, <3>1, <3>2, <3>3 DEF ScanApply
    <2> QED BY <1>4, <2>1, <2>2, <2>3 DEF ScanApply
  <1>5. CASE Persist(t)
    BY <1>5 DEF Persist, Go, Points
  <1>6. CASE ScanPersist(t)
    BY <1>6, TypedReturn DEF ScanPersist
  <1>7. CASE Leave(t)
    <2>1. objects' \in [Objects -> Object] /\ mutex' \in Threads \cup {Free}
      <3>1. CASE my[t].op = "scan"
        BY <1>7, <3>1 DEF Leave
      <3>2. CASE my[t].op # "scan" /\ my[t].obj = None
        BY <1>7, <3>2 DEF Leave
      <3>3. CASE my[t].op # "scan" /\ my[t].obj # None
        <4>1. objects' = [objects EXCEPT ![my[t].obj].locked = FALSE] /\ mutex' = Free
          BY <1>7, <3>3 DEF Leave
        <4>2. my[t].obj \in Objects
          BY <1>1, <3>3
        <4>3. objects' \in [Objects -> Object]
          BY <4>1, <4>2, TypedObject
        <4> QED BY <4>1, <4>3
      <3> QED BY <3>1, <3>2, <3>3
    <2> QED BY <1>7, <2>1, TypedReturn DEF Leave
  <1> QED BY <1>2, <1>3, <1>4, <1>5, <1>6, <1>7 DEF Scans

LEMMA TypedOutside ==
    ASSUME Types, Environment
    PROVE  Types'
  <1> USE DEF Types, memory, disk, tokens
  <1>1. ASSUME NEW kind, Outside(kind) PROVE events' \in 0..MaxEvents
    BY <1>1, ConstantsAssumption DEF Outside
  <1>2. ASSUME NEW v \in Versions, Expire(v) \/ Revoke(v) PROVE Types'
    BY <1>1, <1>2 DEF Expire, Revoke
  <1>3. ASSUME NEW c \in Cooldowns \ {"none"}, CooldownEnds(c) PROVE Types'
    <2>1. "none" \in Cooldowns
      BY DEF Cooldowns
    <2>2. objects' \in [Objects -> Object]
      BY <1>3, <2>1 DEF CooldownEnds, Object
    <2>3. states' \in State /\ stateFile' \in State
      BY <1>3, <2>1 DEF CooldownEnds, State
    <2> QED BY <1>3, <2>2, <2>3 DEF CooldownEnds
  <1>4. CASE SiblingLocks
    BY <1>1, <1>4 DEF SiblingLocks
  <1>5. CASE SiblingActs
    <2>1. file' \in Version /\ refreshTok' \in [Versions -> {"unissued", "accepted", "spent", "lost"}]
      BY <1>5, NewVersion, TypedRotate, Values DEF SiblingActs, FileReplaced, Version
    <2>2. cache' \in [has : BOOLEAN, match : BOOLEAN, cred : Version]
          /\ reading' \in [cred : Version, match : BOOLEAN]
      BY <1>5 DEF SiblingActs, FileReplaced
    <2> QED BY <1>5, <2>1, <2>2 DEF SiblingActs
  <1>6. CASE Restart
    <2>1. PICK k \in State : /\ states' = k /\ stateFile' = k
                             /\ objects' = [e \in Objects |->
                                   IF e = 1 /\ file # None
                                   THEN [NewObject(file) EXCEPT
                                          !.status = IF k.disabled THEN "restored" ELSE "enabled",
                                          !.cool = IF k.disabled THEN "none" ELSE k.cool]
                                   ELSE NewObject(None)]
      <3> DEFINE other == stateFile.fingerprint # None /\ stateFile.fingerprint # file
                 kept == IF file # None /\ stateFile.disabled /\ other THEN EmptyState ELSE stateFile
      <3>1. kept \in State
        BY Values
      <3>2. states' = kept /\ stateFile' = kept
        BY <1>6 DEF Restart
      <3>3. objects' = [e \in Objects |->
                          IF e = 1 /\ file # None
                          THEN [NewObject(file) EXCEPT
                                 !.status = IF kept.disabled THEN "restored" ELSE "enabled",
                                 !.cool = IF kept.disabled THEN "none" ELSE kept.cool]
                          ELSE NewObject(None)]
        BY <1>6 DEF Restart
      <3> HIDE DEF kept
      <3> QED BY <3>1, <3>2, <3>3
    <2>2. objects' \in [Objects -> Object]
      <3>1. NewObject(file) \in Object /\ NewObject(None) \in Object
        BY Values
      <3> DEFINE s == IF k.disabled THEN "restored" ELSE "enabled"
                 c == IF k.disabled THEN "none" ELSE k.cool
      <3>2. s \in Reasons /\ c \in Cooldowns
        BY DEF Reasons, Cooldowns, State
      <3>3. [NewObject(file) EXCEPT !.status = s, !.cool = c] \in Object
        <4> HIDE DEF s, c
        <4> QED BY <3>1, <3>2 DEF Object
      <3> QED BY <2>1, <3>1, <3>3
    <2>3. /\ pc' \in [Threads -> Points] /\ my' \in [Threads -> Frame]
          /\ sameGen' \in [Threads -> BOOLEAN] /\ current' \in Objects \cup {None}
      BY <1>6, Values DEF Restart, Points
    <2>4. /\ cache' \in [has : BOOLEAN, match : BOOLEAN, cred : Version]
          /\ reading' \in [cred : Version, match : BOOLEAN]
          /\ mutex' \in Threads \cup {Free} /\ flock' \in Threads \cup {Free, Sibling}
      BY <1>6, Values DEF Restart
    <2>5. refreshTok' \in [Versions -> {"unissued", "accepted", "spent", "lost"}]
      BY <1>6 DEF Restart
    <2> QED BY <1>1, <1>6, <2>1, <2>2, <2>3, <2>4, <2>5 DEF Restart
  <1> QED BY <1>2, <1>3, <1>4, <1>5, <1>6 DEF Environment

LEMMA TypedStep == Types /\ HasObject /\ [Next]_vars => Types'
  <1> SUFFICES ASSUME Types, HasObject, [Next]_vars PROVE Types'
    OBVIOUS
  <1>1. CASE UNCHANGED vars
    BY <1>1 DEF vars, Types
  <1>2. CASE Environment
    BY <1>2, TypedOutside
  <1>3. ASSUME NEW t \in Threads, \/ \E op \in Ops : Start(t, op)
                                 \/ Works(t) \/ Locks(t) \/ Interrupts(t)
        PROVE  Types'
    BY <1>3, TypedUse, TypedRefresh, TypedApply, TypedPenalties, TypedDelete, TypedImport, TypedScan
       DEF Works, Locks, Interrupts, Refreshes, Deletes
  <1> QED BY <1>1, <1>2, <1>3 DEF Next

-----------------------------------------------------------------------------
(* An action of a goroutine leaves the others where they are.                *)

Acts(t) == (\E op \in Ops : Start(t, op)) \/ Works(t) \/ Locks(t) \/ Interrupts(t)

LEMMA Alone ==
    ASSUME Types, NEW t \in Threads, Acts(t), NEW u \in Threads, u # t
    PROVE  pc'[u] = pc[u] /\ my'[u] = my[u]
  <1> USE DEF Types, Go, Return
  <1>1. CASE \E op \in Ops : Start(t, op)
    BY <1>1 DEF Start
  <1>2. CASE Acquire(t) \/ Lease(t) \/ Send(t) \/ Lookup(t)
    BY <1>2 DEF Acquire, Lease, Send, Lookup
  <1>3. CASE Refreshes(t)
    BY <1>3 DEF Refreshes, Check, Flock, Reread, Exchange, LoseResponse, PermanentFailure,
                TransientFailure, Write, WriteFails, Failed, Apply, ApplyStates, Refreshed,
                Refused, GiveUp
  <1>4. CASE Deletes(t)
    BY <1>4 DEF Deletes, Mark, MarkStates, MarkPersist, DeleteFile, DeleteFindsNothing,
                DeleteStates, DeleteStops
  <1>5. CASE Scans(t)
    BY <1>5 DEF Scans, ScanRead, ScanApply, Persist, ScanPersist, Leave
  <1>6. CASE \/ Penalty(t) \/ PenaltyStates(t) \/ PenaltyPersist(t)
             \/ ImportInvalid(t) \/ ImportWrite(t) \/ ImportRevive(t)
    BY <1>6 DEF Penalty, PenaltyStates, PenaltyPersist, AfterPenalty,
                ImportInvalid, ImportWrite, ImportRevive
  <1>7. CASE Locks(t)
    BY <1>7 DEF Locks, Enter, DeleteStart, DeleteStops, DeleteLock, ImportStart, ImportLock, ScanStart
  <1>8. CASE Interrupts(t)
    BY <1>8 DEF Interrupts, EnterCancelled, GiveUp, Cancelled, DeleteFails, DeleteStops, ImportFails
  <1> QED BY <1>1, <1>2, <1>3, <1>4, <1>5, <1>6, <1>7, <1>8 DEF Acts, Works

(* Outside the pool nothing moves a goroutine, except that a restart ends    *)
(* them all.                                                                 *)
LEMMA Outsiders == Environment => UNCHANGED <<pc, my>> \/ Restart
  BY DEF Environment, Expire, Revoke, CooldownEnds, SiblingLocks, SiblingActs

LEMMA Idle == Restart => \A t \in Threads : pc'[t] = "idle" /\ my'[t] = EmptyFrame
  BY DEF Restart

-----------------------------------------------------------------------------
(* Where the code follows the pointer to an account, there is one.           *)

Pointed(t) ==
    Inside(t) \/ pc[t] \in {"lease", "enter", "mark", "markStates", "markPersist",
                          "deleteLock", "importLock"} => my[t].obj # None

LEMMA PointedStep ==
    ASSUME Types, NEW t \in Threads, Pointed(t), Acts(t)
    PROVE  Pointed(t)'
  <1> USE DEF Types, Go, Return, Pointed, Inside, EmptyFrame
  <1>0. my[t] \in Frame
    OBVIOUS
  <1>1. CASE \E op \in Ops : Start(t, op)
    BY <1>1 DEF Start, Ops
  <1>2. CASE Acquire(t) \/ Lease(t) \/ Send(t) \/ Lookup(t)
    BY <1>0, <1>2 DEF Acquire, Available, Lease, Send, Lookup, Frame
  <1>3. CASE Refreshes(t)
    <2>1. CASE Check(t) \/ Flock(t) \/ Reread(t) \/ Exchange(t) \/ LoseResponse(t)
      BY <1>0, <2>1 DEF Check, Flock, Reread, Exchange, LoseResponse, Frame
    <2>2. CASE PermanentFailure(t) \/ TransientFailure(t) \/ Write(t) \/ WriteFails(t)
      BY <1>0, <2>2 DEF PermanentFailure, TransientFailure, Write, WriteFails, Failed, Frame
    <2>3. CASE Apply(t) \/ ApplyStates(t) \/ Refreshed(t) \/ Refused(t)
      BY <1>0, <2>3 DEF Apply, ApplyStates, Refreshed, Refused, GiveUp, Frame
    <2> QED BY <1>3, <2>1, <2>2, <2>3 DEF Refreshes
  <1>4. CASE Deletes(t)
    BY <1>0, <1>4 DEF Deletes, Mark, MarkStates, MarkPersist, DeleteFile, DeleteFindsNothing,
                DeleteStates, DeleteStops, Frame
  <1>5. CASE Scans(t)
    BY <1>0, <1>5 DEF Scans, ScanRead, ScanApply, Persist, ScanPersist, Leave, Frame
  <1>6. CASE \/ Penalty(t) \/ PenaltyStates(t) \/ PenaltyPersist(t)
             \/ ImportInvalid(t) \/ ImportWrite(t) \/ ImportRevive(t)
    BY <1>0, <1>6 DEF Penalty, PenaltyStates, PenaltyPersist, AfterPenalty,
                ImportInvalid, ImportWrite, ImportRevive, Frame
  <1>7. CASE Locks(t)
    BY <1>0, <1>7 DEF Locks, Enter, DeleteStart, DeleteStops, DeleteLock, ImportStart, ImportLock,
                      ScanStart, Frame
  <1>8. CASE Interrupts(t)
    BY <1>0, <1>8 DEF Interrupts, EnterCancelled, GiveUp, Cancelled, DeleteFails, DeleteStops,
                      ImportFails, Frame
  <1> QED BY <1>1, <1>2, <1>3, <1>4, <1>5, <1>6, <1>7, <1>8 DEF Acts, Works

LEMMA HasObjectStep == Types /\ HasObject /\ [Next]_vars => HasObject'
  <1> SUFFICES ASSUME Types, HasObject, [Next]_vars, NEW u \in Threads PROVE Pointed(u)'
    BY DEF HasObject, Pointed
  <1>0. Pointed(u)
    BY DEF HasObject, Pointed
  <1>1. CASE UNCHANGED <<pc, my>>
    BY <1>0, <1>1 DEF Pointed, Inside
  <1>2. CASE Restart
    BY <1>2, Idle DEF Pointed, Inside
  <1>3. ASSUME NEW t \in Threads, Acts(t) PROVE Pointed(u)'
    <2>1. CASE u = t
      BY <1>0, <1>3, <2>1, PointedStep
    <2>2. CASE u # t
      <3>1. pc'[u] = pc[u] /\ my'[u] = my[u]
        BY <1>3, <2>2, Alone
      <3> QED BY <1>0, <3>1 DEF Pointed, Inside
    <2> QED BY <2>1, <2>2
  <1> QED BY <1>1, <1>2, <1>3, Outsiders DEF Next, Acts, vars

(* The types of the state, for every number of goroutines and of versions,   *)
(* and an account wherever the code follows a pointer to one.                *)
THEOREM TypeCorrect == Spec => []TypeOK
  <1>1. Init => TypeOK
    <2>1. Init => HasObject
      BY DEF Init, HasObject, Inside
    <2> QED BY <2>1, TypedInit, Split
  <1>2. TypeOK /\ [Next]_vars => TypeOK'
    <2> SUFFICES ASSUME TypeOK, [Next]_vars PROVE TypeOK'
      OBVIOUS
    <2>1. Types /\ HasObject
      BY Split
    <2>2. Types' /\ HasObject'
      BY <2>1, TypedStep, HasObjectStep
    <2> QED BY <2>2 DEF TypeOK, Types
  <1> QED BY <1>1, <1>2, PTL DEF Spec

-----------------------------------------------------------------------------
(* What is marked for deletion is not enabled.                               *)

LEMMA DeletingStep ==
    ASSUME TypeOK, DeletingIsDisabled, [Next]_vars
    PROVE  DeletingIsDisabled'
  <1> USE DEF DeletingIsDisabled, Go, memory
  <1>0. Types /\ HasObject
    BY Split
  <1>1. \A e \in Objects : objects[e] \in Object
    BY <1>0 DEF Types
  <1>2. CASE UNCHANGED objects
    BY <1>2
  <1>3. CASE Environment
    <2>1. CASE Restart
      BY <2>1 DEF Restart, NewObject
    <2>2. CASE ~Restart
      <3>1. (\E c \in Cooldowns \ {"none"} : CooldownEnds(c)) \/ UNCHANGED objects
        BY <1>3, <2>2 DEF Environment, Expire, Revoke, SiblingLocks, SiblingActs
      <3>2. ASSUME NEW c, CooldownEnds(c) PROVE DeletingIsDisabled'
        BY <1>1, <3>2 DEF CooldownEnds, Object
      <3> QED BY <1>2, <3>1, <3>2
    <2> QED BY <2>1, <2>2
  <1>4. ASSUME NEW t \in Threads, Acts(t), ~UNCHANGED objects PROVE DeletingIsDisabled'
    <2>0. my[t].obj \in Objects \cup {None} /\ my[t].penalty \in Penalties \cup {"none"}
      BY <1>0 DEF Types, Frame
    <2>1. CASE Enter(t) \/ DeleteLock(t) \/ ImportLock(t) \/ Leave(t) \/ DeleteFails(t)
               \/ DeleteFindsNothing(t) \/ ImportFails(t) \/ Refreshed(t) \/ Refused(t)
      <3>1. \E b \in BOOLEAN : objects' = [objects EXCEPT ![my[t].obj].locked = b]
        BY <1>4, <2>1 DEF Enter, DeleteLock, ImportLock, Leave, DeleteFails,
           DeleteFindsNothing, Unlock, ImportFails, Refreshed, Refused
      <3> QED BY <1>0, <1>1, <3>1 DEF Types, Object
    <2>2. CASE PermanentFailure(t) \/ TransientFailure(t) \/ WriteFails(t)
      BY <1>0, <1>1, <2>0, <2>2 DEF PermanentFailure, TransientFailure, WriteFails, Failed, Types, Object
    <2>3. CASE Apply(t)
      <3>1. my[t].obj \in Objects
        BY <1>0, <2>0, <2>3 DEF Apply, HasObject, Inside
      <3> QED BY <1>0, <1>1, <2>3, <3>1 DEF Apply, Types, Object
    <2>4. CASE Penalty(t)
      <3>1. \/ \E s \in Reasons \ {"enabled"} : objects' = [objects EXCEPT ![current].status = s]
            \/ \E c : objects' = [objects EXCEPT ![current].cool = c]
        BY <1>4, <2>0, <2>4 DEF Penalty, Penalties, Reasons, Cooldowns
      <3> QED BY <1>0, <1>1, <3>1 DEF Types, Object
    <2>5. CASE Mark(t) \/ ImportRevive(t)
      BY <1>0, <1>1, <2>0, <2>5 DEF Mark, ImportRevive, Types, Object
    <2>6. CASE ScanApply(t)
      <3>1. CASE ScanFindsNothing \/ ScanUpdates
        BY <1>0, <1>1, <3>1 DEF ScanFindsNothing, ScanUpdates, Types, Object
      <3>2. CASE ScanAdds
        BY <1>0, <1>1, <3>2 DEF ScanAdds, NewObject, Types, Object
      <3> QED BY <2>6, <3>1, <3>2 DEF ScanApply
    <2>7. \/ Enter(t) \/ DeleteLock(t) \/ ImportLock(t) \/ Leave(t) \/ DeleteFails(t)
          \/ DeleteFindsNothing(t) \/ ImportFails(t) \/ Refreshed(t) \/ Refused(t)
          \/ PermanentFailure(t) \/ TransientFailure(t) \/ WriteFails(t) \/ Apply(t)
          \/ Penalty(t) \/ Mark(t) \/ ImportRevive(t) \/ ScanApply(t)
      BY <1>4 DEF Acts, Start, Works, Acquire, Lease, Send, Lookup, Refreshes, Check, Flock, Reread,
         Exchange, LoseResponse, Write, ApplyStates, Deletes, MarkStates, MarkPersist, DeleteFile,
         DeleteStates, Scans, ScanRead, Persist, ScanPersist, PenaltyStates, PenaltyPersist,
         ImportInvalid, ImportWrite, Locks, DeleteStart, ImportStart, ScanStart,
         Interrupts, EnterCancelled, Cancelled
    <2> QED BY <2>1, <2>2, <2>3, <2>4, <2>5, <2>6, <2>7
  <1> QED BY <1>2, <1>3, <1>4 DEF Next, Acts, vars

(* An account marked for deletion is not enabled, whichever refresh, scan,   *)
(* import or penalty of it is under way: none of the four places that enable *)
(* an account forgets to look at the mark.                                   *)
THEOREM DeletingDisabled == Spec => []DeletingIsDisabled
  <1>1. Init => DeletingIsDisabled
    BY DEF Init, DeletingIsDisabled, NewObject
  <1> QED BY <1>1, DeletingStep, TypeCorrect, PTL DEF Spec

-----------------------------------------------------------------------------
(* Which operation is where, and who has mutationMu.                         *)

ScanPoints == {"scanStart", "scanRead", "scanApply", "scanPersist", "leave"}
Scanning(t) ==
    /\ pc[t] = "idle" => my[t] = EmptyFrame
    /\ pc[t] \in {"scanStart", "scanPersist"} => my[t].op = "scan"
    /\ my[t].op = "scan" => my[t].obj = None /\ pc[t] \in ScanPoints

Guarded(t) ==
    \/ pc[t] \in {"mark", "markStates", "markPersist", "deleteLock", "deleteFile", "deleteStates",
                  "importLock", "importWrite", "importRevive", "scanRead", "scanApply", "persist"}
    \/ pc[t] = "leave" /\ my[t].op # "scan"

Paths == \A t \in Threads : Scanning(t) /\ (Guarded(t) => mutex = t)

LEMMA EmptyFields == EmptyFrame.op = "none" /\ EmptyFrame.obj = None
  BY DEF EmptyFrame

LEMMA ScanningStep ==
    ASSUME Types, NEW t \in Threads, Scanning(t), Acts(t)
    PROVE  Scanning(t)'
  <1> USE EmptyFields DEF Types, Go, Return, Scanning, ScanPoints
  <1>0. my[t] \in Frame
    OBVIOUS
  <1>1. CASE \E op \in Ops : Start(t, op)
    BY <1>0, <1>1 DEF Start, Ops, Frame
  <1>2. CASE Acquire(t) \/ Lease(t) \/ Send(t) \/ Lookup(t)
    BY <1>0, <1>2 DEF Acquire, Available, Lease, Send, Lookup, Frame
  <1>3. CASE Refreshes(t)
    <2>1. CASE Check(t) \/ Flock(t) \/ Reread(t) \/ Exchange(t) \/ LoseResponse(t)
      BY <1>0, <2>1 DEF Check, Flock, Reread, Exchange, LoseResponse, Frame
    <2>2. CASE PermanentFailure(t) \/ TransientFailure(t) \/ Write(t) \/ WriteFails(t)
      BY <1>0, <2>2 DEF PermanentFailure, TransientFailure, Write, WriteFails, Failed, Frame
    <2>3. CASE Apply(t) \/ ApplyStates(t) \/ Refreshed(t) \/ Refused(t)
      BY <1>0, <2>3 DEF Apply, ApplyStates, Refreshed, Refused, GiveUp, Frame
    <2> QED BY <1>3, <2>1, <2>2, <2>3 DEF Refreshes
  <1>4. CASE Deletes(t)
    BY <1>0, <1>4 DEF Deletes, Mark, MarkStates, MarkPersist, DeleteFile, DeleteFindsNothing,
                DeleteStates, DeleteStops, Frame
  <1>5. CASE Scans(t)
    BY <1>0, <1>5 DEF Scans, ScanRead, ScanApply, Persist, ScanPersist, Leave, Frame
  <1>6. CASE \/ Penalty(t) \/ PenaltyStates(t) \/ PenaltyPersist(t)
             \/ ImportInvalid(t) \/ ImportWrite(t) \/ ImportRevive(t)
    BY <1>0, <1>6 DEF Penalty, PenaltyStates, PenaltyPersist, AfterPenalty,
                ImportInvalid, ImportWrite, ImportRevive, Frame
  <1>7. CASE Locks(t)
    BY <1>0, <1>7 DEF Locks, Enter, DeleteStart, DeleteStops, DeleteLock, ImportStart, ImportLock,
                      ScanStart, Frame
  <1>8. CASE Interrupts(t)
    BY <1>0, <1>8 DEF Interrupts, EnterCancelled, GiveUp, Cancelled, DeleteFails, DeleteStops,
                      ImportFails, Frame
  <1> QED BY <1>1, <1>2, <1>3, <1>4, <1>5, <1>6, <1>7, <1>8 DEF Acts, Works

(* Nobody enters the region of mutationMu without it, and nobody gives back  *)
(* the lock of another.                                                      *)
LEMMA MutexStep ==
    ASSUME Types, NEW t \in Threads, Scanning(t), Guarded(t) => mutex = t, Acts(t)
    PROVE  /\ Guarded(t)' => mutex' = t
           /\ mutex' # mutex => mutex \in {Free, t}
  <1> USE EmptyFields DEF Types, Go, Return, Guarded
  <1>0. my[t] \in Frame
    OBVIOUS
  <1>1. CASE \E op \in Ops : Start(t, op)
    BY <1>0, <1>1 DEF Start, Ops, Frame, memory
  <1>2. CASE Acquire(t) \/ Lease(t) \/ Send(t) \/ Lookup(t)
    BY <1>0, <1>2 DEF Acquire, Available, Lease, Send, Lookup, Frame, memory
  <1>3. CASE Refreshes(t)
    <2>1. CASE Check(t) \/ Flock(t) \/ Reread(t) \/ Exchange(t) \/ LoseResponse(t)
      BY <1>0, <2>1 DEF Check, Flock, Reread, Exchange, LoseResponse, Frame, memory
    <2>2. CASE PermanentFailure(t) \/ TransientFailure(t) \/ Write(t) \/ WriteFails(t)
      BY <1>0, <2>2 DEF PermanentFailure, TransientFailure, Write, WriteFails, Failed, Frame, memory
    <2>3. CASE Apply(t) \/ ApplyStates(t) \/ Refreshed(t) \/ Refused(t)
      BY <1>0, <2>3 DEF Apply, ApplyStates, Refreshed, Refused, GiveUp, Frame, memory
    <2> QED BY <1>3, <2>1, <2>2, <2>3 DEF Refreshes
  <1>4. CASE Deletes(t)
    BY <1>0, <1>4 DEF Deletes, Mark, MarkStates, MarkPersist, DeleteFile, DeleteFindsNothing,
                DeleteStates, DeleteStops, Unlock, Frame, memory
  <1>5. CASE Scans(t)
    BY <1>0, <1>5 DEF Scans, ScanRead, ScanApply, Persist, ScanPersist, Leave, Frame, memory,
                      Scanning, ScanPoints
  <1>6. CASE \/ Penalty(t) \/ PenaltyStates(t) \/ PenaltyPersist(t)
             \/ ImportInvalid(t) \/ ImportWrite(t) \/ ImportRevive(t)
    BY <1>0, <1>6 DEF Penalty, PenaltyStates, PenaltyPersist, AfterPenalty,
                ImportInvalid, ImportWrite, ImportRevive, Frame, memory
  <1>7. CASE Locks(t)
    BY <1>0, <1>7 DEF Locks, Enter, DeleteStart, DeleteStops, DeleteLock, ImportStart, ImportLock,
                      ScanStart, Frame, memory
  <1>8. CASE Interrupts(t)
    BY <1>0, <1>8 DEF Interrupts, EnterCancelled, GiveUp, Cancelled, DeleteFails, DeleteStops,
                      ImportFails, Frame, memory
  <1> QED BY <1>1, <1>2, <1>3, <1>4, <1>5, <1>6, <1>7, <1>8 DEF Acts, Works

LEMMA PathsStep == Types /\ Paths /\ [Next]_vars => Paths'
  <1> SUFFICES ASSUME Types, Paths, [Next]_vars, NEW u \in Threads
               PROVE  Scanning(u)' /\ (Guarded(u)' => mutex' = u)
    BY DEF Paths
  <1>0. Scanning(u) /\ (Guarded(u) => mutex = u)
    BY DEF Paths
  <1>1. CASE UNCHANGED <<pc, my, mutex>>
    BY <1>0, <1>1 DEF Scanning, Guarded
  <1>2. CASE Restart
    BY <1>2, Idle, EmptyFields DEF Scanning, Guarded
  <1>3. ASSUME NEW t \in Threads, Acts(t) PROVE Scanning(u)' /\ (Guarded(u)' => mutex' = u)
    <2>0. Scanning(t) /\ (Guarded(t) => mutex = t)
      BY DEF Paths
    <2>1. CASE u = t
      BY <1>3, <2>0, <2>1, ScanningStep, MutexStep
    <2>2. CASE u # t
      <3>1. pc'[u] = pc[u] /\ my'[u] = my[u]
        BY <1>3, <2>2, Alone
      <3>2. mutex' # mutex => mutex \in {Free, t}
        BY <1>3, <2>0, MutexStep
      <3> QED BY <1>0, <2>2, <3>1, <3>2, ConstantsAssumption DEF Scanning, Guarded
    <2> QED BY <2>1, <2>2
  <1>4. Environment => UNCHANGED <<pc, my, mutex>> \/ Restart
    BY DEF Environment, Expire, Revoke, CooldownEnds, SiblingLocks, SiblingActs, memory
  <1> QED BY <1>1, <1>2, <1>3, <1>4 DEF Next, Acts, vars

-----------------------------------------------------------------------------
(* The refresh lock of an account.                                           *)

OneInside ==
    /\ \A t \in Threads : Inside(t) => objects[my[t].obj].locked
    /\ \A t, u \in Threads : Inside(t) /\ Inside(u) /\ my[t].obj = my[u].obj => t = u
    /\ \A e \in Objects : objects[e].locked => \E t \in Threads : my[t].obj = e /\ Inside(t)

(* A goroutine takes a free lock and is inside, or stays where it is, or     *)
(* leaves and gives the lock back; no other lock is touched.                 *)
Locked(e, b) == /\ objects'[e].locked = b
                /\ \A f \in Objects \ {e} : objects'[f].locked = objects[f].locked
Passes(t) ==
    /\ \A e \in Objects : objects'[e].locked = objects[e].locked
    /\ Inside(t)' <=> Inside(t)
    /\ Inside(t) => my'[t].obj = my[t].obj
Takes(t) ==
    /\ ~Inside(t) /\ Inside(t)' /\ my'[t].obj = my[t].obj
    /\ my[t].obj # None => ~objects[my[t].obj].locked
    /\ Locked(my[t].obj, TRUE)
Gives(t) ==
    /\ Inside(t) /\ ~Inside(t)'
    /\ Locked(my[t].obj, FALSE)

LEMMA LocksUntouched ==
    ASSUME Types, NEW t \in Threads, OneInside,
           \/ UNCHANGED objects
           \/ \E e \in Objects : \E n : objects' = [objects EXCEPT ![e].fails = n]
           \/ \E e \in Objects : \E s : objects' = [objects EXCEPT ![e].status = s]
           \/ \E e \in Objects : \E c : objects' = [objects EXCEPT ![e].cool = c]
           \/ \E e \in Objects : \E b : objects' = [objects EXCEPT ![e].deleting = b]
           \/ Apply(t) /\ my[t].obj \in Objects
           \/ Mark(t) \/ ScanApply(t)
    PROVE  \A e \in Objects : objects'[e].locked = objects[e].locked
  <1> USE DEF Types
  <1>1. \A e \in Objects : objects[e] \in Object
    OBVIOUS
  <1>2. CASE UNCHANGED objects
    BY <1>2
  <1>3. CASE \/ \E e \in Objects : \E n : objects' = [objects EXCEPT ![e].fails = n]
             \/ \E e \in Objects : \E s : objects' = [objects EXCEPT ![e].status = s]
             \/ \E e \in Objects : \E c : objects' = [objects EXCEPT ![e].cool = c]
             \/ \E e \in Objects : \E b : objects' = [objects EXCEPT ![e].deleting = b]
    BY <1>1, <1>3 DEF Object
  <1>4. CASE Apply(t) /\ my[t].obj \in Objects
    <2> DEFINE e == my[t].obj
               a == objects[e]
               c == IF a.cool = "rate_limited" THEN a.cool ELSE "none"
    <2>1. CASE a.deleting
      <3>1. objects' = [objects EXCEPT ![e].fails = 0]
        BY <1>4, <2>1 DEF Apply
      <3> QED BY <1>1, <3>1 DEF Object
    <2>2. CASE ~a.deleting /\ e \in Objects
      <3>1. a \in Object
        BY <1>1, <2>2
      <3>2. objects' = [objects EXCEPT ![e] = [a EXCEPT !.fails = 0, !.cred = my[t].next,
                                                        !.status = "enabled", !.cool = c]]
        BY <1>4, <2>2, <3>1 DEF Apply, Object
      <3>3. [a EXCEPT !.fails = 0, !.cred = my[t].next, !.status = "enabled", !.cool = c].locked
               = a.locked
        BY <3>1 DEF Object
      <3> HIDE DEF a, c
      <3> QED BY <2>2, <3>2, <3>3 DEF a
    <2> QED BY <1>4, <2>1, <2>2
  <1>5. CASE Mark(t)
    BY <1>1, <1>5 DEF Mark, Object
  <1>6. CASE ScanApply(t)
    <2>1. CASE ScanFindsNothing
      BY <1>1, <2>1 DEF ScanFindsNothing, Object
    <2>2. CASE ScanUpdates
      <3>1. PICK cred, status, cool : objects' = [objects EXCEPT ![current].cred = cred,
                                  ![current].status = status, ![current].cool = cool]
        BY <2>2 DEF ScanUpdates
      <3> QED BY <1>1, <3>1 DEF Object
    <2>3. CASE ScanAdds
      <3>1. Fresh \in Objects /\ ~objects[Fresh].locked
        BY <2>3, SpareObject DEF ScanAdds, OneInside
      <3> QED BY <1>1, <2>3, <3>1 DEF ScanAdds, NewObject, Object
    <2> QED BY <1>6, <2>1, <2>2, <2>3 DEF ScanApply
  <1> QED BY <1>2, <1>3, <1>4, <1>5, <1>6

LEMMA LockMoved ==
    ASSUME Types, NEW e \in Objects, NEW b, objects' = [objects EXCEPT ![e].locked = b]
    PROVE  Locked(e, b)
  BY DEF Types, Object, Locked

LEMMA LockSteps ==
    ASSUME Types, HasObject, OneInside, NEW t \in Threads, Scanning(t), Acts(t)
    PROVE  Passes(t) \/ Takes(t) \/ Gives(t)
  <1> USE EmptyFields DEF Types, Go, Return, Inside
  <1>0. my[t] \in Frame /\ my[t].obj \in Objects \cup {None} /\ Pointed(t)
    BY DEF Frame, HasObject, Pointed
  <1>1. CASE \E op \in Ops : Start(t, op)
    BY <1>0, <1>1, LocksUntouched DEF Start, Ops, Frame, memory, Passes
  <1>2. CASE Acquire(t) \/ Lease(t) \/ Send(t) \/ Lookup(t)
    <2>1. ~Inside(t) /\ ~Inside(t)' /\ UNCHANGED objects
      BY <1>0, <1>2 DEF Acquire, Lease, Send, Lookup, Frame, memory
    <2> QED BY <2>1, LocksUntouched DEF Passes
  <1>3. CASE \/ Check(t) \/ Flock(t) \/ Reread(t) \/ Exchange(t) \/ LoseResponse(t)
             \/ PermanentFailure(t) \/ TransientFailure(t) \/ Write(t) \/ WriteFails(t)
             \/ Apply(t) \/ ApplyStates(t) \/ Cancelled(t)
    <2>1. Inside(t) /\ Inside(t)' /\ my'[t].obj = my[t].obj
      <3>1. CASE Check(t) \/ Flock(t) \/ Reread(t) \/ Exchange(t) \/ LoseResponse(t)
        BY <1>0, <3>1 DEF Check, Flock, Reread, Exchange, LoseResponse, Frame
      <3>2. CASE PermanentFailure(t) \/ TransientFailure(t) \/ Write(t) \/ WriteFails(t)
        BY <1>0, <3>2 DEF PermanentFailure, TransientFailure, Write, WriteFails, Failed, Frame
      <3>3. CASE Apply(t) \/ ApplyStates(t) \/ Cancelled(t)
        BY <1>0, <3>3 DEF Apply, ApplyStates, Cancelled, Frame
      <3> QED BY <1>3, <3>1, <3>2, <3>3
    <2>2. \A e \in Objects : objects'[e].locked = objects[e].locked
      <3>1. my[t].obj \in Objects
        BY <1>0, <2>1 DEF Pointed
      <3>2. \/ UNCHANGED objects \/ Apply(t)
            \/ objects' = [objects EXCEPT ![my[t].obj].fails = @ + 1]
        BY <1>3 DEF Check, Flock, Reread, Exchange, LoseResponse, PermanentFailure,
           TransientFailure, Write, WriteFails, Failed, ApplyStates, Cancelled, memory
      <3>3. CASE objects' = [objects EXCEPT ![my[t].obj].fails = @ + 1]
        BY <3>1, <3>3 DEF Object
      <3> QED BY <3>1, <3>2, <3>3, LocksUntouched
    <2> QED BY <2>1, <2>2 DEF Passes
  <1>4. CASE Refreshed(t) \/ Refused(t) \/ DeleteFindsNothing(t) \/ (DeleteFails(t) /\ pc[t] = "deleteFile")
    <2>1. Inside(t) /\ ~Inside(t)' /\ objects' = [objects EXCEPT ![my[t].obj].locked = FALSE]
      BY <1>0, <1>4 DEF Refreshed, Refused, GiveUp, DeleteFindsNothing, DeleteFails, DeleteStops,
         Unlock, Frame
    <2>2. my[t].obj \in Objects
      BY <1>0, <2>1 DEF Pointed
    <2> QED BY <2>1, <2>2, LockMoved DEF Gives
  <1>5. CASE EnterCancelled(t) \/ (DeleteFails(t) /\ pc[t] # "deleteFile") \/ DeleteStart(t)
             \/ ImportInvalid(t) \/ ScanPersist(t) \/ ScanStart(t) \/ ImportStart(t)
    <2>1. UNCHANGED objects
      BY <1>5 DEF EnterCancelled, DeleteFails, DeleteStart, ImportInvalid, ScanPersist, ScanStart,
         ImportStart, memory
    <2>2. ~Inside(t) /\ ~Inside(t)'
      BY <1>0, <1>5 DEF EnterCancelled, GiveUp, DeleteFails, DeleteStart, DeleteStops,
         ImportInvalid, ScanPersist, ScanStart, ImportStart, Scanning, Frame
    <2> QED BY <2>1, <2>2, LocksUntouched DEF Passes
  <1>6. CASE Enter(t) \/ DeleteLock(t) \/ ImportLock(t)
    <2>1. /\ ~Inside(t) /\ Inside(t)' /\ my'[t].obj = my[t].obj /\ my[t].obj # None
          /\ ~objects[my[t].obj].locked /\ objects' = [objects EXCEPT ![my[t].obj].locked = TRUE]
      BY <1>0, <1>6 DEF Enter, DeleteLock, ImportLock, Pointed, Frame
    <2> QED BY <1>0, <2>1, LockMoved DEF Takes
  <1>7. CASE \/ Mark(t) \/ MarkStates(t) \/ MarkPersist(t) \/ DeleteFile(t) \/ DeleteStates(t)
             \/ Penalty(t) \/ PenaltyStates(t) \/ PenaltyPersist(t)
             \/ ImportWrite(t) \/ ImportRevive(t)
             \/ ScanRead(t) \/ ScanApply(t) \/ Persist(t)
    <2>1. (Inside(t)' <=> Inside(t)) /\ (Inside(t) => my'[t].obj = my[t].obj)
      <3>1. CASE \/ Mark(t) \/ MarkStates(t) \/ MarkPersist(t) \/ DeleteFile(t) \/ DeleteStates(t)
        BY <1>0, <3>1 DEF Mark, MarkStates, MarkPersist, DeleteFile, DeleteStates, Pointed, Frame
      <3>2. CASE Penalty(t)
        BY <1>0, <3>2 DEF Penalty, AfterPenalty, Pointed, Frame
      <3>3. CASE PenaltyStates(t) \/ PenaltyPersist(t)
        BY <1>0, <3>3 DEF PenaltyStates, PenaltyPersist, AfterPenalty, Pointed, Frame
      <3>4. CASE ImportWrite(t) \/ ImportRevive(t) \/ ScanRead(t) \/ Persist(t)
        BY <1>0, <3>4 DEF ImportWrite, ImportRevive, ScanRead, Persist, Frame
      <3>5. CASE ScanApply(t)
        <4>1. /\ pc[t] = "scanApply" /\ UNCHANGED my
              /\ pc'[t] \in {"persist", "leave"} \/ (pc'[t] = "scanPersist" /\ my[t].op = "scan")
          BY <1>0, <3>5 DEF ScanApply
        <4>2. my[t].op = "scan" => my[t].obj = None
          BY DEF Scanning
        <4> QED BY <4>1, <4>2
      <3> QED BY <1>7, <3>1, <3>2, <3>3, <3>4, <3>5
    <2>2. \A e \in Objects : objects'[e].locked = objects[e].locked
      <3>1. CASE Penalty(t)
        <4>1. \/ UNCHANGED objects
              \/ current \in Objects /\ objects' = [objects EXCEPT ![current].cool = my[t].penalty]
              \/ current \in Objects /\ objects' = [objects EXCEPT ![current].status = my[t].penalty]
          BY <3>1 DEF Penalty
        <4>2. \A e \in Objects : objects[e] \in Object
          OBVIOUS
        <4> QED BY <4>1, <4>2 DEF Object
      <3>2. CASE ImportRevive(t)
        BY <3>2, LocksUntouched DEF ImportRevive
      <3>3. CASE ~Penalty(t) /\ ~ImportRevive(t)
        BY <1>7, <3>3, LocksUntouched DEF MarkStates, MarkPersist, DeleteFile, DeleteStates,
           PenaltyStates, PenaltyPersist, ImportWrite, ScanRead, Persist, memory
      <3> QED BY <3>1, <3>2, <3>3
    <2> QED BY <2>1, <2>2 DEF Passes
  <1>8. CASE Leave(t)
    <2>1. CASE my[t].obj = None
      BY <1>0, <1>8, <2>1, LocksUntouched DEF Leave, Passes
    <2>2. CASE my[t].obj # None
      <3>1. Inside(t) /\ ~Inside(t)' /\ objects' = [objects EXCEPT ![my[t].obj].locked = FALSE]
        BY <1>0, <1>8, <2>2 DEF Leave, Scanning, Frame
      <3> QED BY <1>0, <2>2, <3>1, LockMoved DEF Gives
    <2> QED BY <2>1, <2>2
  <1>9. CASE ImportFails(t)
    <2>1. CASE pc[t] = "importWrite" /\ my[t].obj # None
      <3>1. Inside(t) /\ ~Inside(t)' /\ objects' = [objects EXCEPT ![my[t].obj].locked = FALSE]
        BY <1>0, <1>9, <2>1 DEF ImportFails, Frame
      <3> QED BY <1>0, <2>1, <3>1, LockMoved DEF Gives
    <2>2. CASE ~(pc[t] = "importWrite" /\ my[t].obj # None)
      BY <1>0, <1>9, <2>2, LocksUntouched DEF ImportFails, Passes, Frame
    <2> QED BY <2>1, <2>2
  <1> QED BY <1>1, <1>2, <1>3, <1>4, <1>5, <1>6, <1>7, <1>8, <1>9
      DEF Acts, Works, Refreshes, Deletes, Scans, Locks, Interrupts

LEMMA OneInsideStep ==
    ASSUME TypeOK, Paths, OneInside, [Next]_vars
    PROVE  OneInside'
  <1>0. Types /\ HasObject /\ Types' /\ HasObject'
    BY Split, TypedStep, HasObjectStep
  <1>1. CASE UNCHANGED <<pc, my, objects>>
    BY <1>1 DEF OneInside, Inside
  <1>2. CASE Restart
    BY <1>2, Idle DEF OneInside, Inside, Restart, NewObject
  <1>3. ASSUME NEW c, CooldownEnds(c) PROVE OneInside'
    <2>1. \A e \in Objects : objects'[e].locked = objects[e].locked
      BY <1>0, <1>3 DEF CooldownEnds, Types, Object
    <2>2. \A t \in Threads : (Inside(t)' <=> Inside(t)) /\ my'[t].obj = my[t].obj
      BY <1>3 DEF CooldownEnds, Inside
    <2>3. \A t \in Threads : Inside(t) => my[t].obj \in Objects
      BY <1>0 DEF HasObject, Types, Frame
    <2> QED BY <2>1, <2>2, <2>3 DEF OneInside
  <1>4. ASSUME NEW t \in Threads, Acts(t) PROVE OneInside'
    <2>1. \A u \in Threads : u # t => (Inside(u)' <=> Inside(u)) /\ my'[u].obj = my[u].obj
      BY <1>0, <1>4, Alone DEF Inside
    <2>2. \A u \in Threads : Inside(u) => my[u].obj \in Objects
      BY <1>0 DEF HasObject, Types, Frame
    <2>3. \A u \in Threads : Inside(u)' => my'[u].obj \in Objects
      BY <1>0 DEF HasObject, Types, Frame
    <2>4. CASE Passes(t)
      BY <2>1, <2>2, <2>3, <2>4 DEF OneInside, Passes
    <2>5. CASE Takes(t)
      <3>0. my[t].obj \in Objects /\ my'[t].obj = my[t].obj /\ ~objects[my[t].obj].locked
        BY <2>3, <2>5, Values DEF Takes
      <3>1. \A u \in Threads : Inside(u)' => objects'[my'[u].obj].locked
        BY <2>1, <2>2, <2>5, <3>0 DEF OneInside, Takes, Locked
      <3>2. \A u \in Threads \ {t} : Inside(u)' => my'[u].obj # my'[t].obj
        BY <2>1, <2>2, <3>0 DEF OneInside
      <3>3. \A u, v \in Threads : Inside(u)' /\ Inside(v)' /\ my'[u].obj = my'[v].obj => u = v
        BY <2>1, <3>2 DEF OneInside
      <3>4. \A e \in Objects : objects'[e].locked => \E u \in Threads : my'[u].obj = e /\ Inside(u)'
        <4> SUFFICES ASSUME NEW e \in Objects, objects'[e].locked
                     PROVE  \E u \in Threads : my'[u].obj = e /\ Inside(u)'
          OBVIOUS
        <4>1. CASE e = my[t].obj
          BY <2>5, <3>0, <4>1 DEF Takes
        <4>2. CASE e # my[t].obj
          <5>1. PICK u \in Threads : my[u].obj = e /\ Inside(u)
            BY <2>5, <4>2 DEF Takes, Locked, OneInside
          <5> QED BY <2>1, <4>2, <5>1
        <4> QED BY <4>1, <4>2
      <3> QED BY <3>1, <3>3, <3>4 DEF OneInside
    <2>6. CASE Gives(t)
      BY <2>1, <2>2, <2>3, <2>6 DEF OneInside, Gives, Locked
    <2> QED BY <1>0, <1>4, <2>4, <2>5, <2>6, LockSteps DEF Paths
  <1>5. Environment => \/ UNCHANGED <<pc, my, objects>> \/ Restart
                       \/ \E c : CooldownEnds(c)
    BY DEF Environment, Expire, Revoke, SiblingLocks, SiblingActs, memory
  <1> QED BY <1>1, <1>2, <1>3, <1>4, <1>5 DEF Next, Acts, vars

Core == TypeOK /\ DeletingIsDisabled /\ Paths /\ OneInside

LEMMA CoreInit == Init => Core
  <1> SUFFICES ASSUME Init PROVE Core
    OBVIOUS
  <1>1. TypeOK
    <2>1. HasObject
      BY DEF Init, HasObject, Inside
    <2> QED BY <2>1, TypedInit, Split
  <1>2. DeletingIsDisabled /\ OneInside
    BY DEF Init, DeletingIsDisabled, OneInside, Inside, NewObject
  <1>3. Paths
    BY EmptyFields DEF Init, Paths, Scanning, Guarded
  <1> QED BY <1>1, <1>2, <1>3 DEF Core

LEMMA CoreStep == Core /\ [Next]_vars => Core'
  <1> SUFFICES ASSUME Core, [Next]_vars PROVE Core'
    OBVIOUS
  <1>1. Types /\ HasObject /\ TypeOK
    BY Split DEF Core
  <1>2. TypeOK'
    <2>1. Types' /\ HasObject'
      BY <1>1, TypedStep, HasObjectStep
    <2> QED BY <2>1 DEF TypeOK, Types
  <1> QED BY <1>1, <1>2, DeletingStep, PathsStep, OneInsideStep DEF Core

(* Every goroutine holds the locks its place in the code needs, and the      *)
(* account it points to there: the inductive invariant of all that follows.  *)
THEOREM CoreHolds == Spec => []Core
  BY CoreInit, CoreStep, PTL DEF Spec

(* At most one goroutine is inside the refresh lock of an account, and the   *)
(* lock is held exactly then: every way out of a refresh, a deletion, an     *)
(* import and the scan at their end gives it back, once.                     *)
THEOREM RefreshLockCorrect == Spec => []RefreshLockExact
  <1>1. Core => RefreshLockExact
    <2> SUFFICES ASSUME Core, NEW e \in Objects
                 PROVE  Cardinality({t \in Threads : my[t].obj = e /\ Inside(t)})
                          = IF objects[e].locked THEN 1 ELSE 0
      BY DEF RefreshLockExact
    <2> DEFINE holders == {t \in Threads : my[t].obj = e /\ Inside(t)}
    <2>1. OneInside
      BY DEF Core
    <2>2. CASE objects[e].locked
      <3>1. PICK t \in Threads : my[t].obj = e /\ Inside(t)
        BY <2>1, <2>2 DEF OneInside
      <3>2. holders = {t}
        BY <2>1, <3>1 DEF OneInside
      <3> QED BY <2>2, <3>2, FS_Singleton
    <2>3. CASE ~objects[e].locked
      <3>1. holders = {}
        BY <2>1, <2>3 DEF OneInside
      <3> QED BY <2>3, <3>1, FS_EmptySet
    <2> QED BY <2>2, <2>3
  <1> QED BY <1>1, CoreHolds, PTL

-----------------------------------------------------------------------------
(* No refresh brings back a deleted credential, as long as no other program  *)
(* removes credentials.                                                      *)

Refreshing == {"flock", "reread", "exchange", "write", "apply", "applyStates"}

(* The tokens about to be written, and those cached, are tokens.             *)
HasNext ==
    /\ \A t \in Threads : pc[t] \in {"write", "apply", "applyStates", "importLock", "importWrite"} =>
                            my[t].next \in Versions
    /\ cache.has => cache.cred \in Versions

(* A refresh works on the account the pool has, whose file is there; a       *)
(* pointer to an account that the pool has dropped is one to a disabled      *)
(* account; and no refresh is under way when a scan finds the file gone.     *)
AliveAt(t) ==
    /\ pc[t] \in Refreshing => file # None /\ my[t].obj = current
    /\ my[t].obj # None /\ objects[my[t].obj].status = "enabled" => my[t].obj = current
    /\ pc[t] \in {"mark", "markStates", "markPersist", "deleteLock", "deleteFile",
                  "importLock", "importWrite"} => my[t].obj = current
    /\ pc[t] \in {"markStates", "markPersist", "deleteLock", "deleteFile"} =>
         objects[my[t].obj].deleting
    /\ pc[t] = "scanApply" =>
         /\ reading.cred # None => file # None
         /\ reading.cred = None =>
              /\ current # None => objects[current].status # "enabled"
              /\ \A u \in Threads : pc[u] \notin Refreshing

Alive ==
    /\ \A t \in Threads : AliveAt(t)
    /\ file = None /\ current # None => objects[current].status # "enabled"

LEMMA HasNextStep == TypeOK /\ HasNext /\ [Next]_vars => HasNext'
  <1> SUFFICES ASSUME TypeOK, HasNext, [Next]_vars PROVE HasNext'
    OBVIOUS
  <1>0. Types
    BY Split
  <1> DEFINE With == {"write", "apply", "applyStates", "importLock", "importWrite"}
  <1>1. ASSUME NEW t \in Threads, Acts(t), pc'[t] \in With PROVE my'[t].next \in Versions
    <2> USE <1>0 DEF Types, Go, Return, With
    <2>0. my[t] \in Frame /\ (pc[t] \in With => my[t].next \in Versions)
      BY DEF HasNext
    <2>1. CASE (\E op \in Ops : Start(t, op)) \/ Acquire(t) \/ Lease(t) \/ Send(t) \/ Lookup(t)
      <3>1. pc'[t] \in Points \ With
        BY <2>1 DEF Start, Ops, Acquire, Lease, Send, Lookup, Points
      <3> QED BY <1>1, <3>1
    <2>2. CASE Reread(t)
      BY <1>1, <2>0, <2>2 DEF Reread, Version, None, Frame
    <2>3. CASE Exchange(t)
      BY <1>1, <2>0, <2>3, NewVersion DEF Exchange, Rotate, Frame
    <2>4. CASE ImportStart(t)
      BY <1>1, <2>0, <2>4, NewVersion DEF ImportStart, Version, Frame
    <2>5. CASE Write(t) \/ Apply(t) \/ ImportLock(t)
      <3>1. pc[t] \in With /\ my'[t].next = my[t].next
        BY <2>0, <2>5 DEF Write, Apply, ImportLock, Frame
      <3> QED BY <2>0, <3>1
    <2>6. CASE \/ Check(t) \/ Flock(t) \/ LoseResponse(t) \/ PermanentFailure(t)
               \/ TransientFailure(t) \/ WriteFails(t) \/ ApplyStates(t) \/ Refreshed(t)
               \/ Refused(t) \/ Deletes(t) \/ Scans(t)
      <3>1. CASE Check(t) \/ Flock(t) \/ LoseResponse(t) \/ ApplyStates(t)
        BY <1>1, <3>1 DEF Check, Flock, LoseResponse, ApplyStates
      <3>2. CASE \/ PermanentFailure(t) \/ TransientFailure(t) \/ WriteFails(t)
                 \/ Refreshed(t) \/ Refused(t)
        BY <1>1, <3>2 DEF PermanentFailure, TransientFailure, WriteFails, Failed, Refreshed,
           Refused, GiveUp
      <3>3. CASE Deletes(t)
        BY <1>1, <3>3 DEF Deletes, Mark, MarkStates, MarkPersist, DeleteFile, DeleteFindsNothing,
           DeleteStates, DeleteStops
      <3>4. CASE Scans(t)
        BY <1>1, <3>4 DEF Scans, ScanRead, ScanApply, Persist, ScanPersist, Leave
      <3> QED BY <2>6, <3>1, <3>2, <3>3, <3>4
    <2>7. CASE \/ Penalty(t) \/ PenaltyStates(t) \/ PenaltyPersist(t) \/ ImportInvalid(t)
               \/ ImportWrite(t) \/ ImportRevive(t) \/ Enter(t) \/ DeleteStart(t) \/ DeleteLock(t)
               \/ ScanStart(t) \/ Interrupts(t)
      BY <1>1, <2>7 DEF Penalty, PenaltyStates, PenaltyPersist, AfterPenalty, ImportInvalid,
         ImportWrite, ImportRevive, Enter, DeleteStart, DeleteStops, DeleteLock, ScanStart,
         Interrupts, EnterCancelled, GiveUp, Cancelled, DeleteFails, ImportFails
    <2> QED BY <1>1, <2>1, <2>2, <2>3, <2>4, <2>5, <2>6, <2>7
        DEF Acts, Works, Refreshes, Locks
  <1>2. \A t \in Threads : pc'[t] \in With => my'[t].next \in Versions
    <2>1. CASE UNCHANGED <<pc, my>>
      BY <2>1 DEF HasNext
    <2>2. CASE Restart
      BY <2>2, Idle
    <2>3. ASSUME NEW u \in Threads, Acts(u), NEW t \in Threads, pc'[t] \in With
          PROVE  my'[t].next \in Versions
      BY <1>0, <1>1, <2>3, Alone DEF HasNext
    <2> QED BY <2>1, <2>2, <2>3, Outsiders DEF Next, Acts, vars
  <1>3. cache'.has => cache'.cred \in Versions
    <2> USE <1>0 DEF HasNext, Types, Version
    <2>1. CASE UNCHANGED cache \/ cache' = [cache EXCEPT !.match = FALSE]
               \/ cache' = [cache EXCEPT !.has = FALSE, !.match = FALSE]
      BY <2>1
    <2>2. CASE Restart
      BY <2>2 DEF Restart
    <2>3. ASSUME NEW t \in Threads, ApplyStates(t) PROVE cache'.has => cache'.cred \in Versions
      BY <2>3 DEF ApplyStates, Go
    <2>4. ASSUME NEW t \in Threads, ScanApply(t) PROVE cache'.has => cache'.cred \in Versions
      BY <2>1, <2>4 DEF ScanApply, ScanFindsNothing, ScanUpdates, ScanAdds
    <2>5. Environment => UNCHANGED cache \/ cache' = [cache EXCEPT !.match = FALSE] \/ Restart
      BY DEF Environment, Expire, Revoke, CooldownEnds, SiblingLocks, SiblingActs, FileReplaced, memory
    <2>6. ASSUME NEW t \in Threads, Acts(t)
          PROVE  \/ UNCHANGED cache \/ cache' = [cache EXCEPT !.match = FALSE]
                 \/ cache' = [cache EXCEPT !.has = FALSE, !.match = FALSE]
                 \/ ApplyStates(t) \/ ScanApply(t)
      BY <2>6 DEF Acts, Start, Works, Acquire, Lease, Send, Lookup, Refreshes, Check, Flock, Reread,
         Exchange, LoseResponse, PermanentFailure, TransientFailure, WriteFails, Failed, Write,
         FileReplaced, Apply, Refreshed, Refused, Deletes, Mark, MarkStates, MarkPersist,
         DeleteFile, DeleteFindsNothing, DeleteStates, Scans, ScanRead, Persist, ScanPersist,
         Leave, Penalty, PenaltyStates, PenaltyPersist, ImportInvalid, ImportWrite, ImportRevive,
         Locks, Enter, DeleteStart, DeleteLock, ImportStart, ImportLock, ScanStart,
         Interrupts, EnterCancelled, Cancelled, DeleteFails, ImportFails, memory
    <2> QED BY <2>1, <2>2, <2>3, <2>4, <2>5, <2>6 DEF Next, Acts, vars
  <1> QED BY <1>2, <1>3 DEF HasNext

-----------------------------------------------------------------------------

(* Where a step takes a goroutine, and which account it then points to.      *)
Held == {"mark", "markStates", "markPersist", "deleteLock", "deleteFile", "importLock", "importWrite"}
Doomed == {"markStates", "markPersist", "deleteLock", "deleteFile"}
Moves(t) ==
    /\ my'[t].obj \in {my[t].obj, current, None}
    /\ pc'[t] \in Refreshing =>
         /\ my'[t].obj = my[t].obj
         /\ pc[t] \in Refreshing \/ (Inside(t) /\ objects[my[t].obj].status = "enabled")
    /\ pc'[t] \in Held => my'[t].obj = current \/ (pc[t] \in Held /\ my'[t].obj = my[t].obj)
    /\ pc'[t] \in Doomed =>
         /\ my'[t].obj = my[t].obj
         /\ pc[t] \in Doomed \/ (my[t].obj \in Objects => objects'[my[t].obj].deleting)
    /\ pc'[t] = "scanApply" => ScanRead(t)

LEMMA MovesStep ==
    ASSUME Types, NEW t \in Threads, Acts(t)
    PROVE  Moves(t)
  <1> USE EmptyFields DEF Types, Go, Return, Moves, Refreshing, Held, Doomed
  <1>0. my[t] \in Frame
    OBVIOUS
  <1>1. CASE \E op \in Ops : Start(t, op)
    BY <1>0, <1>1 DEF Start, Ops, Frame
  <1>2. CASE Acquire(t) \/ Lease(t) \/ Send(t) \/ Lookup(t)
    BY <1>0, <1>2 DEF Acquire, Lease, Send, Lookup, Frame
  <1>3. CASE Refreshes(t)
    <2>1. CASE Check(t) \/ Flock(t) \/ Reread(t) \/ Exchange(t) \/ LoseResponse(t)
      BY <1>0, <2>1 DEF Check, Flock, Reread, Exchange, LoseResponse, Frame, Inside
    <2>2. CASE PermanentFailure(t) \/ TransientFailure(t) \/ Write(t) \/ WriteFails(t)
      BY <1>0, <2>2 DEF PermanentFailure, TransientFailure, Write, WriteFails, Failed, Frame, Inside
    <2>3. CASE Apply(t) \/ ApplyStates(t) \/ Refreshed(t) \/ Refused(t)
      BY <1>0, <2>3 DEF Apply, ApplyStates, Refreshed, Refused, GiveUp, Frame, Inside
    <2> QED BY <1>3, <2>1, <2>2, <2>3 DEF Refreshes
  <1>4. CASE Mark(t)
    <2>1. my[t].obj \in Objects => objects'[my[t].obj].deleting
      BY <1>4 DEF Mark, Object
    <2> QED BY <1>0, <1>4, <2>1 DEF Mark, Frame
  <1>5. CASE MarkStates(t) \/ MarkPersist(t) \/ DeleteFile(t) \/ DeleteFindsNothing(t) \/ DeleteStates(t)
    BY <1>0, <1>5 DEF MarkStates, MarkPersist, DeleteFile, DeleteFindsNothing, DeleteStates,
                DeleteStops, Frame
  <1>6. CASE Scans(t)
    BY <1>0, <1>6 DEF Scans, ScanApply, ScanRead, Persist, ScanPersist, Leave, Frame
  <1>7. CASE \/ Penalty(t) \/ PenaltyStates(t) \/ PenaltyPersist(t)
             \/ ImportInvalid(t) \/ ImportWrite(t) \/ ImportRevive(t)
    BY <1>0, <1>7 DEF Penalty, PenaltyStates, PenaltyPersist, AfterPenalty,
                ImportInvalid, ImportWrite, ImportRevive, Frame
  <1>8. CASE Locks(t)
    BY <1>0, <1>8 DEF Locks, Enter, DeleteStart, DeleteStops, DeleteLock, ImportStart, ImportLock,
                      ScanStart, Frame
  <1>9. CASE Interrupts(t)
    BY <1>0, <1>9 DEF Interrupts, EnterCancelled, GiveUp, Cancelled, DeleteFails, DeleteStops,
                      ImportFails, Frame
  <1> QED BY <1>1, <1>2, <1>3, <1>4, <1>5, <1>6, <1>7, <1>8, <1>9 DEF Acts, Works, Deletes

(* A step after which no credential is gone, no other account is the pool's, *)
(* and no account is enabled or unmarked, but by a refresh of it.            *)
Gentle(R) ==
    /\ file # None => file' # None
    /\ UNCHANGED current /\ reading'.cred = reading.cred
    /\ \A e \in Objects :
         /\ objects'[e].status = "enabled" => objects[e].status = "enabled" \/ (e = current /\ R)
         /\ objects[e].deleting => objects'[e].deleting

(* What the actions of a goroutine do to the marks and the status of the     *)
(* accounts.                                                                 *)
LEMMA StatusSteps ==
    ASSUME Types, HasObject, NEW t \in Threads, Acts(t), ~ScanApply(t), ~ImportRevive(t)
    PROVE  \A e \in Objects :
             /\ objects'[e].status = "enabled" =>
                  objects[e].status = "enabled" \/ (e = my[t].obj /\ pc[t] = "apply")
             /\ objects[e].deleting => objects'[e].deleting
  <1> USE DEF Types
  <1>1. \A e \in Objects : objects[e] \in Object
    OBVIOUS
  <1>2. my[t].obj \in Objects \cup {None} /\ my[t].penalty \in Penalties \cup {"none"}
    BY DEF Frame
  <1>3. CASE UNCHANGED objects
    BY <1>3
  <1>4. CASE \/ \E e, b : objects' = [objects EXCEPT ![e].locked = b]
             \/ \E e, n : objects' = [objects EXCEPT ![e].fails = n]
             \/ \E e, c : objects' = [objects EXCEPT ![e].cool = c]
             \/ \E e, s : s # "enabled" /\ objects' = [objects EXCEPT ![e].status = s]
    BY <1>1, <1>4 DEF Object
  <1>5. CASE Penalty(t)
    <2>0. my[t].penalty # "enabled"
      BY <1>2 DEF Penalties, Reasons, Cooldowns
    <2>1. \/ UNCHANGED objects
          \/ objects' = [objects EXCEPT ![current].cool = my[t].penalty]
          \/ objects' = [objects EXCEPT ![current].status = my[t].penalty]
      BY <1>5 DEF Penalty
    <2>2. CASE objects' = [objects EXCEPT ![current].cool = my[t].penalty]
      BY <1>4, <2>2
    <2>3. CASE objects' = [objects EXCEPT ![current].status = my[t].penalty]
      BY <1>4, <2>0, <2>3
    <2> QED BY <1>3, <2>1, <2>2, <2>3
  <1>6. CASE Mark(t)
    BY <1>1, <1>6 DEF Mark, Object
  <1>7. CASE Apply(t)
    BY <1>1, <1>7 DEF Apply, Go, Object
  <1>8. CASE PermanentFailure(t) \/ TransientFailure(t) \/ WriteFails(t)
    <2>1. objects' = [objects EXCEPT ![my[t].obj].fails = @ + 1]
      BY <1>8 DEF PermanentFailure, TransientFailure, WriteFails, Failed
    <2> QED BY <1>1, <2>1 DEF Object
  <1>9. CASE Enter(t) \/ DeleteLock(t) \/ ImportLock(t) \/ Leave(t) \/ DeleteFails(t)
             \/ DeleteFindsNothing(t) \/ ImportFails(t) \/ Refreshed(t) \/ Refused(t)
    <2>1. UNCHANGED objects \/ \E b : objects' = [objects EXCEPT ![my[t].obj].locked = b]
      BY <1>9 DEF Enter, DeleteLock, ImportLock, Leave, DeleteFails,
           DeleteFindsNothing, Unlock, ImportFails, Refreshed, Refused
    <2> QED BY <1>3, <1>4, <2>1
  <1>10. \/ UNCHANGED objects \/ Penalty(t) \/ Mark(t) \/ Apply(t)
         \/ PermanentFailure(t) \/ TransientFailure(t) \/ WriteFails(t)
         \/ Enter(t) \/ DeleteLock(t) \/ ImportLock(t) \/ Leave(t) \/ DeleteFails(t)
         \/ DeleteFindsNothing(t) \/ ImportFails(t) \/ Refreshed(t) \/ Refused(t)
    BY DEF Acts, Start, Works, Acquire, Lease, Send, Lookup, Refreshes, Check, Flock, Reread,
       Exchange, LoseResponse, Write, ApplyStates, Deletes, MarkStates, MarkPersist, DeleteFile,
       DeleteStates, Scans, ScanRead, Persist, ScanPersist, PenaltyStates, PenaltyPersist,
       ImportInvalid, ImportWrite, Locks, DeleteStart, ImportStart, ScanStart,
       Interrupts, EnterCancelled, Cancelled, memory
  <1> QED BY <1>3, <1>5, <1>6, <1>7, <1>8, <1>9, <1>10

LEMMA AliveFrame ==
    ASSUME Core, Alive, NEW t \in Threads, Acts(t), Gentle(pc[t] \in Refreshing), ~ScanRead(t)
    PROVE  Alive'
  <1>0. Types /\ Moves(t) /\ Pointed(t)
    BY Split, MovesStep DEF Core, TypeOK, HasObject, Pointed
  <1>1. AliveAt(t) /\ my[t] \in Frame
    BY <1>0 DEF Alive, Types
  <1>2. \A u \in Threads : u # t => pc'[u] = pc[u] /\ my'[u] = my[u] /\ AliveAt(u)
                                    /\ my[u].obj \in Objects \cup {None}
    BY <1>0, Alone DEF Alive, Types, Frame
  <1>3. my[t].obj \in Objects \cup {None} /\ current \in Objects \cup {None}
    BY <1>0 DEF Types, Frame
  <1>4. file' = None /\ current' # None => objects'[current'].status # "enabled"
    BY <1>1, <1>3 DEF Gentle, Alive, AliveAt
  <1>5. AliveAt(t)'
    <2>1. pc'[t] \in Refreshing => file' # None /\ my'[t].obj = current'
      <3>1. Inside(t) => my[t].obj # None
        BY <1>0 DEF Pointed
      <3> QED BY <1>0, <1>1, <1>3, <3>1 DEF Gentle, Moves, Alive, AliveAt
    <2>2. my'[t].obj # None /\ objects'[my'[t].obj].status = "enabled" => my'[t].obj = current'
      BY <1>0, <1>1, <1>3 DEF Gentle, Moves, AliveAt
    <2>3. pc'[t] \in Held => my'[t].obj = current'
      BY <1>0, <1>1 DEF Gentle, Moves, AliveAt, Held
    <2>4. pc'[t] \in Doomed => objects'[my'[t].obj].deleting
      <3>1. pc'[t] \in Doomed => my[t].obj \in Objects
        <4>1. pc'[t] \in Doomed => Pointed(t)'
          BY <1>0, PointedStep
        <4> QED BY <1>0, <1>3, <4>1 DEF Pointed, Moves, Doomed, Inside
      <3> QED BY <1>0, <1>1, <3>1 DEF Gentle, Moves, AliveAt, Doomed
    <2>5. pc'[t] # "scanApply"
      BY <1>0 DEF Moves
    <2> QED BY <2>1, <2>2, <2>3, <2>4, <2>5 DEF AliveAt, Held, Doomed
  <1>6. ASSUME NEW u \in Threads, u # t PROVE AliveAt(u)'
    <2>0. pc'[u] = pc[u] /\ my'[u] = my[u] /\ AliveAt(u) /\ my[u].obj \in Objects \cup {None}
      BY <1>2, <1>6
    <2>1. pc[u] \in Refreshing => file' # None /\ my[u].obj = current'
      BY <2>0 DEF Gentle, AliveAt
    <2>2. my[u].obj # None /\ objects'[my[u].obj].status = "enabled" => my[u].obj = current'
      BY <2>0 DEF Gentle, AliveAt
    <2>3. pc[u] \in Held => my[u].obj = current'
      BY <2>0 DEF Gentle, AliveAt, Held
    <2>4. pc[u] \in Doomed => objects'[my[u].obj].deleting
      <3>1. pc[u] \in Doomed => my[u].obj \in Objects
        BY <2>0, Split DEF Core, HasObject, Inside, Doomed
      <3> QED BY <2>0, <3>1 DEF Gentle, AliveAt, Doomed
    <2>5. pc[u] = "scanApply" =>
            /\ reading'.cred # None => file' # None
            /\ reading'.cred = None =>
                 /\ current' # None => objects'[current'].status # "enabled"
                 /\ \A v \in Threads : pc'[v] \notin Refreshing
      <3> SUFFICES ASSUME pc[u] = "scanApply"
                   PROVE  /\ reading'.cred # None => file' # None
                          /\ reading'.cred = None =>
                               /\ current' # None => objects'[current'].status # "enabled"
                               /\ \A v \in Threads : pc'[v] \notin Refreshing
        OBVIOUS
      <3>1. reading'.cred # None => file' # None
        BY <2>0 DEF Gentle, AliveAt
      <3>2. ASSUME reading'.cred = None
            PROVE  /\ current' # None => objects'[current'].status # "enabled"
                   /\ \A v \in Threads : pc'[v] \notin Refreshing
        <4>1. /\ current # None => objects[current].status # "enabled"
              /\ \A v \in Threads : pc[v] \notin Refreshing
          BY <2>0, <3>2 DEF Gentle, AliveAt
        <4>2. current' # None => objects'[current'].status # "enabled"
          BY <1>3, <4>1 DEF Gentle
        <4>3. pc'[t] \notin Refreshing
          <5>1. Inside(t) => my[t].obj # None
            BY <1>0 DEF Pointed
          <5> QED BY <1>0, <1>1, <1>3, <4>1, <5>1 DEF Moves, AliveAt
        <4> QED BY <1>2, <4>1, <4>2, <4>3
      <3> QED BY <3>1, <3>2
    <2> QED BY <2>0, <2>1, <2>2, <2>3, <2>4, <2>5 DEF AliveAt, Held, Doomed
  <1> QED BY <1>4, <1>5, <1>6 DEF Alive

LEMMA Exclusive ==
    ASSUME Paths, NEW t \in Threads, NEW u \in Threads, Guarded(t), Guarded(u)
    PROVE  t = u
  BY DEF Paths

(* The steps of a goroutine that are gentle.                                 *)
LEMMA GentleSteps ==
    ASSUME Core, HasNext, Alive, NEW t \in Threads, Acts(t),
           ~ScanRead(t), ~ScanApply(t), ~ImportRevive(t), ~DeleteFile(t)
    PROVE  Gentle(pc[t] \in Refreshing)
  <1>0. Types /\ HasObject /\ AliveAt(t)
    BY Split DEF Core, Alive
  <1>1. file # None => file' # None
    <2>1. CASE Write(t) \/ ImportWrite(t)
      <3>1. my[t].next \in Versions
        BY <2>1 DEF Write, ImportWrite, Go, HasNext
      <3> QED BY <2>1, <3>1, Values DEF Write, ImportWrite, FileReplaced
    <2>2. CASE UNCHANGED file
      BY <2>2
    <2>3. Write(t) \/ ImportWrite(t) \/ UNCHANGED file
      BY DEF Acts, Start, Works, Acquire, Lease, Send, Lookup, Refreshes, Check, Flock, Reread,
         Exchange, LoseResponse, PermanentFailure, TransientFailure, WriteFails, Failed,
         Apply, ApplyStates, Refreshed, Refused, Deletes, Mark, MarkStates, MarkPersist,
         DeleteFindsNothing, DeleteStates, Scans, Persist, ScanPersist, Leave,
         Penalty, PenaltyStates, PenaltyPersist, ImportInvalid, Locks, Enter, DeleteStart,
         DeleteLock, ImportStart, ImportLock, ScanStart, Interrupts, EnterCancelled, Cancelled,
         DeleteFails, ImportFails, memory, disk
    <2> QED BY <2>1, <2>2, <2>3
  <1>2. UNCHANGED current
    BY DEF Acts, Start, Works, Acquire, Lease, Send, Lookup, Refreshes, Check, Flock, Reread,
       Exchange, LoseResponse, PermanentFailure, TransientFailure, Write, WriteFails, Failed,
       Apply, ApplyStates, Refreshed, Refused, Deletes, Mark, MarkStates, MarkPersist,
       DeleteFindsNothing, DeleteStates, Scans, Persist, ScanPersist, Leave,
       Penalty, PenaltyStates, PenaltyPersist, ImportInvalid, ImportWrite, Locks, Enter, DeleteStart,
       DeleteLock, ImportStart, ImportLock, ScanStart, Interrupts, EnterCancelled, Cancelled,
       DeleteFails, ImportFails, memory, disk
  <1>3. reading'.cred = reading.cred
    <2>1. UNCHANGED reading \/ reading' = [reading EXCEPT !.match = FALSE]
      BY DEF Acts, Start, Works, Acquire, Lease, Send, Lookup, Refreshes, Check, Flock, Reread,
         Exchange, LoseResponse, PermanentFailure, TransientFailure, Write, FileReplaced,
         WriteFails, Failed, Apply, ApplyStates, Refreshed, Refused, Deletes, Mark, MarkStates,
         MarkPersist, DeleteFindsNothing, DeleteStates, Scans, Persist, ScanPersist, Leave,
         Penalty, PenaltyStates, PenaltyPersist, ImportInvalid, ImportWrite, Locks, Enter,
         DeleteStart, DeleteLock, ImportStart, ImportLock, ScanStart, Interrupts,
         EnterCancelled, Cancelled, DeleteFails, ImportFails, memory, disk
    <2> QED BY <1>0, <2>1 DEF Types
  <1>4. pc[t] = "apply" => my[t].obj = current
    BY <1>0 DEF AliveAt, Refreshing
  <1> QED BY <1>0, <1>1, <1>2, <1>3, <1>4, StatusSteps DEF Gentle, Refreshing

LEMMA AliveScanApply ==
    ASSUME Core, Alive, NEW t \in Threads, ScanApply(t)
    PROVE  Alive'
  <1>0. Types /\ HasObject /\ Paths /\ AliveAt(t)
    BY Split DEF Core, Alive
  <1>1. /\ pc'[t] \in {"persist", "scanPersist", "leave"} /\ UNCHANGED <<my, file>>
        /\ \A u \in Threads : u # t => pc'[u] = pc[u]
        /\ reading.cred # None => file # None
        /\ reading.cred = None => \A u \in Threads : pc[u] \notin Refreshing
    BY <1>0 DEF ScanApply, Go, disk, AliveAt, Types
  <1>2. \A u \in Threads : u # t => pc[u] \notin Held /\ pc[u] # "scanApply"
    BY <1>0, Exclusive DEF Guarded, Held, ScanApply, Go
  <1>3. \A u \in Threads : /\ my[u].obj \in Objects \cup {None} /\ AliveAt(u)
                           /\ pc[u] \in Refreshing => my[u].obj # None
    BY <1>0 DEF Types, Frame, Alive, HasObject, Inside, Refreshing
  <1>4. ASSUME \A u \in Threads : pc[u] \in Refreshing => my[u].obj = current',
               \A u \in Threads : my[u].obj # None /\ objects'[my[u].obj].status = "enabled" =>
                                    my[u].obj = current',
               file = None => current' = None
        PROVE  Alive'
    <2>1. \A u \in Threads : AliveAt(u)'
      BY <1>1, <1>2, <1>3, <1>4 DEF AliveAt, Refreshing, Held
    <2> QED BY <1>1, <1>4, <2>1 DEF Alive
  <1>5. CASE ScanFindsNothing
    <2>1. \A u \in Threads : my[u].obj # None => objects'[my[u].obj].status # "enabled"
      BY <1>0, <1>3, <1>5 DEF ScanFindsNothing, AliveAt, Types, Object
    <2> QED BY <1>1, <1>4, <1>5, <2>1 DEF ScanFindsNothing
  <1>6. CASE ScanUpdates
    <2>1. \A e \in Objects : e # current => objects'[e] = objects[e]
      BY <1>0, <1>6 DEF ScanUpdates, Types
    <2> QED BY <1>1, <1>3, <1>4, <1>6, <2>1 DEF ScanUpdates, AliveAt
  <1>7. CASE ScanAdds
    <2>1. Fresh \in Objects /\ \A u \in Threads : my[u].obj # Fresh
      BY <1>0, <1>7, SpareObject DEF ScanAdds, Types
    <2>2. \A e \in Objects : e # Fresh => objects'[e] = objects[e]
      BY <1>0, <1>7 DEF ScanAdds, Types
    <2>3. \A u \in Threads : my[u].obj # None => objects[my[u].obj].status # "enabled"
      BY <1>3, <1>7 DEF ScanAdds, AliveAt
    <2>4. \A u \in Threads : pc[u] \notin Refreshing
      BY <1>3, <1>7 DEF ScanAdds, AliveAt
    <2> QED BY <1>1, <1>3, <1>4, <1>7, <2>1, <2>2, <2>3, <2>4 DEF ScanAdds
  <1> QED BY <1>5, <1>6, <1>7 DEF ScanApply

LEMMA AliveActs ==
    ASSUME Core, HasNext, Alive, NEW t \in Threads, Acts(t)
    PROVE  Alive'
  <1>0. Types /\ HasObject /\ Paths /\ OneInside /\ DeletingIsDisabled /\ Moves(t) /\ AliveAt(t)
    BY Split, MovesStep DEF Core, Alive
  <1>1. CASE ~ScanRead(t) /\ ~ScanApply(t) /\ ~ImportRevive(t) /\ ~DeleteFile(t)
    BY <1>1, GentleSteps, AliveFrame
  <1>2. CASE ScanApply(t)
    BY <1>2, AliveScanApply
  <1>3. \A u \in Threads : u # t => pc'[u] = pc[u] /\ my'[u] = my[u]
    BY <1>0, Alone
  <1>4. \A u \in Threads : /\ my[u].obj \in Objects \cup {None} /\ AliveAt(u)
                           /\ pc[u] \in Refreshing => Inside(u) /\ my[u].obj # None
    BY <1>0 DEF Types, Frame, Alive, HasObject, Inside, Refreshing
  <1>5. CASE ScanRead(t)
    <2>1. /\ UNCHANGED <<my, objects, current, file>> /\ pc'[t] = "scanApply"
          /\ pc[t] = "scanRead"
      BY <1>0, <1>5 DEF ScanRead, Go, disk, Types
    <2>2. reading'.cred = None <=> file = None
      BY <1>0, <1>5, Values DEF ScanRead, HasNext
    <2>3. \A u \in Threads : u # t => pc[u] # "scanApply"
      BY <1>0, <2>1, Exclusive DEF Guarded
    <2>4. file = None => (current # None => objects[current].status # "enabled")
                         /\ \A u \in Threads : pc[u] \notin Refreshing
      BY DEF Alive, AliveAt
    <2>5. \A u \in Threads : AliveAt(u)'
      <3>1. AliveAt(t)'
        BY <1>3, <1>4, <2>1, <2>2, <2>4 DEF AliveAt, Refreshing
      <3> QED BY <1>3, <1>4, <2>1, <2>3, <3>1 DEF AliveAt
    <2> QED BY <2>1, <2>5 DEF Alive
  <1>6. CASE ImportRevive(t)
    <2>1. /\ UNCHANGED <<my, current, file, reading>> /\ pc'[t] = "scanRead"
          /\ pc[t] = "importRevive"
      BY <1>0, <1>6 DEF ImportRevive, Go, disk, Types
    <2>2. \A e \in Objects : objects'[e].status = objects[e].status
      BY <1>0, <1>6 DEF ImportRevive, Types, Object
    <2>3. \A u \in Threads : u # t => pc[u] \notin Doomed /\ pc[u] # "scanApply"
      BY <1>0, <2>1, Exclusive DEF Guarded, Doomed
    <2>4. \A u \in Threads : AliveAt(u)'
      <3>1. AliveAt(t)'
        BY <1>4, <2>1, <2>2 DEF AliveAt, Refreshing
      <3> QED BY <1>3, <1>4, <2>1, <2>2, <2>3, <3>1 DEF AliveAt, Doomed
    <2>5. file' = None /\ current' # None => objects'[current'].status # "enabled"
      BY <1>0, <2>1, <2>2 DEF Alive, Types
    <2> QED BY <2>4, <2>5 DEF Alive
  <1>7. CASE DeleteFile(t)
    <2>1. /\ UNCHANGED <<my, current, objects>> /\ reading'.cred = reading.cred
          /\ pc'[t] = "deleteStates" /\ pc[t] = "deleteFile"
      BY <1>0, <1>7 DEF DeleteFile, Go, Types
    <2>2. my[t].obj = current /\ my[t].obj \in Objects /\ objects[current].status # "enabled"
      BY <1>0, <1>4, <2>1 DEF AliveAt, HasObject, Inside, DeletingIsDisabled
    <2>3. \A u \in Threads : u # t => pc[u] # "scanApply"
      BY <1>0, <2>1, Exclusive DEF Guarded
    <2>4. \A u \in Threads : pc[u] \notin Refreshing
      <3> SUFFICES ASSUME NEW u \in Threads, pc[u] \in Refreshing PROVE FALSE
        OBVIOUS
      <3>1. Inside(u) /\ my[u].obj = current
        BY <1>4 DEF AliveAt
      <3>2. Inside(t)
        BY <2>1 DEF Inside
      <3>3. u = t
        BY <1>0, <2>2, <3>1, <3>2 DEF OneInside
      <3> QED BY <2>1, <3>3 DEF Refreshing
    <2>5. \A u \in Threads : AliveAt(u)'
      <3>1. AliveAt(t)'
        BY <1>4, <2>1 DEF AliveAt, Refreshing
      <3> QED BY <1>3, <1>4, <2>1, <2>3, <2>4, <3>1 DEF AliveAt
    <2> QED BY <2>1, <2>2, <2>5 DEF Alive
  <1> QED BY <1>1, <1>2, <1>5, <1>6, <1>7

LEMMA AliveOutside ==
    ASSUME Core, Alive, Environment, "logout" \notin Faults
    PROVE  Alive'
  <1>0. Types /\ HasObject
    BY Split DEF Core
  <1>1. CASE Restart
    <2>1. /\ \A u \in Threads : pc'[u] = "idle" /\ my'[u].obj = None
          /\ file' = None => current' = None
      BY <1>1, Idle, EmptyFields DEF Restart
    <2> QED BY <2>1 DEF Alive, AliveAt, Refreshing
  <1>2. CASE ~Restart
    <2>1. UNCHANGED <<pc, my, current>>
      BY <1>2 DEF Environment, Expire, Revoke, CooldownEnds, SiblingLocks, SiblingActs, memory
    <2>2. reading'.cred = reading.cred
      <3>1. UNCHANGED reading \/ reading' = [reading EXCEPT !.match = FALSE]
        BY <1>2 DEF Environment, Expire, Revoke, CooldownEnds, SiblingLocks, SiblingActs,
           FileReplaced, memory
      <3> QED BY <1>0, <3>1 DEF Types
    <2>3. file # None => file' # None
      <3>1. CASE SiblingActs
        BY <3>1, NewVersion, Values DEF SiblingActs, Rotate, FileReplaced
      <3>2. CASE ~SiblingActs
        BY <1>2, <3>2 DEF Environment, Expire, Revoke, CooldownEnds, SiblingLocks, disk
      <3> QED BY <3>1, <3>2
    <2>4. \A e \in Objects : /\ objects'[e].status = objects[e].status
                             /\ objects'[e].deleting = objects[e].deleting
      <3>1. ASSUME NEW c, CooldownEnds(c) 
            PROVE  \A e \in Objects : /\ objects'[e].status = objects[e].status
                                      /\ objects'[e].deleting = objects[e].deleting
        BY <1>0, <3>1 DEF CooldownEnds, Types, Object
      <3>2. UNCHANGED objects \/ \E c : CooldownEnds(c)
        BY <1>2 DEF Environment, Expire, Revoke, SiblingLocks, SiblingActs, memory
      <3> QED BY <3>1, <3>2
    <2>5. ASSUME NEW u \in Threads PROVE AliveAt(u)'
      <3>1. AliveAt(u) /\ my[u].obj \in Objects \cup {None} /\ current \in Objects \cup {None}
            /\ (pc[u] \in Doomed => my[u].obj # None)
        BY <1>0 DEF Alive, Types, Frame, HasObject, Doomed, Inside
      <3> QED BY <2>1, <2>2, <2>3, <2>4, <3>1 DEF AliveAt, Doomed
    <2>6. file' = None /\ current' # None => objects'[current'].status # "enabled"
      BY <1>0, <2>1, <2>3, <2>4 DEF Alive, Types
    <2> QED BY <2>5, <2>6 DEF Alive
  <1> QED BY <1>1, <1>2

Living == Core /\ HasNext /\ Alive

(* While no sibling removes the credential, a refresh that may still write   *)
(* the file has a file to replace, and an account the pool dropped is        *)
(* disabled.                                                                 *)
THEOREM LivingHolds == ASSUME "logout" \notin Faults PROVE Spec => []Living
  <1>1. Init => Living
    <2>1. Init => HasNext /\ Alive
      BY EmptyFields, Values DEF Init, HasNext, Alive, AliveAt, Refreshing
    <2> QED BY <2>1, CoreInit DEF Living
  <1>2. Living /\ [Next]_vars => Living'
    <2> SUFFICES ASSUME Living, [Next]_vars PROVE Living'
      OBVIOUS
    <2>1. Core' /\ HasNext'
      BY CoreStep, HasNextStep DEF Living, Core
    <2>2. Alive'
      <3>1. CASE UNCHANGED vars
        BY <3>1 DEF Living, Alive, AliveAt, vars
      <3>2. CASE Environment
        BY <3>2, AliveOutside DEF Living
      <3>3. ASSUME NEW t \in Threads, Acts(t) PROVE Alive'
        BY <3>3, AliveActs DEF Living
      <3> QED BY <3>1, <3>2, <3>3 DEF Next, Acts
    <2> QED BY <2>1, <2>2 DEF Living
  <1> QED BY <1>1, <1>2, PTL DEF Spec

(* A refresh never brings back the file of a deleted credential, whatever    *)
(* refreshes, deletions, imports, scans and restarts are under way: it only  *)
(* replaces a file that is there.  Sibling programs may rotate the tokens    *)
(* and log in again, but not remove the credential: a refresh that has read  *)
(* the file before would write it again.                                     *)
THEOREM NoResurrectionCorrect ==
    ASSUME "logout" \notin Faults PROVE Spec => []NoResurrection
  <1>1. Living => NoResurrection
    BY DEF Living, Alive, AliveAt, Refreshing, NoResurrection
  <1> QED BY <1>1, LivingHolds, PTL

-----------------------------------------------------------------------------
(* The cache of parsed auth files is honest, as long as no other program     *)
(* changes the file.                                                         *)

Fits ==
    /\ CacheHonest
    /\ reading.match /\ file # None => reading.cred = file
    /\ \A t \in Threads : pc[t] \in {"apply", "applyStates"} => my[t].next = file

(* Whoever replaces or removes the file excludes every other refresh.        *)
LEMMA SoleWriter ==
    ASSUME Living, NEW t \in Threads, pc[t] \in {"write", "importWrite", "deleteFile"},
           NEW u \in Threads, u # t
    PROVE  pc[u] \notin Refreshing
  <1> SUFFICES ASSUME pc[u] \in Refreshing PROVE FALSE
    OBVIOUS
  <1>1. HasObject /\ OneInside /\ AliveAt(t) /\ AliveAt(u)
    BY Split DEF Living, Core, Alive
  <1>2. Inside(u) /\ my[u].obj # None /\ my[u].obj = current /\ my[t].obj = current
    BY <1>1 DEF HasObject, Inside, AliveAt, Refreshing
  <1>3. Inside(t)
    BY <1>2 DEF Inside
  <1> QED BY <1>1, <1>2, <1>3 DEF OneInside

LEMMA FitsActs ==
    ASSUME Living, Fits, NEW t \in Threads, Acts(t)
    PROVE  Fits'
  <1>0. Types
    BY Split DEF Living, Core
  <1>1. \A u \in Threads : u # t => pc'[u] = pc[u] /\ my'[u] = my[u]
    BY <1>0, Alone
  <1>2. pc'[t] \in {"apply", "applyStates"} =>
          \/ Write(t) /\ my'[t].next = file'
          \/ UNCHANGED file /\ my'[t].next = file
    <2> USE <1>0 DEF Types, Go, Return
    <2>0. my[t] \in Frame
      OBVIOUS
    <2>1. CASE (\E op \in Ops : Start(t, op)) \/ Acquire(t) \/ Lease(t) \/ Send(t) \/ Lookup(t)
      BY <2>1 DEF Start, Ops, Acquire, Lease, Send, Lookup
    <2>2. CASE Reread(t)
      BY <2>0, <2>2 DEF Reread, Frame
    <2>3. CASE Write(t)
      BY <2>3 DEF Write, FileReplaced
    <2>4. CASE Apply(t)
      BY <2>0, <2>4 DEF Apply, Frame, disk, Fits
    <2>5. CASE \/ Check(t) \/ Flock(t) \/ Exchange(t) \/ LoseResponse(t) \/ PermanentFailure(t)
               \/ TransientFailure(t) \/ WriteFails(t) \/ ApplyStates(t) \/ Refreshed(t)
               \/ Refused(t) \/ Deletes(t) \/ Scans(t)
      BY <2>5 DEF Check, Flock, Exchange, LoseResponse, PermanentFailure, TransientFailure, WriteFails,
         Failed, ApplyStates, Refreshed, Refused, GiveUp, Deletes, Mark, MarkStates, MarkPersist,
         DeleteFile, DeleteFindsNothing, DeleteStates, DeleteStops, Scans, ScanRead, ScanApply,
         Persist, ScanPersist, Leave
    <2>6. CASE \/ Penalty(t) \/ PenaltyStates(t) \/ PenaltyPersist(t) \/ ImportInvalid(t)
               \/ ImportWrite(t) \/ ImportRevive(t) \/ Locks(t) \/ Interrupts(t)
      BY <2>6 DEF Penalty, PenaltyStates, PenaltyPersist, AfterPenalty, ImportInvalid,
         ImportWrite, ImportRevive, Locks, Enter, DeleteStart, DeleteStops, DeleteLock,
         ImportStart, ImportLock, ScanStart,
         Interrupts, EnterCancelled, GiveUp, Cancelled, DeleteFails, ImportFails
    <2> QED BY <2>1, <2>2, <2>3, <2>4, <2>5, <2>6 DEF Acts, Works, Refreshes
  <1>3. UNCHANGED file \/ Write(t) \/ ImportWrite(t) \/ DeleteFile(t)
    BY DEF Acts, Start, Works, Acquire, Lease, Send, Lookup, Refreshes, Check, Flock, Reread,
       Exchange, LoseResponse, PermanentFailure, TransientFailure, WriteFails, Failed,
       Apply, ApplyStates, Refreshed, Refused, Deletes, Mark, MarkStates, MarkPersist,
       DeleteFindsNothing, DeleteStates, Scans, ScanRead, ScanApply, Persist, ScanPersist, Leave,
       Penalty, PenaltyStates, PenaltyPersist, ImportInvalid, ImportRevive, Locks, Enter, DeleteStart,
       DeleteLock, ImportStart, ImportLock, ScanStart, Interrupts, EnterCancelled, Cancelled,
       DeleteFails, ImportFails, memory, disk
  <1>4. \A u \in Threads : pc'[u] \in {"apply", "applyStates"} => my'[u].next = file'
    <2> SUFFICES ASSUME NEW u \in Threads, pc'[u] \in {"apply", "applyStates"}
                 PROVE  my'[u].next = file'
      OBVIOUS
    <2>1. CASE u = t
      BY <1>2, <2>1
    <2>2. CASE u # t
      <3>1. pc[u] \in Refreshing /\ my'[u].next = file
        BY <1>1, <2>2 DEF Fits, Refreshing
      <3>2. UNCHANGED file
        BY <1>3, <2>2, <3>1, SoleWriter DEF Write, ImportWrite, DeleteFile, Go
      <3> QED BY <3>1, <3>2
    <2> QED BY <2>1, <2>2
  <1>5. CacheHonest' /\ (reading'.match /\ file' # None => reading'.cred = file')
    <2> USE <1>0 DEF Types, Fits, CacheHonest
    <2>1. CASE UNCHANGED <<cache, reading, file>>
      BY <2>1
    <2>2. CASE Write(t) \/ ImportWrite(t) \/ DeleteFile(t)
      BY <2>2 DEF Write, FileReplaced, ImportWrite, DeleteFile
    <2>3. CASE ApplyStates(t)
      BY <2>3 DEF ApplyStates, Go, disk
    <2>4. CASE ScanRead(t)
      BY <2>4 DEF ScanRead, disk
    <2>5. CASE ScanApply(t)
      <3>1. reading' = [cred |-> None, match |-> FALSE] /\ UNCHANGED file
        BY <2>5 DEF ScanApply, disk
      <3>2. \/ cache' = [has |-> TRUE, match |-> reading.match, cred |-> reading.cred]
            \/ cache' = [cache EXCEPT !.has = FALSE, !.match = FALSE]
        BY <2>5 DEF ScanApply, ScanFindsNothing
      <3>3. ~reading'.match
        BY <3>1
      <3>4. CASE cache' = [has |-> TRUE, match |-> reading.match, cred |-> reading.cred]
        <4>1. (cache'.match <=> reading.match) /\ cache'.cred = reading.cred
          BY <3>4
        <4> QED BY <3>1, <3>3, <4>1
      <3>5. CASE cache' = [cache EXCEPT !.has = FALSE, !.match = FALSE]
        <4>1. ~cache'.has
          BY <3>5
        <4> QED BY <3>3, <4>1
      <3> QED BY <3>2, <3>4, <3>5
    <2>6. \/ UNCHANGED <<cache, reading, file>> \/ Write(t) \/ ImportWrite(t) \/ DeleteFile(t)
          \/ ApplyStates(t) \/ ScanRead(t) \/ ScanApply(t)
      BY DEF Acts, Start, Works, Acquire, Lease, Send, Lookup, Refreshes, Check, Flock, Reread,
         Exchange, LoseResponse, PermanentFailure, TransientFailure, WriteFails, Failed,
         Apply, Refreshed, Refused, Deletes, Mark, MarkStates, MarkPersist,
         DeleteFindsNothing, DeleteStates, Scans, Persist, ScanPersist, Leave,
         Penalty, PenaltyStates, PenaltyPersist, ImportInvalid, ImportRevive, Locks, Enter, DeleteStart,
         DeleteLock, ImportStart, ImportLock, ScanStart, Interrupts, EnterCancelled, Cancelled,
         DeleteFails, ImportFails, memory, disk
    <2> QED BY <2>1, <2>2, <2>3, <2>4, <2>5, <2>6
  <1> QED BY <1>4, <1>5 DEF Fits

(* A cached entry whose size and mtime are those of the auth file has the    *)
(* content of the file, whatever this process does to the file and in        *)
(* whatever order its scans and refreshes get to the cache.  A sibling that  *)
(* replaces the file between the write of a refresh and applyCredential,     *)
(* which takes size and mtime from the file as it is then, breaks it.        *)
THEOREM CacheCorrect ==
    ASSUME {"rotate", "login", "logout"} \cap Faults = {}
    PROVE  Spec => []CacheHonest
  <1>1. Init => Fits
    BY DEF Init, Fits, CacheHonest
  <1>2. Living /\ Fits /\ [Next]_vars => Fits'
    <2> SUFFICES ASSUME Living, Fits, [Next]_vars PROVE Fits'
      OBVIOUS
    <2>1. CASE UNCHANGED <<pc, my, cache, reading, file>>
      BY <2>1 DEF Fits, CacheHonest
    <2>2. CASE Restart
      BY <2>2, Idle DEF Restart, Fits, CacheHonest
    <2>3. ASSUME NEW t \in Threads, Acts(t) PROVE Fits'
      BY <2>3, FitsActs
    <2>4. Environment => UNCHANGED <<pc, my, cache, reading, file>> \/ Restart
      BY DEF Environment, Expire, Revoke, CooldownEnds, SiblingLocks, SiblingActs, memory, disk
    <2> QED BY <2>1, <2>2, <2>3, <2>4 DEF Next, Acts, vars
  <1>3. Spec => []Living
    BY LivingHolds
  <1> QED BY <1>1, <1>2, <1>3, PTL DEF Spec, Fits

-----------------------------------------------------------------------------
(* No token is spent twice, as long as nobody imports tokens and no other    *)
(* program removes the credential.                                           *)

Lost == \E v \in Versions : refreshTok[v] = "lost"
Unspent(t) ==
    /\ pc[t] \in {"reread", "exchange", "write"} => flock = t
    /\ pc[t] \in {"exchange", "write"} => my[t].cred = file
    /\ pc[t] = "write" => refreshTok[my[t].next] # "spent" \/ Lost
    /\ pc[t] \notin {"importStart", "importLock", "importWrite", "importRevive"}
    /\ my[t].op # "import"
NotSpent ==
    /\ \A t \in Threads : Unspent(t)
    /\ file # None /\ refreshTok[file] = "spent" => Lost \/ \E t \in Threads : pc[t] = "write"

(* A token that the provider has given out and this process has lost stays   *)
(* lost: only an issued token is rotated.                                    *)
LEMMA RotateKeeps ==
    ASSUME Types, NEW v \in Version, NEW worth \in {"spent", "lost"}, Rotate(v, worth)
    PROVE  /\ NextVersion \in Versions /\ refreshTok'[NextVersion] # "spent"
           /\ Lost => Lost'
           /\ worth = "lost" => Lost'
           /\ \A w \in Versions : w # v /\ w # NextVersion => refreshTok'[w] = refreshTok[w]
  <1>1. NextVersion \in Versions /\ refreshTok[NextVersion] = "unissued"
    BY NewVersion DEF Rotate, Unissued
  <1>2. \A w \in Versions : refreshTok'[w] = IF w = NextVersion
                              THEN IF worth = "spent" THEN "accepted" ELSE "lost"
                              ELSE IF w = v THEN worth ELSE refreshTok[w]
    BY <1>1 DEF Rotate, Types
  <1>3. refreshTok[v] = "accepted"
    BY DEF Rotate
  <1> QED BY <1>1, <1>2, <1>3 DEF Lost

LEMMA UnspentActs ==
    ASSUME Living, NotSpent, NEW t \in Threads, Acts(t), "import" \notin Roles[t]
    PROVE  NotSpent'
  <1>0. Types /\ HasObject /\ Unspent(t) /\ AliveAt(t) /\ Paths
    BY Split DEF Living, Core, NotSpent, Alive
  <1>1. \A u \in Threads : u # t => pc'[u] = pc[u] /\ my'[u] = my[u] /\ Unspent(u)
    BY <1>0, Alone DEF NotSpent
  <1> DEFINE Locking == {"reread", "exchange", "write"}
  <1>2. my[t] \in Frame /\ my[t].cred \in Version /\ my[t].next \in Version
    BY <1>0 DEF Types, Frame
  <1>3. ~ImportInvalid(t) /\ ~ImportWrite(t) /\ ~ImportRevive(t) /\ ~ImportStart(t) /\ ~ImportLock(t)
        /\ ~ImportFails(t)
    BY <1>0 DEF Unspent, ImportInvalid, ImportWrite, ImportRevive, ImportStart, ImportLock,
                ImportFails, Go
  <1>4. pc[t] \in {"exchange", "write"} => file \in Versions /\ file # None
    BY <1>0 DEF AliveAt, Refreshing, Types, Version
  <1>5. CASE Exchange(t)
    <2>1. /\ flock = t /\ UNCHANGED <<file, flock>> /\ pc'[t] = "write" /\ my'[t].cred = file
          /\ my'[t].next = NextVersion /\ my'[t].op # "import" /\ Rotate(my[t].cred, "spent")
      BY <1>0, <1>2, <1>5 DEF Exchange, Go, Unspent, disk, Types, Frame
    <2>2. refreshTok'[my'[t].next] # "spent"
      BY <1>0, <1>2, <2>1, RotateKeeps
    <2>3. \A u \in Threads : u # t => pc[u] \notin Locking
      BY <1>1, <2>1 DEF Unspent
    <2>4. \A u \in Threads : Unspent(u)'
      <3>1. Unspent(t)'
        BY <2>1, <2>2 DEF Unspent
      <3> QED BY <1>1, <2>3, <3>1 DEF Unspent
    <2> QED BY <2>1, <2>4 DEF NotSpent
  <1>6. CASE Write(t)
    <2>1. /\ flock = t /\ UNCHANGED refreshTok /\ file' = my[t].next /\ pc'[t] = "apply"
          /\ my'[t].op # "import" /\ (refreshTok[my[t].next] # "spent" \/ Lost)
      BY <1>0, <1>6 DEF Write, FileReplaced, Go, Unspent, tokens, Types
    <2>2. \A u \in Threads : u # t => pc[u] \notin Locking
      BY <1>1, <2>1 DEF Unspent
    <2>3. \A u \in Threads : Unspent(u)'
      <3>1. Unspent(t)'
        BY <2>1 DEF Unspent
      <3> QED BY <1>1, <2>2, <3>1 DEF Unspent
    <2>4. Lost' <=> Lost
      BY <2>1 DEF Lost
    <2> QED BY <2>1, <2>3, <2>4 DEF NotSpent
  <1>7. CASE LoseResponse(t) \/ WriteFails(t)
    <2>1. pc[t] \in {"exchange", "write"} /\ flock = t /\ UNCHANGED file /\ my[t].cred = file
          /\ file \in Versions
      BY <1>0, <1>4, <1>7 DEF LoseResponse, WriteFails, Go, Unspent, disk
    <2>2. Lost'
      <3>1. CASE LoseResponse(t)
        BY <1>0, <1>2, <3>1, RotateKeeps DEF LoseResponse
      <3>2. CASE WriteFails(t)
        BY <1>0, <2>1, <3>2 DEF WriteFails, Types, Lost
      <3> QED BY <1>7, <3>1, <3>2
    <2>3. \A u \in Threads : u # t => pc[u] \notin Locking
      BY <1>1, <2>1 DEF Unspent
    <2>4. \A u \in Threads : Unspent(u)'
      <3>1. Unspent(t)'
        <4>1. CASE LoseResponse(t)
          BY <1>0, <2>1, <2>2, <4>1 DEF Unspent, LoseResponse, Go, disk, Types
        <4>2. CASE WriteFails(t)
          BY <1>0, <1>2, <2>1, <2>2, <4>2 DEF Unspent, WriteFails, Failed, Types, Frame
        <4> QED BY <1>7, <4>1, <4>2
      <3> QED BY <1>1, <2>3, <3>1 DEF Unspent
    <2> QED BY <2>2, <2>4 DEF NotSpent
  <1>8. ASSUME UNCHANGED <<file, refreshTok>>, ~Write(t), pc[t] # "write",
               pc'[t] \in Locking => flock' = t,
               pc'[t] \in {"exchange", "write"} => my'[t].cred = file,
               pc'[t] = "write" => FALSE,
               pc'[t] # "importStart", my'[t].op # "import",
               pc'[t] \notin {"importLock", "importWrite", "importRevive"},
               flock' # flock => flock \in {Free, t}
        PROVE  NotSpent'
    <2>1. Lost' <=> Lost
      BY <1>8 DEF Lost
    <2>2. \A u \in Threads : Unspent(u)'
      <3>1. Unspent(t)'
        BY <1>8 DEF Unspent
      <3>2. ASSUME NEW u \in Threads, u # t PROVE Unspent(u)'
        BY <1>1, <1>8, <2>1, <3>2, ConstantsAssumption DEF Unspent
      <3> QED BY <3>1, <3>2
    <2>3. ASSUME file' # None, refreshTok'[file'] = "spent"
          PROVE  Lost' \/ \E u \in Threads : pc'[u] = "write"
      <3>1. Lost \/ \E u \in Threads : pc[u] = "write"
        BY <1>8, <2>3 DEF NotSpent
      <3> QED BY <1>1, <1>8, <2>1, <3>1
    <2> QED BY <2>2, <2>3 DEF NotSpent
  <1>9. CASE (\E op \in Ops : Start(t, op)) \/ Acquire(t) \/ Lease(t) \/ Send(t) \/ Lookup(t)
    <2>1. UNCHANGED <<file, refreshTok, flock>> /\ pc[t] # "write" /\ ~Write(t)
          /\ pc'[t] \notin Locking /\ pc'[t] # "importStart" /\ my'[t].op # "import"
          /\ pc'[t] \notin {"importLock", "importWrite", "importRevive"}
      BY <1>0, <1>2, <1>9, EmptyFields DEF Start, Ops, Acquire, Lease, Send, Lookup, Go, Return, disk, tokens,
         Unspent, Types, Frame, Write
    <2> QED BY <1>8, <2>1
  <1>10. CASE Check(t) \/ Flock(t) \/ Reread(t) \/ Apply(t) \/ ApplyStates(t) \/ Cancelled(t)
    <2>1. UNCHANGED <<file, refreshTok>> /\ pc[t] # "write" /\ ~Write(t)
          /\ pc'[t] # "importStart" /\ my'[t].op # "import"
          /\ pc'[t] \notin {"importLock", "importWrite", "importRevive"}
      BY <1>0, <1>2, <1>10 DEF Check, Flock, Reread, Apply, ApplyStates, Cancelled, Go, disk, tokens,
         Unspent, Types, Frame, Write
    <2>2. /\ pc'[t] \in Locking => flock' = t
          /\ pc'[t] \in {"exchange", "write"} => my'[t].cred = file
          /\ pc'[t] # "write"
          /\ flock' # flock => flock \in {Free, t}
      BY <1>0, <1>2, <1>10 DEF Check, Flock, Reread, Apply, ApplyStates, Cancelled, Go, disk, tokens,
         Unspent, Types, Frame, AliveAt, Refreshing
    <2> QED BY <1>8, <2>1, <2>2
  <1>11. CASE PermanentFailure(t) \/ TransientFailure(t)
    <2>1. UNCHANGED <<file, refreshTok>> /\ pc[t] # "write" /\ ~Write(t)
          /\ pc'[t] = "penalty" /\ my'[t].op # "import"
          /\ (flock' # flock => flock \in {Free, t})
      BY <1>0, <1>2, <1>11 DEF PermanentFailure, TransientFailure, Failed, Go, Unspent, Types, Frame, Write
    <2> QED BY <1>8, <2>1
  <1>12. CASE \/ Refreshed(t) \/ Refused(t) \/ Enter(t) \/ EnterCancelled(t)
              \/ Penalty(t) \/ PenaltyStates(t) \/ PenaltyPersist(t)
    <2>1. UNCHANGED <<file, refreshTok, flock>> /\ pc[t] # "write" /\ ~Write(t)
          /\ pc'[t] \notin Locking /\ pc'[t] # "importStart" /\ my'[t].op # "import"
          /\ pc'[t] \notin {"importLock", "importWrite", "importRevive"}
      BY <1>0, <1>2, <1>12, EmptyFields DEF Refreshed, Refused, GiveUp, Enter, EnterCancelled, Penalty,
         PenaltyStates, PenaltyPersist, AfterPenalty, Go, Return, disk, tokens,
         Unspent, Types, Frame, Write
    <2> QED BY <1>8, <2>1
  <1>13. CASE \/ DeleteStart(t) \/ DeleteLock(t) \/ Mark(t) \/ MarkStates(t) \/ MarkPersist(t)
              \/ DeleteFindsNothing(t) \/ DeleteStates(t) \/ DeleteFails(t)
    <2>1. UNCHANGED <<file, refreshTok, flock>> /\ pc[t] # "write" /\ ~Write(t)
          /\ pc'[t] \notin Locking /\ pc'[t] # "importStart" /\ my'[t].op # "import"
          /\ pc'[t] \notin {"importLock", "importWrite", "importRevive"}
      BY <1>0, <1>2, <1>13, EmptyFields DEF DeleteStart, DeleteLock, Mark, MarkStates, MarkPersist,
         DeleteFindsNothing, DeleteStates, DeleteFails, DeleteStops, Go, Return, disk, tokens,
         Unspent, Types, Frame, Write
    <2> QED BY <1>8, <2>1
  <1>14. CASE ScanStart(t) \/ Scans(t)
    <2>1. UNCHANGED <<file, refreshTok, flock>> /\ pc[t] # "write" /\ ~Write(t)
          /\ pc'[t] \notin Locking /\ pc'[t] # "importStart" /\ my'[t].op # "import"
          /\ pc'[t] \notin {"importLock", "importWrite", "importRevive"}
      BY <1>0, <1>2, <1>14, EmptyFields DEF ScanStart, Scans, ScanRead, ScanApply, Persist, ScanPersist,
         Leave, Go, Return, disk, tokens, Unspent, Types, Frame, Write
    <2> QED BY <1>8, <2>1
  <1>15. CASE DeleteFile(t)
    <2>1. flock = Free /\ file' = None /\ pc'[t] = "deleteStates" /\ my'[t].op # "import"
          /\ UNCHANGED refreshTok
      BY <1>0, <1>15 DEF DeleteFile, Go, Types, Unspent, tokens
    <2>2. \A u \in Threads : pc[u] \notin Locking
      BY <2>1, ConstantsAssumption DEF NotSpent, Unspent
    <2>3. \A u \in Threads : Unspent(u)'
      BY <1>1, <2>1, <2>2 DEF Unspent
    <2> QED BY <2>1, <2>3 DEF NotSpent
  <1> QED BY <1>3, <1>5, <1>6, <1>7, <1>9, <1>10, <1>11, <1>12, <1>13, <1>14, <1>15
      DEF Acts, Works, Locks, Interrupts, Refreshes, Deletes

LEMMA UnspentOutside ==
    ASSUME Living, NotSpent, Environment, "logout" \notin Faults
    PROVE  NotSpent'
  <1>0. Types
    BY Split DEF Living, Core
  <1>1. CASE UNCHANGED <<pc, my, file, refreshTok>> /\ (flock' # flock => flock = Free)
    <2>1. Lost' <=> Lost
      BY <1>1 DEF Lost
    <2>2. \A u \in Threads : Unspent(u)'
      BY <1>1, <2>1, ConstantsAssumption DEF NotSpent, Unspent
    <2> QED BY <1>1, <2>1, <2>2 DEF NotSpent
  <1>2. CASE SiblingActs
    <2>1. UNCHANGED <<pc, my>> /\ flock = Sibling
      BY <1>2 DEF SiblingActs
    <2>2. \A u \in Threads : pc[u] \notin {"reread", "exchange", "write"}
      BY <2>1, ConstantsAssumption DEF NotSpent, Unspent
    <2>3. \A u \in Threads : Unspent(u)'
      BY <2>1, <2>2 DEF NotSpent, Unspent
    <2>4. \/ UNCHANGED <<file, refreshTok>>
          \/ refreshTok'[file'] # "spent"
      <3>1. CASE file # None /\ Rotate(file, "spent") /\ file' = NextVersion
        BY <1>0, <3>1, RotateKeeps DEF Types
      <3>2. CASE Unissued # {} /\ refreshTok' = [refreshTok EXCEPT ![NextVersion] = "accepted"]
                 /\ file' = NextVersion
        BY <1>0, <3>2, NewVersion DEF Types
      <3> QED BY <1>2, <3>1, <3>2 DEF SiblingActs, FileReplaced
    <2>5. CASE UNCHANGED <<file, refreshTok>>
      <3>1. Lost' <=> Lost
        BY <2>5 DEF Lost
      <3> QED BY <2>1, <2>2, <2>3, <2>5, <3>1 DEF NotSpent
    <2> QED BY <2>3, <2>4, <2>5 DEF NotSpent
  <1>3. CASE Restart
    <2>1. \A u \in Threads : Unspent(u)'
      BY <1>3, Idle, EmptyFields DEF Unspent
    <2>2. CASE \E t \in Threads : pc[t] = "write"
      <3>1. PICK t \in Threads : pc[t] = "write"
        BY <2>2
      <3>2. my[t].next \in Versions
        BY <3>1 DEF Living, HasNext
      <3>3. refreshTok'[my[t].next] = "lost"
        BY <1>3, <3>1, <3>2 DEF Restart
      <3> QED BY <2>1, <3>2, <3>3 DEF NotSpent, Lost
    <2>3. CASE ~\E t \in Threads : pc[t] = "write"
      <3>1. UNCHANGED <<file, refreshTok>>
        BY <1>0, <1>3, <2>3 DEF Restart, Types
      <3>2. Lost' <=> Lost
        BY <3>1 DEF Lost
      <3> QED BY <2>1, <2>3, <3>1, <3>2 DEF NotSpent
    <2> QED BY <2>2, <2>3
  <1>4. \/ SiblingActs \/ Restart
        \/ UNCHANGED <<pc, my, file, refreshTok>> /\ (flock' # flock => flock = Free)
    BY DEF Environment, Expire, Revoke, CooldownEnds, SiblingLocks, memory, disk, tokens
  <1> QED BY <1>1, <1>2, <1>3, <1>4

(* A refresh token that was rotated away is not spent a second time, by any  *)
(* interleaving of refreshes, scans, deletions, restarts and siblings that   *)
(* rotate or log in, as long as every answer of the provider arrived and was *)
(* written.  An import of the file's own tokens can undo a rotation that     *)
(* came in between, and so is excluded.                                      *)
THEOREM NoReplay ==
    ASSUME "logout" \notin Faults, \A t \in Threads : "import" \notin Roles[t]
    PROVE  Spec => []NoTokenReplay
  <1>1. Init => NotSpent
    BY EmptyFields, Values DEF Init, NotSpent, Unspent
  <1>2. Living /\ NotSpent /\ [Next]_vars => NotSpent'
    <2> SUFFICES ASSUME Living, NotSpent, [Next]_vars PROVE NotSpent'
      OBVIOUS
    <2>1. CASE UNCHANGED vars
      BY <2>1 DEF NotSpent, Unspent, Lost, vars
    <2>2. CASE Environment
      BY <2>2, UnspentOutside
    <2>3. ASSUME NEW t \in Threads, Acts(t) PROVE NotSpent'
      BY <2>3, UnspentActs
    <2> QED BY <2>1, <2>2, <2>3 DEF Next, Acts
  <1>3. Living /\ NotSpent => NoTokenReplay
    <2> SUFFICES ASSUME Living, NotSpent, NEW t \in Threads, pc[t] = "exchange",
                        refreshTok[my[t].cred] = "spent"
                 PROVE  Lost
      BY DEF NoTokenReplay, Lost
    <2>1. my[t].cred = file /\ flock = t /\ file # None
      BY DEF NotSpent, Unspent, Living, Alive, AliveAt, Refreshing
    <2>2. Lost \/ \E u \in Threads : pc[u] = "write"
      BY <2>1 DEF NotSpent
    <2> QED BY <2>1, <2>2 DEF NotSpent, Unspent
  <1>4. Spec => []Living
    BY LivingHolds
  <1> QED BY <1>1, <1>2, <1>3, <1>4, PTL DEF Spec
=============================================================================
