-------------------------- MODULE ContinuityStore --------------------------
(***************************************************************************)
(* The store of hard affinities (continuity.go): bindings in memory that   *)
(* expire and are bounded in number, and the checkpoint loop that writes   *)
(* them to .grokcli2api-affinity.json about a second after a change.       *)
(*                                                                         *)
(* An operation holds the store's mutex and is one step.  A checkpoint is  *)
(* two: the snapshot under the mutex, and the writing of the file without  *)
(* it, which the rename makes atomic.  What a binding leads to (account,   *)
(* model, backend and upstream session) is one value, its route.           *)
(***************************************************************************)
EXTENDS Integers, FiniteSets

CONSTANTS Keys,       (* hashes of tenant, affinity key and model             *)
          Routes,     (* what a key may be bound to                           *)
          None,       (* no binding                                           *)
          Limit,      (* AffinityMaxEntries                                   *)
          TTL,        (* AffinityTTL, in ticks                                *)
          MaxTime,    (* bound: ticks                                         *)
          MaxOps,     (* bound: operations on the store                       *)
          MaxFaults   (* bound: failed writes and ends of the process         *)

ASSUME StoreAssumption ==
    /\ IsFiniteSet(Keys)
    /\ Limit \in Nat \ {0}
    /\ TTL \in Nat \ {0}
    /\ MaxTime \in Nat /\ MaxOps \in Nat /\ MaxFaults \in Nat
    /\ None \notin [route : Routes, next : Nat, until : Nat]

VARIABLES
    bindings,   (* continuityStore.bindings                                  *)
    dirty,      (* memory has changed since the last snapshot                *)
    wake,       (* the one-place channel of that name is full                *)
    timer,      (* checkpointLoop's timer is running                         *)
    loop,       (* where checkpointLoop is                                   *)
    closing,    (* Close was called                                          *)
    snapshot,   (* flush's copy of the bindings                              *)
    disk,       (* the affinity file                                         *)
    running,    (* the process exists                                        *)
    clock,      (* time                                                      *)
    ops,        (* operations so far                                         *)
    faults,     (* faults so far                                             *)
    abandoned   (* auxiliary: the last write ended before its file existed   *)

loopVars == <<timer, loop, snapshot, disk>>
processVars == <<running, closing, clock, faults, abandoned>>
vars == <<bindings, dirty, wake, timer, loop, closing, snapshot, disk, running,
          clock, ops, faults, abandoned>>

Nothing == [k \in Keys |-> None]
Used(b) == {k \in Keys : b[k] # None}
Live(b) == {k \in Used(b) : clock < b[k].until}
Only(b, S) == [k \in Keys |-> IF k \in S THEN b[k] ELSE None]

(* Wrong variant: no room is left for the entry to come. *)
EvictedOneTooFew(b) ==
    IF Cardinality(Live(b)) <= Limit THEN {Only(b, Live(b))}
    ELSE {Only(b, S) : S \in {T \in SUBSET Live(b) :
              /\ Cardinality(T) = Limit
              /\ \A k \in T, o \in Live(b) \ T : b[o].until <= b[k].until}}

(* evictLocked: expired bindings go, and if the store is then not below its  *)
(* limit the oldest go too, until there is room for one more.                *)
Evicted(b) ==
    IF Cardinality(Live(b)) < Limit THEN {Only(b, Live(b))}
    ELSE {Only(b, S) : S \in {T \in SUBSET Live(b) :
              /\ Cardinality(T) = Limit - 1
              /\ \A k \in T, o \in Live(b) \ T : b[o].until <= b[k].until}}

(* load: expired entries are left out; more than the limit are cut down. *)
Loaded(b) == IF Cardinality(Live(b)) > Limit THEN Evicted(b) ELSE {Only(b, Live(b))}

Init ==
    /\ bindings = Nothing /\ disk = Nothing /\ snapshot = Nothing
    /\ dirty = FALSE /\ wake = FALSE /\ timer = FALSE /\ loop = "select"
    /\ closing = FALSE /\ running = TRUE
    /\ clock = 0 /\ ops = 0 /\ faults = 0 /\ abandoned = FALSE

-----------------------------------------------------------------------------
(* Operations of the store.                                                  *)

Operation ==
    /\ running
    /\ ops < MaxOps
    /\ ops' = ops + 1
    /\ UNCHANGED <<loopVars, processVars>>

(* Wrong variant: no signal while a checkpoint is being written. *)
ChangedQuietly == dirty' = TRUE /\ wake' = (wake \/ loop # "write")

(* Memory changes: dirty is set and signalLocked fills the channel. *)
Changed == dirty' = TRUE /\ wake' = TRUE

(* A binding past its time is removed by whoever meets it. *)
RemoveExpired(k) ==
    /\ k \in Used(bindings) \ Live(bindings)
    /\ bindings' = [bindings EXCEPT ![k] = None]

(* A key that is bound gets a new lease of life. *)
Lookup(k) ==
    /\ Operation
    /\ \/ RemoveExpired(k)
       \/ /\ k \in Live(bindings)
          /\ bindings' = [bindings EXCEPT ![k].until = clock + TTL]
    /\ Changed

ReserveTurn(k) ==
    /\ Operation
    /\ \/ RemoveExpired(k)
       \/ /\ k \in Live(bindings)
          /\ bindings' = [bindings EXCEPT ![k].until = clock + TTL, ![k].next = @ + 1]
    /\ Changed

(* Bind makes room first, also when the key is there already. *)
Bind(k, route, turn) ==
    /\ Operation
    /\ \E kept \in Evicted(bindings) :
          bindings' = [kept EXCEPT ![k] = [route |-> route, next |-> turn,
                                           until |-> clock + TTL]]
    /\ Changed

(* Wrong variant: a deletion is left to be saved with the next change. *)
DeleteAccountInMemory(route) ==
    /\ Operation
    /\ LET owned == {k \in Used(bindings) : bindings[k].route = route}
       IN /\ owned # {}
          /\ bindings' = Only(bindings, Keys \ owned)
    /\ UNCHANGED <<dirty, wake>>

(* DeleteAccount: all bindings of an account, here of one route. *)
DeleteAccount(route) ==
    /\ Operation
    /\ LET owned == {k \in Used(bindings) : bindings[k].route = route}
       IN /\ owned # {} \/ dirty
          /\ bindings' = Only(bindings, Keys \ owned)
    /\ Changed

-----------------------------------------------------------------------------
(* checkpointLoop and flush.                                                 *)

Selects ==
    /\ running
    /\ loop = "select"
    /\ UNCHANGED <<bindings, dirty, snapshot, disk, ops, processVars>>

(* The first signal starts the timer; later ones find it running. *)
TakeWake ==
    /\ Selects
    /\ wake
    /\ wake' = FALSE
    /\ timer' = TRUE
    /\ UNCHANGED loop

TimerFires ==
    /\ Selects
    /\ timer
    /\ timer' = FALSE
    /\ loop' = "flush"
    /\ UNCHANGED wake

SeesClosed ==
    /\ Selects
    /\ closing
    /\ timer' = FALSE
    /\ loop' = "lastFlush"
    /\ UNCHANGED wake

Flushing == loop \in {"flush", "lastFlush"}
Writing == loop \in {"write", "lastWrite"}

(* flush returns to the loop, or the loop ends. *)
Returns == loop' = IF loop \in {"flush", "write"} THEN "select" ELSE "gone"

FlushClean ==
    /\ running
    /\ Flushing
    /\ ~dirty
    /\ Returns
    /\ UNCHANGED <<bindings, dirty, wake, timer, snapshot, disk, ops, processVars>>

(* Under the mutex: evict, copy, and count as clean from here on. *)
Snapshot ==
    /\ running
    /\ Flushing
    /\ dirty
    /\ \E kept \in Evicted(bindings) : bindings' = kept /\ snapshot' = kept
    /\ dirty' = FALSE
    /\ loop' = IF loop = "flush" THEN "write" ELSE "lastWrite"
    /\ UNCHANGED <<wake, timer, disk, ops, processVars>>

EndsWrite ==
    /\ running
    /\ Writing
    /\ Returns
    /\ snapshot' = Nothing
    /\ UNCHANGED <<bindings, timer, ops, running, closing, clock>>

(* Wrong variant: clean is declared when the file is in place. *)
WrittenThenClean ==
    /\ EndsWrite
    /\ disk' = snapshot
    /\ abandoned' = FALSE
    /\ dirty' = FALSE
    /\ UNCHANGED <<wake, faults>>

(* The temporary file is written, synced, closed and renamed. *)
Written ==
    /\ EndsWrite
    /\ disk' = snapshot
    /\ abandoned' = FALSE
    /\ UNCHANGED <<dirty, wake, faults>>

Fault == faults < MaxFaults /\ faults' = faults + 1

(* Writing, syncing, closing or renaming fails: try again later. *)
WriteFails ==
    /\ EndsWrite
    /\ Fault
    /\ Changed
    /\ UNCHANGED <<disk, abandoned>>

(* Encoding, MkdirAll or CreateTemp fails: the change stays counted as saved. *)
WriteDoesNotStart ==
    /\ EndsWrite
    /\ Fault
    /\ abandoned' = TRUE
    /\ UNCHANGED <<dirty, wake, disk>>

-----------------------------------------------------------------------------
(* The process.                                                              *)

(* Server.Close; requests that outlast the shutdown's deadline go on. *)
Close ==
    /\ running
    /\ ~closing
    /\ closing' = TRUE
    /\ UNCHANGED <<bindings, dirty, wake, loopVars, running, clock, ops, faults, abandoned>>

(* The process dies, or ends after Close has returned. *)
Stop ==
    /\ running
    /\ loop = "gone" \/ faults < MaxFaults
    /\ faults' = IF loop = "gone" THEN faults ELSE faults + 1
    /\ running' = FALSE
    /\ bindings' = Nothing /\ snapshot' = Nothing
    /\ dirty' = FALSE /\ wake' = FALSE /\ timer' = FALSE
    /\ loop' = "gone" /\ closing' = FALSE /\ abandoned' = FALSE
    /\ UNCHANGED <<disk, clock, ops>>

(* newContinuityStore. *)
Restart ==
    /\ ~running
    /\ Fault
    /\ running' = TRUE
    /\ \E kept \in Loaded(disk) : bindings' = kept
    /\ loop' = "select"
    /\ UNCHANGED <<dirty, wake, timer, closing, snapshot, disk, clock, ops, abandoned>>

Tick ==
    /\ clock < MaxTime
    /\ clock' = clock + 1
    /\ UNCHANGED <<bindings, dirty, wake, loopVars, closing, running, ops, faults, abandoned>>

-----------------------------------------------------------------------------

LoopStep ==
    \/ TakeWake \/ TimerFires \/ SeesClosed
    \/ FlushClean \/ Snapshot \/ Written \/ WriteFails \/ WriteDoesNotStart

Next ==
    \/ \E k \in Keys :
        \/ Lookup(k) \/ ReserveTurn(k)
        \/ \E route \in Routes, turn \in {1, 2} : Bind(k, route, turn)
    \/ \E route \in Routes : DeleteAccount(route)
    \/ LoopStep
    \/ Close
    \/ Stop
    \/ Restart
    \/ Tick

Spec == Init /\ [][Next]_vars

(* The checkpoint loop's goroutine runs and its timer fires. *)
FairSpec == Spec /\ WF_vars(LoopStep)

-----------------------------------------------------------------------------
(* Properties.                                                               *)

Binding == [route : Routes, next : Nat, until : Nat]
Store == [Keys -> Binding \cup {None}]

(* The types of the state, and the bound the configuration promises: neither *)
(* memory nor the file ever holds more bindings than the limit.              *)
TypeOK ==
    /\ bindings \in Store /\ snapshot \in Store /\ disk \in Store
    /\ \A b \in {bindings, snapshot, disk} : Cardinality(Used(b)) <= Limit
    /\ dirty \in BOOLEAN /\ wake \in BOOLEAN /\ timer \in BOOLEAN
    /\ loop \in {"select", "flush", "write", "lastFlush", "lastWrite", "gone"}
    /\ closing \in BOOLEAN /\ running \in BOOLEAN /\ abandoned \in BOOLEAN
    /\ clock \in 0..MaxTime /\ ops \in 0..MaxOps /\ faults \in 0..MaxFaults

(* The bindings a request could still use, in memory and after a restart. *)
Usable(b) == Only(b, Live(b))
Saved == Usable(bindings) = Usable(disk)

(* When the store counts as clean, a restart would lose nothing: whatever    *)
(* changed while the file was being written has made it dirty again.  The    *)
(* exception is a write that ended before its temporary file existed.        *)
CleanIsSaved == running /\ ~dirty /\ ~Writing /\ ~abandoned => Saved

(* A change that is not saved is never forgotten: a signal is pending, the   *)
(* timer runs, or the loop is on its way to a snapshot.  A signal sent while *)
(* the loop was writing, or a failed write, must not fall between these.     *)
DirtyIsScheduled ==
    running /\ dirty /\ loop # "gone" => wake \/ timer \/ Flushing \/ Writing

(* The same holds at the end: once nothing changes any more the file agrees  *)
(* with memory, also after failed writes, restarts and a clean shutdown.     *)
EventuallySaved ==
    <>[](running /\ loop # "gone" /\ ~abandoned => Saved)
=============================================================================
