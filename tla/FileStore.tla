------------------------------ MODULE FileStore ------------------------------
(***************************************************************************)
(* FileTransactionStore: the durable transaction store.  Handles (one per  *)
(* process that opened the store) share two append-only logs, a control    *)
(* file naming the active one by generation, and an exclusive file lock;   *)
(* each keeps a cache of the records it has replayed.  Writes tear, calls  *)
(* to sync fail, processes die at any step, and the machine may lose power *)
(* with everything not yet synced.                                         *)
(*                                                                         *)
(* Log bytes are counted in units of a frame without a grant; the header   *)
(* of a log and of the control file, which every open repairs, is left     *)
(* out.  A generation g lives in slot g % 2.                               *)
(***************************************************************************)
EXTENDS Lifecycle, FiniteSets, Sequences, SequencesExt

CONSTANTS Txn, Principal, Time, NoGrant,
          Free, NoFrame,  \* the lock's and the frame's empty values
          Handle,         \* processes that open the store
          MaxLogBytes,    \* FileStoreConfig::max_log_bytes
          MaxRecords,     \* FileStoreConfig::max_records
          MaxGeneration,  \* bound: compactions explored
          MaxFailures,    \* bound: faults explored
          FaultSets       \* the kinds that happen together in a behaviour

ASSUME FileStoreAssumption ==
  /\ Time \subseteq Nat
  /\ {MaxLogBytes, MaxRecords, MaxGeneration, MaxFailures} \subseteq Nat
  /\ FaultSets \subseteq SUBSET {"write", "sync", "crash", "power", "lost_switch"}

VARIABLES
  log,       \* log[slot]: the complete frames of a log
  torn,      \* torn[slot]: an incomplete frame follows them
  durable,   \* durable[slot]: how many frames are on stable storage
  control,   \* the generations recorded by valid control slots
  synced,    \* the same, on stable storage
  cache,     \* cache[h]: the PersistentState of handle h
  lock,      \* the handle holding the file lock, or Free
  step,      \* what the holder does next
  frame,     \* the record the holder is persisting
  corrupt,   \* some handle returned PersistentCorrupt
  acked,     \* history: the last state of t a call reported as persisted
  issued,    \* history: CommitReservation values returned to callers
  wins, wonAt, reviewed,  \* the history TransactionStore keeps
  faults     \* the kinds that happen in this behaviour, and how many are left

disk == <<log, torn, durable, control, synced>>
holder == <<lock, step, frame>>
history == <<acked, issued, wins, wonAt, reviewed>>
vars == <<disk, cache, holder, corrupt, history, faults>>

Slot == {0, 1}

Store == INSTANCE TransactionStore WITH
  state <- [t \in Txn |-> "Absent"], approval <- [t \in Txn |-> NoGrant]

ASSUME NothingAssumption == Free \notin Handle /\ NoGrant \notin Store!Grant

Absent == [state |-> "Absent", approval |-> NoGrant]
Record == [state : States \cup {"Absent"}, approval : Store!Grant \cup {NoGrant}]
Frame == [txn : Txn, state : States, approval : Store!Grant \cup {NoGrant}, now : Time \cup {0}]
NoRecords == [t \in Txn |-> Absent]
Closed == [open |-> FALSE, generation |-> 0, offset |-> 0, records |-> NoRecords]

-----------------------------------------------------------------------------
(* Frames and their replay.                                                 *)
Bytes(f) == IF f.approval = NoGrant THEN 1 ELSE 2

LogBytes(frames) == FoldLeft(LAMBDA n, f : n + Bytes(f), 0, frames)

(* validate_record: grants exist exactly from approval on, and only there.  *)
ValidRecord(f) ==
  /\ f.approval # NoGrant => f.approval.transaction = f.txn
  /\ f.state \in {"Created", "Running", "VirtualComplete", "Denied",
                  "AutoApproved", "PendingApproval"} => f.approval = NoGrant
  /\ f.state \in {"Approved", "Expired"} => f.approval # NoGrant

(* apply_replayed_record's checks on a frame that follows record r.         *)
ValidReplay(r, f) ==
  r # Absent =>
    /\ CanTransitionTo(r.state, f.state)
    /\ \/ r.approval = f.approval
       \/ /\ r.approval = NoGrant
          /\ r.state = "PendingApproval" /\ f.state = "Approved"

Apply(records, f) == [records EXCEPT ![f.txn] = [state |-> f.state, approval |-> f.approval]]

Known(records) == {t \in Txn : records[t] # Absent}

Replay(records, frames) == FoldLeft(Apply, records, frames)

(* Every frame passes the checks of refresh where it is met.                *)
Replayable(records, frames) ==
  \A i \in 1..Len(frames) :
    LET before == Replay(records, SubSeq(frames, 1, i - 1)) IN
      /\ ValidRecord(frames[i])
      /\ ValidReplay(before[frames[i].txn], frames[i])

-----------------------------------------------------------------------------
(* read_control: the newest generation among the valid slots.               *)
Newest(generations) == CHOOSE g \in generations : \A o \in generations : o <= g

ControlReadable ==
  /\ control # {}
  /\ \A g, o \in control : g - o \in {0, 1} \/ o - g \in {0, 1}

Generation == Newest(control)
ActiveSlot == Generation % 2

(* Mutation: a cache is taken as current when it names the active slot,     *)
(* whatever its generation.                                                 *)
CurrentBySlot(c) == c.generation % 2 = ActiveSlot

Current(c) == c.generation = Generation

(* refresh: the cache a handle has after reading the unseen frames.         *)
Base(c) == IF Current(c) THEN c
           ELSE [c EXCEPT !.generation = Generation, !.offset = 0, !.records = NoRecords]

Unseen(c) == SubSeq(log[ActiveSlot], Base(c).offset + 1, Len(log[ActiveSlot]))

Refreshed(c) ==
  [open |-> TRUE, generation |-> Generation, offset |-> Len(log[ActiveSlot]),
   records |-> Replay(Base(c).records, Unseen(c))]

Readable(c) ==
  /\ ControlReadable
  /\ Base(c).offset <= Len(log[ActiveSlot])
  /\ Replayable(Base(c).records, Unseen(c))

(* A torn tail is cut off and the cut synced, which makes the frames before *)
(* it durable as well.                                                      *)
RepairTail ==
  /\ torn' = [torn EXCEPT ![ActiveSlot] = FALSE]
  /\ durable' = IF torn[ActiveSlot]
                THEN [durable EXCEPT ![ActiveSlot] = Len(log[ActiveSlot])]
                ELSE durable
  /\ UNCHANGED <<log, control, synced>>

ReportCorrupt ==
  /\ corrupt' = TRUE
  /\ UNCHANGED <<disk, cache, holder, history, faults>>

-----------------------------------------------------------------------------
Init ==
  /\ log = [s \in Slot |-> <<>>]
  /\ torn = [s \in Slot |-> FALSE]
  /\ durable = [s \in Slot |-> 0]
  /\ control = {0}
  /\ synced = {0}
  /\ cache = [h \in Handle |-> Closed]
  /\ lock = Free /\ step = "idle" /\ frame = NoFrame
  /\ corrupt = FALSE
  /\ acked = [t \in Txn |-> "Absent"]
  /\ issued = [t \in Txn |-> 0]
  /\ wins = [t \in Txn |-> 0]
  /\ wonAt = [t \in Txn |-> 0]
  /\ reviewed = {}
  /\ faults \in [kinds : FaultSets, left : {MaxFailures}]

(* open_validated_in, and get (or any call that fails its checks) on an     *)
(* open handle: the cache is brought up to date under the lock.             *)
Refresh(h) ==
  /\ lock = Free
  /\ LET c == IF cache[h].open THEN cache[h] ELSE [Closed EXCEPT !.generation = Generation] IN
       IF Readable(c)
       THEN /\ cache' = [cache EXCEPT ![h] = Refreshed(c)]
            /\ RepairTail
            /\ UNCHANGED <<holder, corrupt, history, faults>>
       ELSE ReportCorrupt

(* The frame a call wants persisted, given the up-to-date records: none     *)
(* when the call fails its checks.                                          *)
Created(records, t, s) ==
  {f \in {[txn |-> t, state |-> s, approval |-> NoGrant, now |-> 0]} :
     records[t] = Absent}

Transitioned(records, t, e) ==
  {f \in {[txn |-> t, state |-> e[2], approval |-> records[t].approval, now |-> 0]} :
     records[t].state = e[1] /\ CanTransitionTo(e[1], e[2])}

Approved(records, t, g) ==
  {f \in {[txn |-> t, state |-> "Approved", approval |-> g, now |-> 0]} :
     g.transaction = t /\ records[t].state = "PendingApproval"}

(* Mutation: a grant still holds at the instant it expires.                 *)
ExpiredAfter(r, now) == r.state = "Approved" /\ now > r.approval.expires

Expired(r, now) == r.state = "Approved" /\ now >= r.approval.expires

Reserved(records, t, now) ==
  {f \in {[txn |-> t, approval |-> records[t].approval, now |-> now,
           state |-> IF Expired(records[t], now) THEN "Expired" ELSE "Reserved"]} :
     records[t].state \in {"AutoApproved", "Approved"}}

Room(f) == LogBytes(log[ActiveSlot]) + Bytes(f) <= MaxLogBytes

(* transact: under the lock, refresh, check, and go on to append the frame  *)
(* or, when the log has no room for it, to compact.                         *)
Transact(h, Wanted(_)) ==
  /\ lock = Free /\ cache[h].open
  /\ IF Readable(cache[h])
     THEN LET c == Refreshed(cache[h]) IN
          \E f \in Wanted(c.records) :
            /\ f.txn \in Known(c.records) \/ Cardinality(Known(c.records)) < MaxRecords
            /\ ValidRecord(f)
            /\ cache' = [cache EXCEPT ![h] = c]
            /\ RepairTail
            /\ lock' = h
            /\ frame' = f
            /\ step' = IF Room(f) THEN "append" ELSE "compact"
            /\ UNCHANGED <<corrupt, history, faults>>
     ELSE ReportCorrupt

Call(h) ==
  \E t \in Txn :
    \/ \E s \in Store!CreatedIn : Transact(h, LAMBDA r : Created(r, t, s))
    \/ \E e \in Store!CallerEdges : Transact(h, LAMBDA r : Transitioned(r, t, e))
    \/ \E g \in Store!Grant : Transact(h, LAMBDA r : Approved(r, t, g))
    \/ \E now \in Time : Transact(h, LAMBDA r : Reserved(r, t, now))

-----------------------------------------------------------------------------
(* Mutation: the call ends and its lock guard is leaked.                    *)
ReleaseLeaking == UNCHANGED lock /\ step' = "idle" /\ frame' = NoFrame

Release == lock' = Free /\ step' = "idle" /\ frame' = NoFrame

Fault(kind) ==
  /\ kind \in faults.kinds /\ faults.left > 0
  /\ faults' = [faults EXCEPT !.left = @ - 1]

(* The moment from which every later call sees the frame.                   *)
TakesEffect ==
  /\ wins' = IF frame.state = "Reserved" THEN [wins EXCEPT ![frame.txn] = @ + 1] ELSE wins
  /\ wonAt' = IF frame.state = "Reserved" THEN [wonAt EXCEPT ![frame.txn] = frame.now] ELSE wonAt
  /\ reviewed' = IF frame.state = "PendingApproval" THEN reviewed \cup {frame.txn} ELSE reviewed

NoEffect == UNCHANGED <<wins, wonAt, reviewed>>

Acknowledge ==
  /\ acked' = [acked EXCEPT ![frame.txn] = frame.state]
  /\ issued' = IF frame.state = "Reserved" THEN [issued EXCEPT ![frame.txn] = @ + 1] ELSE issued

(* append_record: the frame is written after the last complete one...       *)
AppendFrame(h) ==
  /\ lock = h /\ step = "append"
  /\ log' = [log EXCEPT ![ActiveSlot] = Append(@, frame)]
  /\ step' = "sync"
  /\ UNCHANGED <<torn, durable, control, synced, cache, lock, frame, corrupt, history, faults>>

(* ...or only in part, and the call returns the write's error.              *)
AppendTears(h) ==
  /\ lock = h /\ step = "append" /\ Fault("write")
  /\ torn' = [torn EXCEPT ![ActiveSlot] = TRUE]
  /\ Release
  /\ UNCHANGED <<log, durable, control, synced, cache, corrupt, history>>

CacheFrame(h, generation, offset) ==
  cache' = [cache EXCEPT ![h] =
    [open |-> TRUE, generation |-> generation, offset |-> offset,
     records |-> Apply(@.records, frame)]]

SyncAppend(h) ==
  /\ lock = h /\ step = "sync"
  /\ durable' = [durable EXCEPT ![ActiveSlot] = Len(log[ActiveSlot])]
  /\ CacheFrame(h, Generation, Len(log[ActiveSlot]))
  /\ TakesEffect /\ Acknowledge /\ Release
  /\ UNCHANGED <<log, torn, control, synced, corrupt, faults>>

(* The frame is in the log, but neither cached nor acknowledged.            *)
SyncAppendFails(h) ==
  /\ lock = h /\ step = "sync" /\ Fault("sync")
  /\ TakesEffect /\ Release
  /\ UNCHANGED <<disk, cache, corrupt, acked, issued>>

(* Mutation: everything but the record that triggered it is left out.       *)
CompactedNewOnly(h) == <<frame>>

(* Mutation: that record is appended to those of the cache, its old one too *)
CompactedWithBoth(h) ==
  LET records == cache[h].records IN
    Append(SetToSeq({[txn |-> t, state |-> records[t].state,
                      approval |-> records[t].approval, now |-> 0] : t \in Known(records)}),
           frame)

(* compact: the inactive log is rewritten with the latest record of every   *)
(* transaction and synced.                                                  *)
Compacted(h) ==
  LET records == Apply(cache[h].records, frame) IN
    SetToSeq({[txn |-> t, state |-> records[t].state, approval |-> records[t].approval,
               now |-> 0] : t \in Known(records)})

(* Mutation: the compacted log is not synced before the switch.             *)
CompactLogUnsynced(h) ==
  LET target == 1 - ActiveSlot IN
    /\ lock = h /\ step = "compact" /\ Generation < MaxGeneration
    /\ LogBytes(Compacted(h)) <= MaxLogBytes
    /\ log' = [log EXCEPT ![target] = Compacted(h)]
    /\ torn' = [torn EXCEPT ![target] = FALSE]
    /\ durable' = [durable EXCEPT ![target] = 0]
    /\ step' = "switch"
    /\ UNCHANGED <<control, synced, cache, lock, frame, corrupt, history, faults>>

CompactLog(h) ==
  LET target == 1 - ActiveSlot IN
    /\ lock = h /\ step = "compact" /\ Generation < MaxGeneration
    /\ LogBytes(Compacted(h)) <= MaxLogBytes
    /\ log' = [log EXCEPT ![target] = Compacted(h)]
    /\ torn' = [torn EXCEPT ![target] = FALSE]
    /\ durable' = [durable EXCEPT ![target] = Len(Compacted(h))]
    /\ step' = "switch"
    /\ UNCHANGED <<control, synced, cache, lock, frame, corrupt, history, faults>>

(* The rewrite fails part-way: on an error of a write or a sync, or because *)
(* even the compacted log exceeds the ceiling (PersistentLogLimit).         *)
CompactLogFails(h) ==
  LET target == 1 - ActiveSlot IN
    /\ lock = h /\ step = "compact"
    /\ \/ LogBytes(Compacted(h)) > MaxLogBytes /\ UNCHANGED faults
       \/ Generation < MaxGeneration /\ Fault("write")
    /\ log' = [log EXCEPT ![target] = <<>>]
    /\ torn' = [torn EXCEPT ![target] = TRUE]
    /\ durable' = [durable EXCEPT ![target] = 0]
    /\ Release
    /\ UNCHANGED <<control, synced, cache, corrupt, history>>

(* append_control overwrites the older control slot only.                   *)
Overwritten(generations) == generations \ {Generation - 1}

(* Mutation: the record of the current generation is overwritten in place.  *)
SwitchControlInPlace(h) ==
  /\ lock = h /\ step = "switch"
  /\ \/ control' = {Generation + 1} /\ step' = "control" /\ UNCHANGED <<lock, frame, faults>>
     \/ control' = {} /\ Fault("write") /\ Release
  /\ UNCHANGED <<log, torn, durable, synced, cache, corrupt, history>>

SwitchControl(h) ==
  /\ lock = h /\ step = "switch"
  /\ \/ /\ control' = Overwritten(control) \cup {Generation + 1}
        /\ step' = "control" /\ UNCHANGED <<lock, frame, faults>>
     \/ control' = Overwritten(control) /\ Fault("write") /\ Release
  /\ UNCHANGED <<log, torn, durable, synced, cache, corrupt, history>>

SyncControl(h) ==
  /\ lock = h /\ step = "control"
  /\ synced' = control
  /\ CacheFrame(h, Generation, Len(log[ActiveSlot]))
  /\ TakesEffect /\ Acknowledge /\ Release
  /\ UNCHANGED <<log, torn, durable, control, corrupt, faults>>

SyncControlFails(h) ==
  /\ lock = h /\ step = "control" /\ Fault("sync")
  /\ TakesEffect /\ Release
  /\ UNCHANGED <<disk, cache, corrupt, acked, issued>>

-----------------------------------------------------------------------------
(* The process of h dies; the kernel drops its lock.  What it had written   *)
(* stays, complete or torn.                                                 *)
Crash(h) ==
  /\ cache[h].open /\ Fault("crash")
  /\ cache' = [cache EXCEPT ![h] = Closed]
  /\ IF lock = h
     THEN /\ Release
          /\ torn' \in {torn, [torn EXCEPT ![ActiveSlot] = @ \/ step = "append"]}
          /\ control' \in {control, IF step = "switch" THEN Overwritten(control) ELSE control}
          /\ IF step \in {"sync", "control"} THEN TakesEffect ELSE NoEffect
          /\ UNCHANGED <<log, durable, synced, corrupt, acked, issued>>
     ELSE UNCHANGED <<disk, holder, corrupt, history>>

(* The control record of the current generation is on stable storage, or    *)
(* its writer is still at it and the one before is.                         *)
Anchored == Generation \in synced \/ (step = "control" /\ Generation - 1 \in synced)

(* Power is lost: every process dies, each log keeps its durable frames and *)
(* any part of the others, and each control slot holds its last synced      *)
(* content, its last written content, or neither.  Only with "lost_switch"  *)
(* may it come while the current generation hangs on a record whose writer  *)
(* died, or was refused, before the record was synced.                      *)
PowerLoss ==
  /\ Fault("power")
  /\ "lost_switch" \notin faults.kinds => Anchored
  /\ cache' = [h \in Handle |-> Closed]
  /\ \E keep \in [Slot -> 0..MaxLogBytes], cut \in [Slot -> BOOLEAN] :
       /\ \A s \in Slot :
            /\ keep[s] \in durable[s]..Len(log[s])
            /\ cut[s] => keep[s] < Len(log[s]) \/ torn[s]
       /\ log' = [s \in Slot |-> SubSeq(log[s], 1, keep[s])]
       /\ durable' = keep
       /\ torn' = cut
       /\ \E c \in SUBSET (control \cup synced) :
            /\ control \cap synced \subseteq c
            /\ \A g, o \in c : g % 2 = o % 2 => g = o
            /\ control' = c /\ synced' = c
            /\ IF \/ step = "sync" /\ keep[ActiveSlot] = Len(log[ActiveSlot])
                  \/ step = "control" /\ Generation \in c
               THEN TakesEffect ELSE NoEffect
  /\ Release
  /\ UNCHANGED <<corrupt, acked, issued>>

Next ==
  \/ \E h \in Handle :
       \/ Refresh(h) \/ Call(h)
       \/ AppendFrame(h) \/ AppendTears(h) \/ SyncAppend(h) \/ SyncAppendFails(h)
       \/ CompactLog(h) \/ CompactLogFails(h)
       \/ SwitchControl(h) \/ SyncControl(h) \/ SyncControlFails(h)
       \/ Crash(h)
  \/ PowerLoss

Spec == Init /\ [][Next]_vars
-----------------------------------------------------------------------------
TypeOK ==
  /\ log \in [Slot -> Seq(Frame)]
  /\ torn \in [Slot -> BOOLEAN]
  /\ durable \in [Slot -> Nat]
  /\ control \subseteq 0..MaxGeneration /\ synced \subseteq 0..MaxGeneration
  /\ cache \in [Handle -> [open : BOOLEAN, generation : Nat, offset : Nat,
                           records : [Txn -> Record]]]
  /\ lock \in Handle \cup {Free}
  /\ step \in {"idle", "append", "sync", "compact", "switch", "control"}
  /\ step = "idle" <=> lock = Free
  /\ frame \in Frame \cup {NoFrame}

(* The records every call sees from now on: the replay of the active log,   *)
(* without what the current holder has written but not yet reported.        *)
Visible ==
  CASE step = "sync"    -> Replay(NoRecords, Front(log[ActiveSlot]))
    [] step = "control" -> Replay(NoRecords, log[1 - ActiveSlot])
    [] OTHER            -> Replay(NoRecords, log[ActiveSlot])

(* Whatever tears, dies or loses power, in any order, no later call finds   *)
(* the files corrupt: not moved backwards, no illegal edge, no unreadable   *)
(* control.  The next three properties hold as widely.  The one exception   *)
(* to all four is a power loss that PowerLoss admits under "lost_switch".   *)
NeverCorrupt == ~corrupt

(* A state a call reported as persisted is still there, or behind a later   *)
(* one, after any crash and under any other handle's compaction.            *)
AckedSurvives ==
  \A t \in Txn : acked[t] # "Absent" =>
    /\ Visible[t] # Absent
    /\ Rank(acked[t]) <= Rank(Visible[t].state)

(* reserve hands out at most one CommitReservation per transaction.         *)
ConsumedOnce == \A t \in Txn : issued[t] <= 1

(* A cache that passes for current is exactly the replay of the part of the *)
(* active log it has read, so no handle decides on another log's records.   *)
CacheIsPrefix ==
  \A h \in Handle : cache[h].open /\ ControlReadable /\ Current(cache[h]) =>
    /\ cache[h].offset <= Len(log[ActiveSlot])
    /\ cache[h].records =
         Replay(NoRecords, SubSeq(log[ActiveSlot], 1, cache[h].offset))

(* The byte ceiling never stops a transaction in flight: once a record fits *)
(* into the store, every transition that adds no grant fits as well, by     *)
(* compaction if need be; and no log outgrows the ceiling (refresh would    *)
(* refuse it for ever after).                                               *)
TransitionsFit ==
  /\ \A s \in Slot : LogBytes(log[s]) <= MaxLogBytes
  /\ Cardinality(Known(Visible)) <= MaxRecords
  /\ (step = "compact" /\ Visible[frame.txn] # Absent
        /\ Visible[frame.txn].approval = frame.approval)
       => LogBytes(Compacted(lock)) <= MaxLogBytes

(* Every frame that calls can have read is on stable storage: what power    *)
(* loss could take from Visible is at most what the holder is writing.      *)
Sealed ==
  CASE step = "sync"    -> durable[ActiveSlot] = Len(log[ActiveSlot]) - 1
    [] step = "control" -> durable[1 - ActiveSlot] = Len(log[1 - ActiveSlot])
    [] OTHER            -> durable[ActiveSlot] = Len(log[ActiveSlot])

Abstract == INSTANCE TransactionStore WITH
  state <- [t \in Txn |-> Visible[t].state],
  approval <- [t \in Txn |-> Visible[t].approval]

(* Every step of the files is a step of TransactionStore or invisible to    *)
(* its callers, crashes, failed calls, compactions and power losses         *)
(* included.  One step is not: power loss over a log with a frame that      *)
(* others have read and nobody synced, its writer having died or been       *)
(* refused (append_record).  That frame may vanish; AckedSurvives says that *)
(* no call had reported it.  The exception made for NeverCorrupt is made    *)
(* here too.                                                                *)
Implements ==
  /\ Abstract!Init
  /\ [][\/ UNCHANGED Abstract!vars
        \/ Abstract!Next
        \/ PowerLoss /\ ~Sealed]_vars
=============================================================================
