------------------------------ MODULE CmdQueue ------------------------------
(***************************************************************************)
(* The backend's command queue (vip_mc_cmd_queue): admitted commands wait  *)
(* in per-class lists, one command per stream is handed to the device at a *)
(* time, and two caches hold the oldest admit order of every stream so     *)
(* that the ordering rule never rescans the queue.                         *)
(*                                                                         *)
(* Every operation is a formula over the queue's own variables.  The       *)
(* component's specification, QueueSpec, interleaves them freely; Backend  *)
(* extends this module and drives them in the order of its run loop.       *)
(***************************************************************************)
EXTENDS Integers, FiniteSets

CONSTANTS
  Cmd,                   (* the command entries a run may submit           *)
  Byte,                  (* byte lanes of one row word                     *)
  NoByte,                (* a lane whose write strobe is off               *)
  QosClassCount,         (* cfg.qos_class_count                            *)
  QosAging,              (* cfg.qos_aging_ns in clock ticks, 0 disables    *)
  WriteCoalescingEnable  (* cfg.write_coalescing_enable                    *)

(* A command entry object, submitted at most once.  "word" stands for all  *)
(* that same_row_word compares: beat count, rank and row-aligned address.  *)
Entry == [n : Nat, port : Nat, id : Nat, op : {"RD", "WR"}, qos : Int,
          word : Nat, strb : SUBSET Byte, excl : BOOLEAN, pre : BOOLEAN]

ASSUME CmdAssumption == Cmd \subseteq Entry /\ NoByte \notin Cmd
ASSUME QosAssumption ==
  QosClassCount \in Nat \ {0} /\ QosAging \in Nat
ASSUME CoalesceAssumption == WriteCoalescingEnable \in BOOLEAN

VARIABLES
  queued,            (* entries of class_q; a class list is read in admit order *)
  inflight,          (* values of inflight_cmd_by_tag *)
  tag,               (* entry.tag, 0 until enqueued *)
  admit_order,       (* entry.admit_order, 0 until admitted *)
  waited,            (* now - admit_time in ticks, up to MaxWait *)
  next_tag,
  next_admit_order,
  oldest_queued,     (* oldest_queued_admit_order_by_stream, 0 = no key *)
  oldest_inflight,   (* oldest_inflight_admit_order_by_stream, 0 = no key *)
  merged_writes,     (* entry.merged_writes *)
  wdata,             (* the entry whose data each strobed lane carries *)
  arrival,           (* history: the rank of an entry's acceptance, 0 = never *)
  arrivals           (* history: how many entries were accepted *)

orderVars    == <<admit_order, next_admit_order, waited>>
queueVars    == <<queued, oldest_queued>>
inflightVars == <<inflight, oldest_inflight, tag, next_tag>>
mergeVars    == <<merged_writes, wdata>>
historyVars  == <<arrival, arrivals>>
queueState == <<queued, inflight, tag, admit_order, waited, next_tag,
                next_admit_order, oldest_queued, oldest_inflight,
                merged_writes, wdata, arrival, arrivals>>

-----------------------------------------------------------------------------
stream_key(c) == <<c.port, c.id, c.op>>
Stream == {stream_key(c) : c \in Cmd}

clamp_qos_class(k) ==
  IF k < 0 THEN 0 ELSE IF k >= QosClassCount THEN QosClassCount - 1 ELSE k

(* Past MaxWait the clamp hides any further promotion.                     *)
MaxWait == QosAging * (QosClassCount - 1)

get_effective_qos_class(c) ==
  LET class == clamp_qos_class(c.qos)
  IN IF QosAging = 0 THEN class
                     ELSE clamp_qos_class(class + waited[c] \div QosAging)

(* Mutant: a stream without an entry gets a sentinel instead of losing its *)
(* key.                                                                    *)
OldestOrder_sentinel(S, order, s) ==
  LET orders == {order[c] : c \in {d \in S : stream_key(d) = s}}
  IN IF orders = {} THEN -1
     ELSE CHOOSE k \in orders : \A j \in orders : k <= j

(* rebuild_oldest_*_stream_order: the least order over S in stream s.      *)
OldestOrder(S, order, s) ==
  LET orders == {order[c] : c \in {d \in S : stream_key(d) = s}}
  IN IF orders = {} THEN 0
     ELSE CHOOSE k \in orders : \A j \in orders : k <= j

(* update_oldest_*_stream_order: keep the smaller of cache and new order.  *)
LowerTo(cache, s, k) ==
  [cache EXCEPT ![s] = IF @ = 0 \/ k < @ THEN k ELSE @]

(* Mutant: forgets the commands that are already at the device.            *)
is_stream_blocked_queued_only(c) ==
  /\ oldest_queued[stream_key(c)] # 0
  /\ oldest_queued[stream_key(c)] < admit_order[c]

is_stream_blocked(c) ==
  \/ /\ oldest_queued[stream_key(c)] # 0
     /\ oldest_queued[stream_key(c)] < admit_order[c]
  \/ /\ oldest_inflight[stream_key(c)] # 0
     /\ oldest_inflight[stream_key(c)] < admit_order[c]

Eligible == {c \in queued : ~is_stream_blocked(c)}

(* Mutant: takes the head of the class list, blocked or not.               *)
head_of_class(k) ==
  {c \in queued :
     /\ clamp_qos_class(c.qos) = k
     /\ \A d \in queued : clamp_qos_class(d.qos) = k =>
                            admit_order[c] <= admit_order[d]} \cap Eligible

(* find_first_eligible_index_in_class: class lists are in admit order.     *)
first_eligible_in_class(k) ==
  {c \in Eligible :
     /\ clamp_qos_class(c.qos) = k
     /\ \A d \in Eligible : clamp_qos_class(d.qos) = k =>
                              admit_order[c] <= admit_order[d]}

get_highest_effective_class ==
  LET firsts == UNION {first_eligible_in_class(k) : k \in 0 .. QosClassCount - 1}
      classes == {get_effective_qos_class(c) : c \in firsts}
  IN IF classes = {} THEN -1
     ELSE CHOOSE k \in classes : \A j \in classes : j <= k

get_eligible_entries_in_effective_class(k) ==
  {c \in Eligible : get_effective_qos_class(c) = k}

Candidates ==
  get_eligible_entries_in_effective_class(get_highest_effective_class)

has_issuable_entry ==
  \E k \in 0 .. QosClassCount - 1 : first_eligible_in_class(k) # {}

(* pick: the oldest candidate of the highest effective class.              *)
pick(c) ==
  /\ c \in Candidates
  /\ \A d \in Candidates : admit_order[c] <= admit_order[d]

-----------------------------------------------------------------------------
same_row_word(lhs, rhs) == lhs.word = rhs.word

(* Mutant: merges into any queued write of the same word.                  *)
coalesce_any_target(c) ==
  {p \in queued :
     /\ WriteCoalescingEnable
     /\ c.op = "WR" /\ ~c.excl /\ ~c.pre
     /\ stream_key(p) = stream_key(c)
     /\ ~p.excl /\ ~p.pre
     /\ same_row_word(p, c)}

(* The newest pending entry of the stream, if it may absorb the write c.   *)
coalesce_target(c) ==
  {p \in queued :
     /\ WriteCoalescingEnable
     /\ c.op = "WR" /\ ~c.excl /\ ~c.pre
     /\ stream_key(p) = stream_key(c)
     /\ \A q \in queued \cup inflight :
          stream_key(q) = stream_key(c) => admit_order[q] <= admit_order[p]
     /\ ~p.excl /\ ~p.pre
     /\ same_row_word(p, c)}

(* Mutant: lanes the older write already filled are kept.                  *)
overlay_write_keep_old(dst, src) ==
  [b \in Byte |-> IF dst[b] # NoByte THEN dst[b] ELSE src[b]]

overlay_write(dst, src) ==
  [b \in Byte |-> IF src[b] # NoByte THEN src[b] ELSE dst[b]]

try_coalesce_write(c) ==
  \E p \in coalesce_target(c) :
    /\ merged_writes' = [merged_writes EXCEPT ![p] = @ \cup {c}]
    /\ wdata' = [wdata EXCEPT ![p] = overlay_write(@, wdata[c])]
    /\ UNCHANGED <<queueVars, inflightVars, orderVars>>

admit(c) ==
  /\ admit_order' = [admit_order EXCEPT ![c] = next_admit_order]
  /\ next_admit_order' = next_admit_order + 1
  /\ waited' = [waited EXCEPT ![c] = 0]
  /\ queued' = queued \cup {c}
  /\ oldest_queued' = LowerTo(oldest_queued, stream_key(c), next_admit_order)
  /\ UNCHANGED <<inflightVars, mergeVars>>

(* One frontend entry enters the queue, merged or admitted.                *)
Accept(c) ==
  /\ arrival[c] = 0
  /\ arrivals' = arrivals + 1
  /\ arrival' = [arrival EXCEPT ![c] = arrivals + 1]
  /\ \/ try_coalesce_write(c)
     \/ coalesce_target(c) = {} /\ admit(c)

(* Mutant: deletes the entry and leaves the cache of its stream alone.     *)
take_entry_no_rebuild(c) ==
  /\ c \in queued
  /\ queued' = queued \ {c}
  /\ UNCHANGED oldest_queued

take_entry(c) ==
  /\ c \in queued
  /\ queued' = queued \ {c}
  /\ oldest_queued' = [oldest_queued EXCEPT ![stream_key(c)] =
                         OldestOrder(queued \ {c}, admit_order, stream_key(c))]

enqueue(c) ==
  /\ tag' = [tag EXCEPT ![c] = next_tag]
  /\ next_tag' = next_tag + 1
  /\ inflight' = inflight \cup {c}
  /\ oldest_inflight' = LowerTo(oldest_inflight, stream_key(c), admit_order[c])

(* A taken entry goes to the device, unless it is pre-resolved: then it    *)
(* completes on the spot without ever being in flight.                     *)
Issue(c) ==
  /\ c \in Candidates
  /\ take_entry(c)
  /\ IF c.pre THEN UNCHANGED inflightVars ELSE enqueue(c)
  /\ UNCHANGED <<orderVars, mergeVars, historyVars>>

(* Mutant: pops the entry and leaves the in-flight cache alone.            *)
complete_by_rsp_no_rebuild(t) ==
  \E c \in inflight :
    /\ tag[c] = t
    /\ inflight' = inflight \ {c}
    /\ UNCHANGED <<oldest_inflight, tag, next_tag, queueVars, orderVars,
                   mergeVars, historyVars>>

complete_by_rsp(t) ==
  \E c \in inflight :
    /\ tag[c] = t
    /\ inflight' = inflight \ {c}
    /\ oldest_inflight' = [oldest_inflight EXCEPT ![stream_key(c)] =
                             OldestOrder(inflight \ {c}, admit_order, stream_key(c))]
    /\ UNCHANGED <<tag, next_tag, queueVars, orderVars, mergeVars, historyVars>>

flush_queue ==
  /\ queued' = {}
  /\ inflight' = {}
  /\ oldest_queued' = [s \in Stream |-> 0]
  /\ oldest_inflight' = [s \in Stream |-> 0]
  /\ UNCHANGED <<tag, next_tag, orderVars, mergeVars, historyVars>>

Age ==
  /\ \E c \in queued : waited[c] < MaxWait
  /\ waited' = [c \in Cmd |-> IF c \in queued /\ waited[c] < MaxWait
                              THEN waited[c] + 1 ELSE waited[c]]
  /\ UNCHANGED <<admit_order, next_admit_order, queueVars, inflightVars,
                 mergeVars, historyVars>>

QueueInit ==
  /\ queued = {} /\ inflight = {}
  /\ tag = [c \in Cmd |-> 0]
  /\ admit_order = [c \in Cmd |-> 0]
  /\ waited = [c \in Cmd |-> 0]
  /\ next_tag = 1 /\ next_admit_order = 1
  /\ oldest_queued = [s \in Stream |-> 0]
  /\ oldest_inflight = [s \in Stream |-> 0]
  /\ merged_writes = [c \in Cmd |-> {}]
  /\ wdata = [c \in Cmd |-> [b \in Byte |-> IF b \in c.strb THEN c ELSE NoByte]]
  /\ arrival = [c \in Cmd |-> 0]
  /\ arrivals = 0

QueueNext ==
  \/ \E c \in Cmd : Accept(c)
  \/ \E c \in Cmd : Issue(c)
  \/ \E t \in 1 .. next_tag - 1 : complete_by_rsp(t)
  \/ flush_queue /\ queued \cup inflight # {}
  \/ Age

(* The run loop of Backend drives the queue only as this allows, so what   *)
(* is proved of every behaviour of the queue holds of the backend.         *)
QueueSpec == QueueInit /\ [][QueueNext]_queueState

-----------------------------------------------------------------------------
(* Every variable stays in its range.                                      *)
TypeOK ==
  /\ queued \subseteq Cmd /\ inflight \subseteq Cmd
  /\ tag \in [Cmd -> Nat] /\ next_tag \in Nat \ {0}
  /\ admit_order \in [Cmd -> Nat] /\ next_admit_order \in Nat \ {0}
  /\ waited \in [Cmd -> 0 .. MaxWait]
  /\ oldest_queued \in [Stream -> Nat] /\ oldest_inflight \in [Stream -> Nat]
  /\ merged_writes \in [Cmd -> SUBSET Cmd]
  /\ wdata \in [Cmd -> [Byte -> Cmd \cup {NoByte}]]
  /\ arrival \in [Cmd -> Nat] /\ arrivals \in Nat

Pending == queued \cup inflight

(* A pending entry together with the writes it absorbed.                   *)
Group(p) == {p} \cup merged_writes[p]

(* The caches that is_stream_blocked trusts always hold what a rescan of   *)
(* the lists and of the in-flight map would find, whatever the order of    *)
(* admissions, merges, out-of-order completions and flushes.               *)
CacheCoherent ==
  \A s \in Stream :
    /\ oldest_queued[s] = OldestOrder(queued, admit_order, s)
    /\ oldest_inflight[s] = OldestOrder(inflight, admit_order, s)

(* The device, which answers in any order, never holds two commands of one *)
(* stream, and the one it holds is older than all that still wait.         *)
StreamSerialised ==
  \A c \in inflight : \A d \in Pending :
    d # c /\ stream_key(d) = stream_key(c) =>
      d \in queued /\ admit_order[c] < admit_order[d]

(* No stream is wedged: as long as one of its commands waits, one of them  *)
(* may be issued or is at the device, and then the scheduler sees it.      *)
NoStreamWedged ==
  \A c \in queued :
    \/ \E d \in inflight : stream_key(d) = stream_key(c)
    \/ /\ \E d \in Eligible : stream_key(d) = stream_key(c)
       /\ Candidates # {}

(* Looking at the head of each class list only, the scheduler still finds  *)
(* the highest class that aging gave to any eligible entry of any class.   *)
TopClassFound ==
  \A c \in Eligible :
    get_effective_qos_class(c) <= get_highest_effective_class

(* Coalescing keeps program order: of all the writes merged into a pending *)
(* one, each byte lane carries the one accepted last.                      *)
NewestByteWins ==
  \A p \in Pending : \A b \in Byte :
    LET writers == {c \in Group(p) : b \in c.strb}
    IN IF writers = {} THEN wdata[p][b] = NoByte
       ELSE /\ wdata[p][b] \in writers
            /\ \A c \in writers : arrival[c] <= arrival[wdata[p][b]]

(* What the queue promises: entries of a stream leave in acceptance order, *)
(* each once, a merged write together with the write that absorbed it.     *)
Service == INSTANCE StreamService WITH
             pending <- UNION {Group(p) : p \in Pending}
ServiceSpec == Service!Spec
=============================================================================
