--------------------------- MODULE BackendProofs ---------------------------
(***************************************************************************)
(* What holds of the backend for every workload, every number of ports and *)
(* refreshes, every scheduler setting and any number of resets: first of   *)
(* the run loop and its agreement with the device, then of the way of a    *)
(* command from its port to its answer, for which the invariant of         *)
(* CmdQueueProofs is carried over to the queue inside the backend and      *)
(* joined with the order of the port FIFOs; then of the arbiter by itself; *)
(* and at the end of the two observers of the testbench, the coverage      *)
(* collector and the scoreboard, for every set of rejected commands.       *)
(***************************************************************************)
EXTENDS BackendSched, FeArbiterFair, Observers, CmdQueueProofs,
        FiniteSetTheorems

(* Tags of refreshes and of commands are told apart by their sign.         *)
RefTags == {k \in Int : k < 0}

(* The part of the queue's state that the run loop depends on: an entry is *)
(* either queued or in flight, and was accepted before.                    *)
EntriesInv ==
  /\ queued \subseteq Cmd /\ inflight \subseteq Cmd
  /\ IsFiniteSet(inflight)
  /\ queued \cap inflight = {}
  /\ arrival \in [Cmd -> Nat] /\ arrivals \in Nat
  /\ \A c \in queued \cup inflight : arrival[c] # 0

(* Each command in flight has a tag of its own, handed out earlier.        *)
TagsInv ==
  /\ tag \in [Cmd -> Nat] /\ next_tag \in Nat \ {0}
  /\ \A c \in inflight : tag[c] \in 1 .. next_tag - 1
  /\ \A c, d \in inflight : tag[c] = tag[d] => c = d

(* A stream without entries has no cached order, so a flush of an empty    *)
(* queue changes nothing.                                                  *)
IsCacheOf(cache, S) ==
  /\ cache = [s \in Stream |-> cache[s]]
  /\ \A s \in Stream : (\A c \in S : stream_key(c) # s) => cache[s] = 0

CachesInv ==
  IsCacheOf(oldest_queued, queued) /\ IsCacheOf(oldest_inflight, inflight)

FifosInv ==
  /\ fe_fifo \in [Port -> Seq(Cmd)]
  /\ ref_fifo \in Seq(RefTags) /\ inflight_ref_by_tag \subseteq RefTags
  /\ ref_ctr \in Nat

(* Outside "high" the controller holds nothing.                            *)
ResetInv ==
  rst # "high" =>
    /\ queued = {} /\ inflight = {}
    /\ ref_fifo = <<>> /\ inflight_ref_by_tag = {}
    /\ \A p \in Port : fe_fifo[p] = <<>>

(* An entry is bypassed only while none has reached the cap.               *)
BypassInv == bypass_count \in [Cmd -> Nat] /\ BypassBounded

(* The inductive invariant.                                                *)
BackendInv ==
  /\ EntriesInv
  /\ TagsInv
  /\ CachesInv
  /\ FifosInv
  /\ ResetInv
  /\ CreditExact
  /\ DeviceAgrees
  /\ BypassInv

-----------------------------------------------------------------------------
LEMMA BackendInit == Init => BackendInv
<1> SUFFICES ASSUME Init PROVE BackendInv OBVIOUS
<1> USE DEF Init, QueueInit, ArbInit
<1>1. EntriesInv BY FS_EmptySet DEF EntriesInv
<1>2. TagsInv BY DEF TagsInv
<1>3. CachesInv BY DEF CachesInv, IsCacheOf
<1>4. FifosInv BY DEF FifosInv
<1>5. ResetInv BY DEF ResetInv
<1>6. CreditExact BY FS_EmptySet, BackendAssumption DEF CreditExact
<1>7. DeviceAgrees BY DEF DeviceAgrees
<1>8. BypassInv BY BackendAssumption DEF BypassInv, BypassBounded
<1> QED BY <1>1, <1>2, <1>3, <1>4, <1>5, <1>6, <1>7, <1>8 DEF BackendInv

(* What a step that leaves the command queue alone preserves.              *)
LEMMA QueueKept ==
  ASSUME BackendInv, UNCHANGED queueState
  PROVE  EntriesInv' /\ TagsInv' /\ CachesInv'
BY DEF BackendInv, queueState, EntriesInv, TagsInv, CachesInv, IsCacheOf

-----------------------------------------------------------------------------
(* Entering the queue.                                                     *)
LEMMA AdmitKeeps ==
  ASSUME BackendInv, NEW p \in Port, RunAdmit(p)
  PROVE  BackendInv' /\ Head(fe_fifo[p]) \in Cmd
<1> DEFINE c == Head(fe_fifo[p])
<1> USE DEF BackendInv
<1>1. p \in Port /\ fe_fifo[p] # <<>>
      /\ fe_fifo' = [fe_fifo EXCEPT ![p] = Tail(@)]
  BY DEF RunAdmit, grant, FirstWaiting, Waiting
<1>2. c \in Cmd /\ Tail(fe_fifo[p]) \in Seq(Cmd)
  BY <1>1 DEF FifosInv
<1> HIDE DEF c
<1>3. /\ arrival[c] = 0
      /\ arrivals' = arrivals + 1
      /\ arrival' = [arrival EXCEPT ![c] = arrivals + 1]
      /\ inflight' = inflight /\ tag' = tag /\ next_tag' = next_tag
      /\ oldest_inflight' = oldest_inflight
      /\ \/ queued' = queued /\ oldest_queued' = oldest_queued
         \/ /\ queued' = queued \cup {c}
            /\ oldest_queued' = LowerTo(oldest_queued, stream_key(c),
                                          next_admit_order)
  BY DEF c, RunAdmit, Accept, try_coalesce_write, admit, queueVars,
         inflightVars
<1>4. UNCHANGED <<refVars, rst, dev, inflight_to_device, bypass_count>>
  BY DEF RunAdmit, resetVars
<1>5. rst = "high" BY <1>1 DEF ResetInv
<1>6. EntriesInv' BY <1>2, <1>3 DEF EntriesInv
<1>7. TagsInv' BY <1>3 DEF TagsInv
<1>8. CachesInv' BY <1>2, <1>3 DEF CachesInv, IsCacheOf, LowerTo
<1>9. FifosInv' BY <1>1, <1>2, <1>4 DEF FifosInv, refVars
<1>10. ResetInv' BY <1>4, <1>5 DEF ResetInv
<1>11. CreditExact' BY <1>3, <1>4 DEF CreditExact
<1>12. DeviceAgrees' BY <1>3, <1>4 DEF DeviceAgrees, refVars
<1>13. BypassInv' BY <1>4 DEF BypassInv, BypassBounded
<1> QED BY <1>2, <1>6, <1>7, <1>8, <1>9, <1>10, <1>11, <1>12, <1>13 DEF c

-----------------------------------------------------------------------------
(* Leaving it.                                                             *)
LEMMA CandidateQueued ==
  ASSUME NEW c \in Candidates
  PROVE  c \in queued
BY DEF Candidates, get_eligible_entries_in_effective_class, Eligible

(* A rescan that finds no entry of the stream finds no order.              *)
LEMMA NoOrder ==
  ASSUME NEW S, NEW order, NEW s, \A c \in S : stream_key(c) # s
  PROVE  OldestOrder(S, order, s) = 0
BY DEF OldestOrder

(* Forced or free, a pick bypasses nobody who reached the cap.             *)
LEMMA PickInv ==
  ASSUME BackendInv, NEW c \in queued, pick_next_entry(c)
  PROVE  BypassInv'
<1> USE DEF BackendInv, BypassInv, BypassBounded
<1>1. CASE UNCHANGED bypass_count BY <1>1
<1>2. CASE Starved = {} /\ Bypass(c)
  <2>1. \A d \in Candidates : d \in Cmd /\ d \in queued
    BY CandidateQueued DEF EntriesInv
  <2>2. FrFcfsStarvationCap > 0 =>
          \A d \in Candidates : bypass_count[d] < FrFcfsStarvationCap
    BY <1>2, <2>1, BackendAssumption DEF Starved
  <2>3. \A d \in Cmd : bypass_count'[d] =
          IF FrFcfsStarvationCap > 0
             /\ d \in {e \in Candidates : admit_order[e] < admit_order[c]}
          THEN bypass_count[d] + 1 ELSE bypass_count[d]
    BY <1>2 DEF Bypass
  <2>4. bypass_count' \in [Cmd -> Nat] BY <1>2 DEF Bypass
  <2>5. ASSUME FrFcfsStarvationCap > 0, NEW d \in Cmd
        PROVE  bypass_count'[d] <= FrFcfsStarvationCap
    BY <2>2, <2>3, <2>5, BackendAssumption
  <2> QED BY <2>4, <2>5
<1> QED BY <1>1, <1>2 DEF pick_next_entry, pick_next_entry_fr_fcfs

LEMMA IssueKeeps ==
  ASSUME BackendInv, NEW c \in queued, RunIssue(c)
  PROVE  BackendInv'
<1> USE DEF BackendInv
<1>1. /\ c \in Cmd /\ c \notin inflight
      /\ queued' = queued \ {c}
      /\ oldest_queued' = [oldest_queued EXCEPT ![stream_key(c)] =
            OldestOrder(queued \ {c}, admit_order, stream_key(c))]
      /\ arrival' = arrival /\ arrivals' = arrivals
  BY DEF EntriesInv, RunIssue, Issue, take_entry, historyVars
<1>2. UNCHANGED <<arbVars, refVars, rst>>
  BY DEF RunIssue, resetVars
<1>3. rst = "high" BY DEF ResetInv
<1>4. IsCacheOf(oldest_queued', queued')
  BY <1>1, NoOrder DEF CachesInv, IsCacheOf
<1>5. FifosInv' BY <1>2 DEF FifosInv, arbVars, refVars
<1>6. ResetInv' BY <1>2, <1>3 DEF ResetInv
<1>7. BypassInv' BY PickInv DEF RunIssue
<1>8. CASE c.pre
  <2>1. /\ inflight' = inflight /\ oldest_inflight' = oldest_inflight
        /\ tag' = tag /\ next_tag' = next_tag
        /\ UNCHANGED <<inflight_to_device, dev>>
    BY <1>8 DEF RunIssue, Issue, inflightVars
  <2>2. EntriesInv' BY <1>1, <2>1 DEF EntriesInv
  <2>3. TagsInv' BY <2>1 DEF TagsInv
  <2>4. CachesInv' BY <1>4, <2>1 DEF CachesInv, IsCacheOf
  <2>5. CreditExact' BY <2>1 DEF CreditExact
  <2>6. DeviceAgrees' BY <1>2, <2>1 DEF DeviceAgrees, refVars
  <2> QED BY <1>5, <1>6, <1>7, <2>2, <2>3, <2>4, <2>5, <2>6
<1>9. CASE ~c.pre
  <2>1. /\ tag' = [tag EXCEPT ![c] = next_tag] /\ next_tag' = next_tag + 1
        /\ inflight' = inflight \cup {c}
        /\ oldest_inflight' = LowerTo(oldest_inflight, stream_key(c),
                                        admit_order[c])
        /\ inflight_to_device' = inflight_to_device + 1
        /\ dev' = dev \cup {next_tag}
        /\ device_has_issue_credit
    BY <1>9 DEF RunIssue, Issue, enqueue
  <2>2. EntriesInv' BY <1>1, <2>1, FS_AddElement DEF EntriesInv
  <2>3. TagsInv'
    <3>1. tag' \in [Cmd -> Nat] /\ next_tag' \in Nat \ {0}
      BY <1>1, <2>1 DEF TagsInv
    <3>2. tag'[c] = next_tag /\ \A d \in inflight : tag'[d] = tag[d]
      BY <1>1, <2>1 DEF TagsInv, EntriesInv
    <3>3. \A d \in inflight : tag[d] \in Nat /\ 1 <= tag[d] /\ tag[d] < next_tag
      BY DEF TagsInv, EntriesInv
    <3>4. \A d \in inflight' : tag'[d] \in 1 .. next_tag' - 1
      BY <2>1, <3>2, <3>3 DEF TagsInv
    <3>5. \A d, e \in inflight' : tag'[d] = tag'[e] => d = e
      BY <2>1, <3>2, <3>3 DEF TagsInv
    <3> QED BY <3>1, <3>4, <3>5 DEF TagsInv
  <2>4. IsCacheOf(oldest_inflight', inflight')
    BY <1>1, <2>1 DEF CachesInv, IsCacheOf, LowerTo
  <2>5. CachesInv' BY <1>4, <2>4 DEF CachesInv, IsCacheOf
  <2>6. CreditExact'
    <3>1. Cardinality(inflight') = Cardinality(inflight) + 1
          /\ Cardinality(inflight) \in Nat
      BY <1>1, <2>1, FS_AddElement, FS_CardinalityType DEF EntriesInv
    <3> QED BY <2>1, <3>1, BackendAssumption
            DEF CreditExact, device_has_issue_credit
  <2>7. DeviceAgrees'
    <3>1. {tag'[d] : d \in inflight'} = {tag[d] : d \in inflight} \cup {next_tag}
      BY <1>1, <2>1 DEF TagsInv, EntriesInv
    <3> QED BY <1>2, <2>1, <3>1 DEF DeviceAgrees, refVars
  <2> QED BY <1>5, <1>6, <1>7, <2>2, <2>3, <2>5, <2>6, <2>7
<1> QED BY <1>8, <1>9

-----------------------------------------------------------------------------
(* The device answers.                                                     *)
LEMMA RespondKeeps ==
  ASSUME BackendInv, NEW t \in dev, Respond(t)
  PROVE  /\ BackendInv'
         /\ \/ UNCHANGED queueState
            \/ t \in 1 .. next_tag - 1 /\ complete_by_rsp(t)
<1> USE DEF BackendInv
<1>1. /\ dev' = dev \ {t} /\ complete_rsp(t)
      /\ UNCHANGED <<arbVars, rst, ref_fifo, ref_ctr, bypass_count>>
  BY DEF Respond, resetVars
<1>2. /\ inflight_ref_by_tag' \subseteq inflight_ref_by_tag
      /\ queued' = queued /\ inflight' \subseteq inflight
  BY <1>1 DEF complete_rsp, complete_by_rsp, queueVars, queueState
<1>3. FifosInv' BY <1>1, <1>2 DEF FifosInv, arbVars
<1>4. ResetInv' BY <1>1, <1>2 DEF ResetInv, arbVars
<1>5. BypassInv' BY <1>1 DEF BypassInv, BypassBounded
<1>6. \A c \in inflight : tag[c] \in Nat /\ 1 <= tag[c] /\ tag[c] \notin RefTags
  BY DEF TagsInv, EntriesInv, RefTags
<1>7. CASE UNCHANGED <<queueState, inflight_to_device>>
  <2>1. CreditExact' BY <1>7 DEF CreditExact, queueState
  <2>2. rst # "draining" =>
          /\ t \in inflight_ref_by_tag
          /\ inflight_ref_by_tag' = inflight_ref_by_tag \ {t}
    BY <1>1, <1>7 DEF complete_rsp, DeviceAgrees, complete_by_rsp, queueState
  <2>3. \A c \in inflight : t \in inflight_ref_by_tag => tag[c] # t
    BY <1>6 DEF FifosInv
  <2>4. DeviceAgrees'
    BY <1>1, <1>7, <2>2, <2>3 DEF DeviceAgrees, queueState
  <2>5. UNCHANGED queueState BY <1>7
  <2>6. EntriesInv' /\ TagsInv' /\ CachesInv' BY <2>5, QueueKept
  <2>7. BackendInv' BY <1>3, <1>4, <1>5, <2>1, <2>4, <2>6
  <2> QED BY <2>5, <2>7
<1>8. CASE /\ complete_by_rsp(t)
           /\ inflight_ref_by_tag' = inflight_ref_by_tag
           /\ inflight_to_device' = IF inflight_to_device > 0
                                    THEN inflight_to_device - 1 ELSE 0
           /\ t \notin inflight_ref_by_tag
  <2>1. PICK c \in inflight :
          /\ tag[c] = t
          /\ inflight' = inflight \ {c}
          /\ oldest_inflight' = [oldest_inflight EXCEPT ![stream_key(c)] =
                OldestOrder(inflight \ {c}, admit_order, stream_key(c))]
          /\ UNCHANGED <<tag, next_tag, queued, oldest_queued, arrival, arrivals>>
    BY <1>8 DEF complete_by_rsp, queueVars, historyVars
  <2>2. EntriesInv' BY <2>1, FS_RemoveElement DEF EntriesInv
  <2>3. TagsInv' BY <2>1 DEF TagsInv
  <2>4. CachesInv' BY <2>1, NoOrder DEF CachesInv, IsCacheOf
  <2>5. CreditExact'
    <3>1. Cardinality(inflight') = Cardinality(inflight) - 1
          /\ Cardinality(inflight) \in Nat /\ Cardinality(inflight') \in Nat
      BY <2>1, <2>2, FS_RemoveElement, FS_CardinalityType DEF EntriesInv
    <3> QED BY <1>8, <3>1, BackendAssumption DEF CreditExact
  <2>6. DeviceAgrees'
    <3>1. {tag'[d] : d \in inflight'} = {tag[d] : d \in inflight} \ {t}
      BY <2>1 DEF TagsInv
    <3> QED BY <1>1, <1>8, <3>1 DEF DeviceAgrees
  <2>7. t \in 1 .. next_tag - 1 BY <2>1 DEF TagsInv
  <2> QED BY <1>3, <1>4, <1>5, <1>8, <2>2, <2>3, <2>4, <2>5, <2>6, <2>7
<1> QED BY <1>1, <1>7, <1>8 DEF complete_rsp

-----------------------------------------------------------------------------
(* Refreshes, submissions, resets, and what touches none of them.          *)
LEMMA RefreshKeeps ==
  ASSUME BackendInv, RunRefresh
  PROVE  BackendInv'
<1> USE DEF BackendInv
<1>1. /\ ref_fifo # <<>> /\ ref_fifo' = Tail(ref_fifo)
      /\ inflight_ref_by_tag' = inflight_ref_by_tag \cup {Head(ref_fifo)}
      /\ dev' = dev \cup {Head(ref_fifo)}
      /\ UNCHANGED <<queueState, arbVars, rst, ref_ctr, inflight_to_device,
                     bypass_count>>
  BY DEF RunRefresh, resetVars
<1>2. UNCHANGED queueState BY <1>1
<1>3. EntriesInv' /\ TagsInv' /\ CachesInv' BY <1>2, QueueKept
<1>4. FifosInv' BY <1>1 DEF FifosInv, arbVars
<1>5. ResetInv' BY <1>1 DEF ResetInv
<1>6. CreditExact' BY <1>1 DEF CreditExact, queueState
<1>7. DeviceAgrees' BY <1>1 DEF DeviceAgrees, queueState
<1>8. BypassInv' BY <1>1 DEF BypassInv, BypassBounded
<1> QED BY <1>3, <1>4, <1>5, <1>6, <1>7, <1>8

LEMMA AssertResetKeeps ==
  ASSUME BackendInv, AssertReset
  PROVE  /\ BackendInv'
         /\ \/ flush_queue /\ queued \cup inflight # {}
            \/ UNCHANGED queueState
<1> USE DEF BackendInv
<1>1. /\ flush_queue
      /\ fe_fifo' = [p \in Port |-> <<>>]
      /\ ref_fifo' = <<>> /\ inflight_ref_by_tag' = {} /\ ref_ctr' = 0
      /\ inflight_to_device' = 0 /\ rst' = "draining"
      /\ UNCHANGED bypass_count
  BY DEF AssertReset, flush, flush_fe
<1>2. /\ queued' = {} /\ inflight' = {}
      /\ oldest_queued' = [s \in Stream |-> 0]
      /\ oldest_inflight' = [s \in Stream |-> 0]
      /\ UNCHANGED <<tag, next_tag, arrival, arrivals>>
  BY <1>1 DEF flush_queue, historyVars
<1>3. EntriesInv' BY <1>2, FS_EmptySet DEF EntriesInv
<1>4. TagsInv' BY <1>2 DEF TagsInv
<1>5. CachesInv' BY <1>2 DEF CachesInv, IsCacheOf
<1>6. FifosInv' BY <1>1 DEF FifosInv
<1>7. ResetInv' BY <1>1, <1>2 DEF ResetInv
<1>8. CreditExact' BY <1>1, <1>2, FS_EmptySet, BackendAssumption DEF CreditExact
<1>9. DeviceAgrees' BY <1>1 DEF DeviceAgrees
<1>10. BypassInv' BY <1>1 DEF BypassInv, BypassBounded
<1>11. CASE queued \cup inflight = {}
  <2>1. oldest_queued' = oldest_queued /\ oldest_inflight' = oldest_inflight
    BY <1>2, <1>11 DEF CachesInv, IsCacheOf
  <2>2. UNCHANGED queueState
    BY <1>1, <1>2, <1>11, <2>1
       DEF flush_queue, queueState, queueVars, inflightVars, orderVars,
           mergeVars, historyVars
  <2> QED BY <1>3, <1>4, <1>5, <1>6, <1>7, <1>8, <1>9, <1>10, <2>2
<1>12. CASE queued \cup inflight # {}
  BY <1>1, <1>3, <1>4, <1>5, <1>6, <1>7, <1>8, <1>9, <1>10, <1>12
<1> QED BY <1>11, <1>12

LEMMA SubmitKeeps ==
  ASSUME BackendInv, NEW c \in Cmd, Submit(c)
  PROVE  BackendInv'
<1> USE DEF BackendInv
<1>1. /\ rst = "high"
      /\ fe_fifo' = [fe_fifo EXCEPT ![c.port] = Append(@, c)]
      /\ UNCHANGED <<queueState, refVars, rst, inflight_to_device,
                     bypass_count, dev>>
  BY DEF Submit, submit, resetVars
<1>2. UNCHANGED queueState BY <1>1
<1>3. EntriesInv' /\ TagsInv' /\ CachesInv' BY <1>2, QueueKept
<1>4. FifosInv'
  <2>1. c.port \in Port BY BackendAssumption DEF Port
  <2> QED BY <1>1, <2>1 DEF FifosInv, refVars
<1>5. ResetInv' BY <1>1 DEF ResetInv
<1>6. CreditExact' BY <1>1 DEF CreditExact, queueState
<1>7. DeviceAgrees' BY <1>1 DEF DeviceAgrees, queueState, refVars
<1>8. BypassInv' BY <1>1 DEF BypassInv, BypassBounded
<1> QED BY <1>3, <1>4, <1>5, <1>6, <1>7, <1>8

LEMMA EmitKeeps ==
  ASSUME BackendInv, EmitRefresh
  PROVE  BackendInv'
<1> USE DEF BackendInv
<1>1. /\ rst = "high"
      /\ ref_fifo' = Append(ref_fifo, RefTag(ref_ctr)) /\ ref_ctr' = ref_ctr + 1
      /\ UNCHANGED <<queueState, arbVars, rst, inflight_ref_by_tag,
                     inflight_to_device, bypass_count, dev>>
  BY DEF EmitRefresh, resetVars
<1>2. UNCHANGED queueState BY <1>1
<1>3. EntriesInv' /\ TagsInv' /\ CachesInv' BY <1>2, QueueKept
<1>4. FifosInv'
  <2>1. RefTag(ref_ctr) \in RefTags /\ ref_ctr' \in Nat
    BY <1>1 DEF FifosInv, RefTags, RefTag
  <2> QED BY <1>1, <2>1 DEF FifosInv, arbVars
<1>5. ResetInv' BY <1>1 DEF ResetInv
<1>6. CreditExact' BY <1>1 DEF CreditExact, queueState
<1>7. DeviceAgrees' BY <1>1 DEF DeviceAgrees, queueState
<1>8. BypassInv' BY <1>1 DEF BypassInv, BypassBounded
<1> QED BY <1>3, <1>4, <1>5, <1>6, <1>7, <1>8

LEMMA DramResetKeeps ==
  ASSUME BackendInv, DramReset
  PROVE  BackendInv'
<1> USE DEF BackendInv
<1>1. /\ rst = "draining" /\ rst' = "low" /\ dev' = {}
      /\ UNCHANGED <<queueState, arbVars, refVars, inflight_to_device,
                     bypass_count>>
  BY DEF DramReset
<1>2. UNCHANGED queueState BY <1>1
<1>3. EntriesInv' /\ TagsInv' /\ CachesInv' BY <1>2, QueueKept
<1>4. FifosInv' BY <1>1 DEF FifosInv, arbVars, refVars
<1>5. ResetInv' BY <1>1 DEF ResetInv, queueState, arbVars, refVars
<1>6. CreditExact' BY <1>1 DEF CreditExact, queueState
<1>7. DeviceAgrees' BY <1>1 DEF DeviceAgrees, ResetInv, queueState, refVars
<1>8. BypassInv' BY <1>1 DEF BypassInv, BypassBounded
<1> QED BY <1>3, <1>4, <1>5, <1>6, <1>7, <1>8

(* Waking up, going to sleep, time, the bring-up timer, and the end of a   *)
(* reset change nothing the invariant speaks of.                           *)
LEMMA QuietKeeps ==
  ASSUME BackendInv, rst' = rst \/ (rst = "low" /\ rst' = "high"),
         UNCHANGED <<queued, oldest_queued, inflight, oldest_inflight, tag,
                     next_tag, arrival, arrivals, arbVars, refVars,
                     inflight_to_device, bypass_count, dev>>
  PROVE  BackendInv'
<1> USE DEF BackendInv
<1>1. EntriesInv' BY DEF EntriesInv
<1>2. TagsInv' BY DEF TagsInv
<1>3. CachesInv' BY DEF CachesInv, IsCacheOf
<1>4. FifosInv' BY DEF FifosInv, arbVars, refVars
<1>5. ResetInv' BY DEF ResetInv, arbVars, refVars
<1>6. CreditExact' BY DEF CreditExact
<1>7. DeviceAgrees' BY DEF DeviceAgrees, refVars
<1>8. BypassInv' BY DEF BypassInv, BypassBounded
<1> QED BY <1>1, <1>2, <1>3, <1>4, <1>5, <1>6, <1>7, <1>8

-----------------------------------------------------------------------------
(* The invariant is inductive, and what a step does to the queue is a step *)
(* of the queue or nothing.                                                *)
LEMMA BackendStep == BackendInv /\ [Next]_vars => BackendInv' /\ [QueueNext]_queueState
<1> SUFFICES ASSUME BackendInv, [Next]_vars
             PROVE  BackendInv' /\ [QueueNext]_queueState
  OBVIOUS
<1>1. CASE Wake \/ RunNoIssue \/ DeassertReset \/ open_init_gate_after
           \/ UNCHANGED vars
  <2>1. /\ UNCHANGED <<queueState, arbVars, refVars, inflight_to_device,
                        bypass_count, dev>>
        /\ rst' = rst \/ (rst = "low" /\ rst' = "high")
    <3>1. CASE Wake BY <3>1 DEF Wake, resetVars
    <3>2. CASE RunNoIssue BY <3>2 DEF RunNoIssue, resetVars
    <3>3. CASE DeassertReset BY <3>3 DEF DeassertReset
    <3>4. CASE open_init_gate_after BY <3>4 DEF open_init_gate_after
    <3>5. CASE UNCHANGED vars BY <3>5 DEF vars, resetVars
    <3> QED BY <1>1, <3>1, <3>2, <3>3, <3>4, <3>5
  <2>2. UNCHANGED queueState BY <2>1
  <2>3. BackendInv' BY <2>1, QuietKeeps DEF queueState
  <2> QED BY <2>2, <2>3
<1>2. CASE RunRefresh
  BY <1>2, RefreshKeeps DEF RunRefresh
<1>3. ASSUME NEW p \in Port, RunAdmit(p)
      PROVE  BackendInv' /\ [QueueNext]_queueState
  BY <1>3, AdmitKeeps DEF RunAdmit, QueueNext
<1>4. ASSUME NEW c \in queued, RunIssue(c)
      PROVE  BackendInv' /\ [QueueNext]_queueState
  <2>1. c \in Cmd BY DEF BackendInv, EntriesInv
  <2> QED BY <1>4, <2>1, IssueKeeps DEF RunIssue, QueueNext
<1>5. ASSUME NEW c \in Cmd, Submit(c)
      PROVE  BackendInv' /\ [QueueNext]_queueState
  BY <1>5, SubmitKeeps DEF Submit
<1>6. ASSUME NEW t \in dev, Respond(t)
      PROVE  BackendInv' /\ [QueueNext]_queueState
  BY <1>6, RespondKeeps DEF QueueNext
<1>7. CASE EmitRefresh
  BY <1>7, EmitKeeps DEF EmitRefresh
<1>8. CASE Tick
  <2>1. /\ UNCHANGED <<queued, oldest_queued, inflight, oldest_inflight, tag,
                        next_tag, arrival, arrivals, arbVars, refVars,
                        inflight_to_device, bypass_count, dev>>
        /\ rst' = rst
        /\ Age
    BY <1>8 DEF Tick, Age, queueVars, inflightVars, historyVars,
                resetVars
  <2>2. BackendInv' BY <2>1, QuietKeeps
  <2> QED BY <2>1, <2>2 DEF QueueNext
<1>9. CASE AssertReset
  BY <1>9, AssertResetKeeps DEF QueueNext
<1>10. CASE DramReset
  BY <1>10, DramResetKeeps DEF DramReset
<1> QED
  BY <1>1, <1>2, <1>3, <1>4, <1>5, <1>6, <1>7, <1>8, <1>9, <1>10
     DEF Next, Drain

LEMMA BackendInvariance == Spec => []BackendInv
<1>1. BackendInv /\ [Next]_vars => BackendInv' BY BackendStep
<1> QED BY BackendInit, <1>1, PTL DEF Spec

-----------------------------------------------------------------------------
(* vip_mc_backend drives vip_mc_cmd_queue only as the queue's own          *)
(* specification allows, resets included; so what CmdQueueProofs shows of  *)
(* every behaviour of the queue holds of the queue inside the backend.     *)
THEOREM QueueDriven == Spec => QueueSpec
<1>1. Init => QueueInit BY DEF Init
<1>2. BackendInv /\ [Next]_vars => [QueueNext]_queueState BY BackendStep
<1> QED BY <1>1, <1>2, BackendInvariance, PTL DEF Spec, QueueSpec

(* The credit counter of the backend is the number of commands in flight   *)
(* and stays within max_inflight_to_device.                                *)
THEOREM CreditsExact == Spec => []CreditExact
BY BackendInvariance, PTL DEF BackendInv

(* Once dram.reset() has returned, what the device still owes is exactly   *)
(* what the backend waits for, by tag.                                     *)
THEOREM DeviceInStep == Spec => []DeviceAgrees
BY BackendInvariance, PTL DEF BackendInv

(* FR-FCFS bypasses no entry more often than the starvation cap.           *)
THEOREM BypassesBounded == Spec => []BypassBounded
<1>1. BackendInv => BypassBounded BY DEF BackendInv, BypassInv
<1> QED BY <1>1, BackendInvariance, PTL

-----------------------------------------------------------------------------
(* The bounds of the FR-FCFS scheduler, for every limit and every choice   *)
(* the device's readiness may suggest.                                     *)
Grouping == FrFcfsEnable /\ RdWrGroupingEnable /\ RdWrGroupingMax > 0

(* A waiting entry was turned away at most as often as the present run of  *)
(* the other direction is long.  Without the second part the limit is not  *)
(* inductive: it is the run length, not the entry, that the code counts.   *)
TurnInv ==
  /\ turned_away \in [Cmd -> Nat] /\ same_dir_run_len \in Nat
  /\ \A c \in Cmd : arrival[c] = 0 => turned_away[c] = 0
  /\ Grouping =>
       \A c \in queued :
         /\ turned_away[c] <= RdWrGroupingMax
         /\ turned_away[c] > 0 =>
              /\ last_issued_dir \in {"RD", "WR"} \ {c.op}
              /\ turned_away[c] <= same_dir_run_len

LEMMA TwoDirections == \A c \in Cmd : c.op \in {"RD", "WR"}
BY CmdAssumption DEF Entry

LEMMA TurnInit == SchedInit => TurnInv
BY DEF SchedInit, Init, QueueInit, TurnInv

(* A free pick turns an entry away only while the run may still grow.      *)
LEMMA FreePick ==
  ASSUME BackendInv, TurnInv, Grouping, Starved = {}, NEW c \in queued,
         pick_next_entry(c), NEW d \in Candidates, c.op # d.op,
         turned_away[d] > 0
  PROVE  same_dir_run_len < RdWrGroupingMax /\ last_issued_dir = c.op
<1>1. c \in ReadyFirst
  BY DEF pick_next_entry, pick_next_entry_fr_fcfs, Grouping
<1>2. c \in Cmd /\ d \in Cmd /\ d \in queued
  BY CandidateQueued DEF BackendInv, EntriesInv
<1>3. c.op \in {"RD", "WR"} /\ d.op \in {"RD", "WR"} BY <1>2, TwoDirections
<1>4. last_issued_dir \in {"RD", "WR"} \ {d.op} BY <1>2 DEF TurnInv
<1>5. last_issued_dir = c.op BY <1>3, <1>4
<1>6. ASSUME same_dir_run_len >= RdWrGroupingMax PROVE FALSE
  <2>1. PreferredDir = d.op BY <1>3, <1>4, <1>5, <1>6 DEF PreferredDir, Grouping
  <2>2. c.op = PreferredDir BY <1>1, <1>4, <2>1 DEF ReadyFirst, Grouping
  <2> QED BY <2>1, <2>2
<1> QED BY <1>5, <1>6, BackendAssumption DEF TurnInv

LEMMA TurnIssue ==
  ASSUME BackendInv, TurnInv, NEW c \in queued, RunIssue(c), TurnAway
  PROVE  TurnInv'
<1>1. /\ c \in Cmd /\ queued \subseteq Cmd
      /\ queued' = queued \ {c} /\ arrival' = arrival
      /\ Picked = {c}
      /\ arrival \in [Cmd -> Nat] /\ arrival[c] # 0
  BY DEF BackendInv, EntriesInv, RunIssue, AtPick, Issue, take_entry,
         historyVars, Picked
<1>2. CASE c.pre
  <2>1. turned_away' = turned_away
    BY <1>1, <1>2 DEF TurnAway, TurnInv
  <2>2. UNCHANGED <<last_issued_dir, same_dir_run_len>>
    BY <1>2 DEF RunIssue, dirVars
  <2> QED BY <1>1, <2>1, <2>2 DEF TurnInv
<1>3. CASE ~c.pre
  <2>1. \A d \in Cmd : turned_away'[d] =
          IF c.op = d.op THEN 0
          ELSE IF d \in Candidates /\ Starved = {} THEN turned_away[d] + 1
          ELSE turned_away[d]
    BY <1>1, <1>3 DEF TurnAway
  <2>2. turned_away' \in [Cmd -> Nat]
    BY <1>1, <1>3 DEF TurnAway, TurnInv
  <2>3. /\ last_issued_dir' = c.op
        /\ same_dir_run_len' = IF last_issued_dir \notin {"none", c.op}
                               THEN 1 ELSE same_dir_run_len + 1
    BY <1>3 DEF RunIssue, issue_one
  <2>4. \A d \in Cmd : arrival'[d] = 0 => turned_away'[d] = 0
    BY <1>1, <2>1, CandidateQueued DEF TurnInv, BackendInv, EntriesInv
  <2>5. ASSUME Grouping, NEW d \in queued, d # c
        PROVE  /\ turned_away'[d] <= RdWrGroupingMax
               /\ turned_away'[d] > 0 =>
                    /\ last_issued_dir' \in {"RD", "WR"} \ {d.op}
                    /\ turned_away'[d] <= same_dir_run_len'
    <3>1. /\ d \in Cmd /\ turned_away[d] \in Nat
          /\ turned_away[d] <= RdWrGroupingMax
          /\ same_dir_run_len \in Nat
          /\ c.op \in {"RD", "WR"} /\ d.op \in {"RD", "WR"}
          /\ RdWrGroupingMax \in Nat /\ RdWrGroupingMax > 0
      BY <1>1, <2>5, TwoDirections, BackendAssumption DEF TurnInv, Grouping
    <3>2. turned_away[d] > 0 =>
            /\ last_issued_dir \in {"RD", "WR"} \ {d.op}
            /\ turned_away[d] <= same_dir_run_len
      BY <2>5 DEF TurnInv
    <3>3. CASE c.op = d.op BY <2>1, <3>1, <3>3
    <3>4. CASE c.op # d.op /\ d \in Candidates /\ Starved = {}
      <4>1. turned_away'[d] = turned_away[d] + 1 BY <2>1, <3>1, <3>4
      <4>2. CASE turned_away[d] = 0
        BY <2>3, <3>1, <3>4, <4>1, <4>2
      <4>3. CASE turned_away[d] > 0
        <5>1. same_dir_run_len < RdWrGroupingMax /\ last_issued_dir = c.op
          BY <2>5, <3>4, <4>3, FreePick DEF RunIssue
        <5> QED BY <2>3, <3>1, <3>2, <3>4, <4>1, <4>3, <5>1
      <4> QED BY <3>1, <4>2, <4>3
    <3>5. CASE c.op # d.op /\ ~(d \in Candidates /\ Starved = {})
      <4>1. turned_away'[d] = turned_away[d] BY <2>1, <3>1, <3>5
      <4> QED BY <2>3, <3>1, <3>2, <3>5, <4>1
    <3> QED BY <3>3, <3>4, <3>5
  <2>6. same_dir_run_len' \in Nat BY <2>3 DEF TurnInv
  <2> QED BY <1>1, <2>2, <2>4, <2>5, <2>6 DEF TurnInv, Grouping
<1> QED BY <1>2, <1>3

(* No other step takes an entry out of the queue to issue it.              *)
LEMMA TurnOther ==
  ASSUME BackendInv, TurnInv, turned_away' = turned_away,
         \A c \in Cmd : arrival'[c] = 0 => arrival[c] = 0,
         \A c \in queued' : c \in queued \/ (c \in Cmd /\ arrival[c] = 0),
         \/ UNCHANGED dirVars
         \/ queued' = {} /\ same_dir_run_len' = 0
  PROVE  TurnInv'
BY BackendAssumption DEF TurnInv, dirVars, Grouping

LEMMA NothingPicked ==
  ASSUME TurnInv, TurnAway, Picked = {}
  PROVE  turned_away' = turned_away
BY DEF TurnInv, TurnAway

LEMMA TurnStep == BackendInv /\ TurnInv /\ [SchedNext]_schedVars => TurnInv'
<1> SUFFICES ASSUME BackendInv, TurnInv, [SchedNext]_schedVars PROVE TurnInv'
  OBVIOUS
<1>1. CASE UNCHANGED schedVars
  BY <1>1 DEF schedVars, vars, queueState, dirVars, TurnInv
<1>2. CASE SchedNext
  <2> USE <1>2 DEF SchedNext
  <2>1. TurnAway OBVIOUS
  <2>2. ASSUME UNCHANGED <<queueState, dirVars>> PROVE TurnInv'
    <3>1. /\ UNCHANGED <<queued, arrival>> /\ UNCHANGED dirVars
      BY <2>2 DEF queueState
    <3>2. turned_away' = turned_away
      BY <2>1, <3>1, NothingPicked DEF Picked
    <3> QED BY <3>1, <3>2, TurnOther
  <2>3. CASE Wake BY <2>2, <2>3 DEF Wake
  <2>4. CASE RunRefresh BY <2>2, <2>4 DEF RunRefresh
  <2>5. ASSUME NEW p \in Port, RunAdmit(p) PROVE TurnInv'
    <3> DEFINE c == Head(fe_fifo[p])
    <3>1. c \in Cmd BY <2>5, AdmitKeeps
    <3> HIDE DEF c
    <3>2. /\ arrival[c] = 0
          /\ arrival' = [arrival EXCEPT ![c] = arrivals + 1]
          /\ queued' = queued \/ queued' = queued \cup {c}
          /\ UNCHANGED dirVars
      BY <2>5 DEF c, RunAdmit, Accept, try_coalesce_write, admit,
                  queueVars
    <3>3. turned_away' = turned_away
      BY <2>1, <3>2, NothingPicked DEF Picked
    <3>4. \A d \in Cmd : arrival'[d] = 0 => arrival[d] = 0
      BY <3>1, <3>2 DEF BackendInv, EntriesInv
    <3> QED BY <3>1, <3>2, <3>3, <3>4, TurnOther
  <2>6. ASSUME NEW c \in queued, RunIssue(c) PROVE TurnInv'
    BY <2>1, <2>6, TurnIssue
  <2>7. CASE RunNoIssue BY <2>2, <2>7 DEF RunNoIssue
  <2>8. ASSUME NEW c \in Cmd, Submit(c) PROVE TurnInv'
    BY <2>2, <2>8 DEF Submit
  <2>9. ASSUME NEW t \in dev, Respond(t) PROVE TurnInv'
    <3>1. UNCHANGED <<queued, arrival>> /\ UNCHANGED dirVars
      BY <2>9 DEF Respond, complete_rsp, queueState, complete_by_rsp,
                  queueVars, historyVars
    <3>2. turned_away' = turned_away
      BY <2>1, <3>1, NothingPicked DEF Picked
    <3> QED BY <3>1, <3>2, TurnOther
  <2>10. CASE EmitRefresh BY <2>2, <2>10 DEF EmitRefresh
  <2>11. CASE Tick
    <3>1. UNCHANGED <<queued, arrival>> /\ UNCHANGED dirVars
      BY <2>11 DEF Tick, Age, queueVars, historyVars
    <3>2. turned_away' = turned_away
      BY <2>1, <3>1, NothingPicked DEF Picked
    <3> QED BY <3>1, <3>2, TurnOther
  <2>12. CASE AssertReset
    <3>1. queued' = {} /\ same_dir_run_len' = 0 /\ arrival' = arrival
      BY <2>12 DEF AssertReset, flush, flush_queue, historyVars
    <3>2. turned_away' = turned_away
      BY <2>1, <2>12, NothingPicked DEF Picked, AssertReset
    <3> QED BY <3>1, <3>2, TurnOther
  <2>13. CASE DramReset BY <2>2, <2>13 DEF DramReset
  <2>14. CASE DeassertReset BY <2>2, <2>14 DEF DeassertReset
  <2>15. CASE open_init_gate_after
    BY <2>2, <2>15 DEF open_init_gate_after
  <2> QED
    BY <2>3, <2>4, <2>5, <2>6, <2>7, <2>8, <2>9, <2>10, <2>11, <2>12, <2>13,
       <2>14, <2>15 DEF Next, Drain
<1> QED BY <1>1, <1>2

-----------------------------------------------------------------------------
(* FR-FCFS with grouping keeps both of its promises to a waiting command:  *)
(* the starvation cap on bypasses, and the length of a run of the other    *)
(* direction, whatever the device declares ready and whatever is forced.   *)
THEOREM SchedulerKeepsBounds == SchedSpec => []SchedulerBounded
<1>1. SchedInit => BackendInv BY BackendInit DEF SchedInit
<1>2. BackendInv /\ [SchedNext]_schedVars => BackendInv'
  BY BackendStep DEF SchedNext, schedVars
<1>3. BackendInv /\ TurnInv => SchedulerBounded
  BY DEF BackendInv, BypassInv, SchedulerBounded, DirectionTurns, TurnInv, Grouping
<1> QED BY <1>1, <1>2, <1>3, TurnInit, TurnStep, PTL DEF SchedSpec

-----------------------------------------------------------------------------
(* Submissions are numbered in the order in which they happen.             *)
RanksFresh ==
  /\ submit_rank \in [Cmd -> Nat] /\ submits \in Nat
  /\ \A c \in Cmd : submit_rank[c] <= submits

(* A port FIFO holds commands of its port, in the order of submission,     *)
(* that the queue has not accepted.                                        *)
FifosOrdered ==
  /\ fe_fifo \in [Port -> Seq(Cmd)]
  /\ \A p \in Port : \A i \in DOMAIN fe_fifo[p] :
       /\ fe_fifo[p][i].port = p
       /\ submit_rank[fe_fifo[p][i]] # 0 /\ arrival[fe_fifo[p][i]] = 0
       /\ \A j \in DOMAIN fe_fifo[p] : i < j =>
            submit_rank[fe_fifo[p][i]] < submit_rank[fe_fifo[p][j]]

(* Of one port, the queue accepted commands in the order of submission,    *)
(* and all of them before those that are still in the FIFO.                *)
AcceptedInOrder ==
  \A c \in Cmd : arrival[c] # 0 =>
    /\ submit_rank[c] # 0
    /\ \A d \in Cmd :
         c.port = d.port /\ arrival[d] # 0 /\ arrival[c] < arrival[d] =>
           submit_rank[c] < submit_rank[d]
    /\ \A i \in DOMAIN fe_fifo[c.port] :
         submit_rank[c] < submit_rank[fe_fifo[c.port][i]]

(* What was answered was accepted before and is not pending any more.      *)
AnswersFinal ==
  /\ served \subseteq Cmd
  /\ \A c \in served : arrival[c] # 0 /\ c \notin allPending

TagsDistinct ==
  /\ \A c \in inflight : tag[c] < next_tag
  /\ \A c, d \in inflight : tag[c] = tag[d] => c = d

CreditBounded ==
  /\ inflight_to_device \in Nat
  /\ MaxInflightToDevice > 0 => inflight_to_device <= MaxInflightToDevice

(* The inductive invariant of the backend.                                 *)
PortInv ==
  /\ IInv /\ AgesOrdered
  /\ RanksFresh
  /\ FifosOrdered
  /\ AcceptedInOrder
  /\ AnswersFinal
  /\ TagsDistinct
  /\ CreditBounded

LEMMA OutstandingParts == Outstanding = Buffered \cup allPending
BY DEF Outstanding, allPending

LEMMA OutstandingPartsNext == (Outstanding = Buffered \cup allPending)'
BY OutstandingParts, PTL

LEMMA SameKeys ==
  ASSUME NEW c, NEW d, stream_key(c) = stream_key(d) PROVE c.port = d.port
BY DEF stream_key

LEMMA PendingArrived ==
  ASSUME IInv, NEW c \in allPending
  PROVE  c \in Cmd /\ arrival[c] # 0
<1>1. PICK p \in Pending : c \in Group(p) BY DEF allPending
<1>2. c \in Cmd /\ p \in Cmd BY <1>1 DEF Group, IInv, TypeOK, Pending
<1>3. arrival[p] # 0 /\ arrival[p] <= arrival[c]
  BY <1>1 DEF IInv, GroupsOrdered
<1>4. arrival[p] \in Nat /\ arrival[c] \in Nat BY <1>2 DEF IInv, TypeOK
<1> QED BY <1>2, <1>3, <1>4

LEMMA TailFacts ==
  ASSUME NEW s \in Seq(Cmd), s # <<>>
  PROVE  /\ Head(s) \in Cmd /\ Head(s) = s[1] /\ 1 \in DOMAIN s
         /\ Tail(s) \in Seq(Cmd)
         /\ \A i \in DOMAIN Tail(s) :
              i \in Nat \ {0} /\ i + 1 \in DOMAIN s /\ Tail(s)[i] = s[i + 1]
         /\ \A i \in DOMAIN s :
              i # 1 => i - 1 \in DOMAIN Tail(s) /\ Tail(s)[i - 1] = s[i]
OBVIOUS

LEMMA AppendFacts ==
  ASSUME NEW s \in Seq(Cmd), NEW c \in Cmd
  PROVE  /\ Append(s, c) \in Seq(Cmd)
         /\ DOMAIN s \subseteq Nat
         /\ \A i \in DOMAIN s : i \in DOMAIN Append(s, c) /\ Append(s, c)[i] = s[i]
         /\ \A i \in DOMAIN Append(s, c) :
              \/ i \in DOMAIN s /\ Append(s, c)[i] = s[i] /\ i < Len(s) + 1
              \/ i = Len(s) + 1 /\ Append(s, c)[i] = c
         /\ Len(s) + 1 \in DOMAIN Append(s, c) /\ Len(s) \in Nat
         /\ Append(s, c)[Len(s) + 1] = c
         /\ \A i \in DOMAIN s : i < Len(s) + 1
OBVIOUS

-----------------------------------------------------------------------------
LEMMA PortInit ==
  ASSUME Init
  PROVE  PortInv
<1>0. MaxInflightToDevice \in Int BY BackendAssumption
<1>1. QueueInit BY DEF Init
<1>2. IInv /\ AgesOrdered BY <1>1, InitInv, AgesInit
<1>3. /\ fe_fifo = [p \in Port |-> <<>>]
      /\ submit_rank = [c \in Cmd |-> 0] /\ submits = 0
      /\ served = {} /\ inflight_to_device = 0
  BY DEF Init, ArbInit, Port
<1>4. inflight = {} /\ arrival = [c \in Cmd |-> 0] BY <1>1 DEF QueueInit
<1>5. RanksFresh BY <1>3 DEF RanksFresh
<1>6. FifosOrdered BY <1>3 DEF FifosOrdered
<1>7. AcceptedInOrder BY <1>4 DEF AcceptedInOrder
<1>8. AnswersFinal /\ TagsDistinct BY <1>3, <1>4 DEF AnswersFinal, TagsDistinct
<1>9. CreditBounded BY <1>0, <1>3 DEF CreditBounded
<1> QED BY <1>2, <1>5, <1>6, <1>7, <1>8, <1>9 DEF PortInv

(* Steps that leave FIFOs, groups, tags and answers alone.                 *)
Undisturbed ==
  /\ Age \/ UNCHANGED queueState
  /\ UNCHANGED <<fe_fifo, submit_rank, submits, served, inflight_to_device>>

LEMMA QuietInv ==
  ASSUME PortInv, Undisturbed
  PROVE  PortInv' /\ UNCHANGED allPending
<1> USE DEF PortInv
<1>1. IInv' /\ AgesOrdered'
  BY TickInv, StutterInv, AgesStep DEF Undisturbed, QueueNext
<1>2. /\ UNCHANGED <<queued, inflight, merged_writes, arrival, tag, next_tag>>
      /\ UNCHANGED <<fe_fifo, submit_rank, submits, served, inflight_to_device>>
  BY DEF Undisturbed, Age, queueState, queueVars, inflightVars, mergeVars, historyVars
<1>3. UNCHANGED allPending BY <1>2 DEF allPending, Pending, Group
<1>4. RanksFresh' BY <1>2 DEF RanksFresh
<1>5. FifosOrdered' BY <1>2 DEF FifosOrdered
<1>6. AcceptedInOrder' BY <1>2 DEF AcceptedInOrder
<1>7. AnswersFinal' BY <1>2, <1>3 DEF AnswersFinal
<1>8. TagsDistinct' /\ CreditBounded' BY <1>2 DEF TagsDistinct, CreditBounded
<1> QED BY <1>1, <1>3, <1>4, <1>5, <1>6, <1>7, <1>8

LEMMA SubmitInv ==
  ASSUME PortInv, NEW c \in Cmd, c.port \in Port, Submit(c)
  PROVE  /\ PortInv' /\ UNCHANGED <<allPending, served>>
         /\ Buffered' = Buffered \cup {c}
<1> DEFINE p == c.port
<1> USE DEF PortInv
<1>1. /\ UNCHANGED queueState
      /\ UNCHANGED <<served, inflight_to_device>>
  BY DEF Submit, queueState, queueVars, inflightVars, orderVars,
         mergeVars, historyVars
<1>2. UNCHANGED <<queued, inflight, merged_writes, arrival, tag, next_tag>>
  BY <1>1 DEF queueState, queueVars, inflightVars, mergeVars, historyVars
<1>3. /\ submit_rank[c] = 0
      /\ submits' = submits + 1
      /\ submit_rank' = [submit_rank EXCEPT ![c] = submits + 1]
      /\ fe_fifo' = [fe_fifo EXCEPT ![p] = Append(@, c)]
  BY DEF Submit, submit
<1>4. IInv' /\ AgesOrdered' BY <1>1, StutterInv, AgesStep
<1>5. UNCHANGED allPending BY <1>2 DEF allPending, Pending, Group
<1>6. /\ fe_fifo[p] \in Seq(Cmd) /\ fe_fifo'[p] = Append(fe_fifo[p], c)
      /\ \A q \in Port : q # p => fe_fifo'[q] = fe_fifo[q]
      /\ fe_fifo' \in [Port -> Seq(Cmd)]
  <2>1. fe_fifo[p] \in Seq(Cmd) BY DEF FifosOrdered
  <2>2. Append(fe_fifo[p], c) \in Seq(Cmd) BY <2>1, AppendFacts
  <2> QED BY <2>1, <2>2, <1>3 DEF FifosOrdered
<1>7. /\ submit_rank'[c] = submits + 1 /\ submits \in Nat
      /\ \A d \in Cmd : d # c => submit_rank'[d] = submit_rank[d]
      /\ \A d \in Cmd : submit_rank[d] \in Nat /\ submit_rank[d] <= submits
  BY <1>3 DEF RanksFresh
<1>8. RanksFresh' BY <1>3, <1>7 DEF RanksFresh
<1>9. arrival[c] = 0 BY <1>3 DEF AcceptedInOrder
<1>10. FifosOrdered'
  <2>1. ASSUME NEW q \in Port, NEW i \in DOMAIN fe_fifo'[q]
        PROVE  \/ /\ i \in DOMAIN fe_fifo[q]
                  /\ fe_fifo'[q][i] = fe_fifo[q][i]
                  /\ fe_fifo[q][i] # c /\ fe_fifo[q][i] \in Cmd
               \/ /\ q = p /\ i = Len(fe_fifo[p]) + 1 /\ fe_fifo'[q][i] = c
    <3>1. ASSUME NEW r \in Port, NEW j \in DOMAIN fe_fifo[r]
          PROVE  fe_fifo[r][j] # c /\ fe_fifo[r][j] \in Cmd
      BY <1>3 DEF FifosOrdered
    <3>2. CASE q # p BY <3>1, <3>2, <1>6
    <3>3. CASE q = p BY <3>1, <3>3, <1>6, AppendFacts
    <3> QED BY <3>2, <3>3
  <2>2. ASSUME NEW q \in Port, NEW i \in DOMAIN fe_fifo'[q]
        PROVE  /\ fe_fifo'[q][i].port = q
               /\ submit_rank'[fe_fifo'[q][i]] # 0
               /\ arrival[fe_fifo'[q][i]] = 0
    <3>1. CASE fe_fifo'[q][i] = c
      <4>1. q = p BY <3>1, <2>1
      <4>2. submits + 1 # 0 BY <1>7
      <4> QED BY <3>1, <4>1, <4>2, <1>7, <1>9
    <3>2. CASE fe_fifo'[q][i] # c
      <4>1. /\ i \in DOMAIN fe_fifo[q] /\ fe_fifo'[q][i] = fe_fifo[q][i]
            /\ fe_fifo[q][i] \in Cmd
        BY <3>2, <2>1
      <4> QED BY <3>2, <4>1, <1>7 DEF FifosOrdered
    <3> QED BY <3>1, <3>2
  <2>3. ASSUME NEW q \in Port, NEW i \in DOMAIN fe_fifo'[q],
               NEW j \in DOMAIN fe_fifo'[q], i < j
        PROVE  submit_rank'[fe_fifo'[q][i]] < submit_rank'[fe_fifo'[q][j]]
    <3>1. i \in DOMAIN fe_fifo[q] /\ fe_fifo'[q][i] = fe_fifo[q][i]
          /\ fe_fifo[q][i] # c /\ fe_fifo[q][i] \in Cmd
      <4>1. CASE q # p BY <4>1, <2>1
      <4>2. CASE q = p
        <5>1. i <= Len(fe_fifo[p]) BY <4>2, <2>3, <1>6
        <5> QED BY <4>2, <5>1, <2>1, <1>6, AppendFacts
      <4> QED BY <4>1, <4>2
    <3>2. CASE fe_fifo'[q][j] = c BY <3>1, <3>2, <1>7
    <3>3. CASE fe_fifo'[q][j] # c
      <4>1. /\ j \in DOMAIN fe_fifo[q] /\ fe_fifo'[q][j] = fe_fifo[q][j]
            /\ fe_fifo[q][j] \in Cmd
        BY <3>3, <2>1
      <4> QED BY <3>1, <3>3, <4>1, <2>3, <1>7 DEF FifosOrdered
    <3> QED BY <3>2, <3>3
  <2> QED BY <2>2, <2>3, <1>2, <1>6 DEF FifosOrdered
<1>11. AcceptedInOrder'
  <2> SUFFICES ASSUME NEW d \in Cmd, arrival[d] # 0
               PROVE  /\ submit_rank'[d] # 0
                      /\ \A e \in Cmd :
                           d.port = e.port /\ arrival[e] # 0
                           /\ arrival[d] < arrival[e] =>
                             submit_rank'[d] < submit_rank'[e]
                      /\ \A i \in DOMAIN fe_fifo'[d.port] :
                           submit_rank'[d] < submit_rank'[fe_fifo'[d.port][i]]
    BY <1>2 DEF AcceptedInOrder
  <2>1. d # c /\ submit_rank'[d] = submit_rank[d] /\ submit_rank[d] # 0
    BY <1>7, <1>9 DEF AcceptedInOrder
  <2>2. ASSUME NEW e \in Cmd, d.port = e.port, arrival[e] # 0,
               arrival[d] < arrival[e]
        PROVE  submit_rank'[d] < submit_rank'[e]
    BY <2>1, <2>2, <1>7, <1>9 DEF AcceptedInOrder
  <2>3. ASSUME NEW i \in DOMAIN fe_fifo'[d.port]
        PROVE  submit_rank'[d] < submit_rank'[fe_fifo'[d.port][i]]
    <3>1. CASE d.port # p
      <4>1. fe_fifo'[d.port] = fe_fifo[d.port] BY <3>1, <1>3
      <4>2. submit_rank[d] < submit_rank[fe_fifo[d.port][i]]
        BY <4>1, <2>3 DEF AcceptedInOrder
      <4>3. CASE fe_fifo[d.port][i] = c BY <4>3, <4>1, <2>1, <1>7
      <4>4. CASE fe_fifo[d.port][i] # c
        BY <4>1, <4>2, <4>4, <2>1, <1>3 DEF RanksFresh
      <4> QED BY <4>3, <4>4
    <3>2. CASE d.port = p
      <4>1. CASE fe_fifo'[p][i] = c BY <3>2, <4>1, <2>1, <1>7
      <4>2. CASE fe_fifo'[p][i] # c
        <5>1. i \in DOMAIN fe_fifo[p] /\ fe_fifo'[p][i] = fe_fifo[p][i]
          BY <3>2, <4>2, <1>6, <2>3, AppendFacts
        <5>2. fe_fifo[p][i] \in Cmd BY <5>1, <1>6
        <5> QED BY <5>1, <5>2, <4>2, <3>2, <2>1, <1>7 DEF AcceptedInOrder
      <4> QED BY <4>1, <4>2
    <3> QED BY <3>1, <3>2
  <2> QED BY <2>1, <2>2, <2>3
<1>12. Buffered' = Buffered \cup {c}
  <2>1. ASSUME NEW d \in Cmd
        PROVE  (\E q \in Port : \E i \in DOMAIN fe_fifo'[q] : fe_fifo'[q][i] = d)
                 <=> d = c \/ (\E q \in Port : \E i \in DOMAIN fe_fifo[q] :
                                 fe_fifo[q][i] = d)
    <3>1. ASSUME NEW q \in Port, NEW i \in DOMAIN fe_fifo'[q],
                 fe_fifo'[q][i] = d, d # c
          PROVE  i \in DOMAIN fe_fifo[q] /\ fe_fifo[q][i] = d
      <4>1. CASE q # p BY <4>1, <3>1, <1>6
      <4>2. CASE q = p BY <4>2, <3>1, <1>6, AppendFacts
      <4> QED BY <4>1, <4>2
    <3>2. ASSUME NEW q \in Port, NEW i \in DOMAIN fe_fifo[q], fe_fifo[q][i] = d
          PROVE  i \in DOMAIN fe_fifo'[q] /\ fe_fifo'[q][i] = d
      <4>1. CASE q # p BY <4>1, <3>2, <1>6
      <4>2. CASE q = p BY <4>2, <3>2, <1>6, AppendFacts
      <4> QED BY <4>1, <4>2
    <3>3. \E i \in DOMAIN fe_fifo'[p] : fe_fifo'[p][i] = c
      BY <1>6, AppendFacts
    <3> QED BY <3>1, <3>2, <3>3
  <2> QED BY <2>1 DEF Buffered
<1>13. AnswersFinal' /\ TagsDistinct' /\ CreditBounded'
  BY <1>1, <1>2, <1>5 DEF AnswersFinal, TagsDistinct, CreditBounded
<1> QED BY <1>1, <1>4, <1>5, <1>8, <1>10, <1>11, <1>12, <1>13

(* The head of a port FIFO enters the queue.                               *)
LEMMA AdmitHeadInv ==
  ASSUME PortInv, NEW p \in Port, RunAdmit(p)
  PROVE  /\ PortInv' /\ UNCHANGED <<submit_rank, submits, served>>
         /\ Buffered' \cup allPending' = Buffered \cup allPending
<1> DEFINE c == Head(fe_fifo[p])
<1> USE DEF PortInv
<1>1. /\ Accept(c) /\ fe_fifo[p] # <<>>
      /\ fe_fifo' = [fe_fifo EXCEPT ![p] = Tail(@)]
      /\ UNCHANGED <<submit_rank, submits, served, inflight_to_device>>
  BY DEF RunAdmit, grant, FirstWaiting, Waiting,
                    submitVars
<1>2. fe_fifo[p] \in Seq(Cmd) BY DEF FifosOrdered
<1>3. /\ c \in Cmd /\ c = fe_fifo[p][1] /\ 1 \in DOMAIN fe_fifo[p]
      /\ Tail(fe_fifo[p]) \in Seq(Cmd)
      /\ \A i \in DOMAIN Tail(fe_fifo[p]) :
           /\ i \in Nat \ {0} /\ i + 1 \in DOMAIN fe_fifo[p]
           /\ Tail(fe_fifo[p])[i] = fe_fifo[p][i + 1]
      /\ \A i \in DOMAIN fe_fifo[p] : i # 1 =>
           /\ i - 1 \in DOMAIN Tail(fe_fifo[p])
           /\ Tail(fe_fifo[p])[i - 1] = fe_fifo[p][i]
  BY <1>1, <1>2, TailFacts
<1>4. /\ arrival[c] = 0 /\ c.port = p /\ submit_rank[c] # 0
      /\ arrivals' = arrivals + 1
      /\ arrival' = [arrival EXCEPT ![c] = arrivals + 1]
  BY <1>1, <1>3 DEF FifosOrdered, Accept
<1>5. /\ arrival'[c] = arrivals + 1 /\ arrivals \in Nat
      /\ \A d \in Cmd : d # c => arrival'[d] = arrival[d]
      /\ \A d \in Cmd : arrival[d] \in Nat /\ arrival[d] <= arrivals
      /\ \A d \in Cmd : submit_rank[d] \in Nat
  BY <1>3, <1>4 DEF IInv, TypeOK, ArrivalsFresh, RanksFresh
<1> HIDE DEF c
<1>6. IInv' /\ AgesOrdered'
  <2>1. QueueNext BY <1>1, <1>3 DEF QueueNext
  <2> QED BY <1>1, <1>3, <2>1, AcceptInv, AgesStep
<1>7. allPending' = allPending \cup {c}
  BY <1>1, <1>3, AcceptRefines DEF Service!Accept, allPending
<1>8. fe_fifo' \in [Port -> Seq(Cmd)] BY <1>1, <1>3 DEF FifosOrdered
(* What is left in the FIFOs, and where it was.                            *)
<1>9. ASSUME NEW q \in Port, NEW i \in DOMAIN fe_fifo'[q]
      PROVE  LET k == IF q = p THEN i + 1 ELSE i
             IN /\ k \in DOMAIN fe_fifo[q] /\ fe_fifo'[q][i] = fe_fifo[q][k]
                /\ i \in Nat /\ fe_fifo[q][k] \in Cmd /\ fe_fifo[q][k] # c
  <2>1. CASE q # p
    <3>1. fe_fifo'[q] = fe_fifo[q] /\ fe_fifo[q] \in Seq(Cmd)
      BY <1>1, <2>1 DEF FifosOrdered
    <3>2. i \in Nat /\ i \in DOMAIN fe_fifo[q] /\ fe_fifo[q][i] \in Cmd
      BY <3>1, <1>9
    <3>3. fe_fifo[q][i].port = q BY <3>2 DEF FifosOrdered
    <3> QED BY <2>1, <3>1, <3>2, <3>3, <1>4
  <2>2. CASE q = p
    <3>1. fe_fifo'[p] = Tail(fe_fifo[p]) BY <1>1 DEF FifosOrdered
    <3>2. i \in Nat \ {0} /\ i + 1 \in DOMAIN fe_fifo[p]
          /\ fe_fifo'[p][i] = fe_fifo[p][i + 1]
      BY <1>3, <1>9, <2>2, <3>1
    <3>3. fe_fifo[p][i + 1] \in Cmd BY <3>2, <1>2
    <3>4. submit_rank[fe_fifo[p][1]] < submit_rank[fe_fifo[p][i + 1]]
      BY <3>2, <1>3 DEF FifosOrdered
    <3>5. fe_fifo[p][i + 1] # c
      <4>1. submit_rank[c] \in Nat BY <1>3, <1>5
      <4> QED BY <3>4, <1>3, <4>1
    <3> QED BY <2>2, <3>2, <3>3, <3>5
  <2> QED BY <2>1, <2>2
<1>10. FifosOrdered'
  <2>1. ASSUME NEW q \in Port, NEW i \in DOMAIN fe_fifo'[q]
        PROVE  /\ fe_fifo'[q][i].port = q
               /\ submit_rank[fe_fifo'[q][i]] # 0
               /\ arrival'[fe_fifo'[q][i]] = 0
    <3> DEFINE k == IF q = p THEN i + 1 ELSE i
    <3>1. /\ k \in DOMAIN fe_fifo[q] /\ fe_fifo'[q][i] = fe_fifo[q][k]
          /\ fe_fifo[q][k] \in Cmd /\ fe_fifo[q][k] # c
      BY <1>9
    <3> HIDE DEF k
    <3>2. /\ fe_fifo[q][k].port = q /\ submit_rank[fe_fifo[q][k]] # 0
          /\ arrival[fe_fifo[q][k]] = 0
      BY <3>1 DEF FifosOrdered
    <3>3. arrival'[fe_fifo[q][k]] = arrival[fe_fifo[q][k]] BY <3>1, <1>5
    <3> QED BY <3>1, <3>2, <3>3
  <2>2. ASSUME NEW q \in Port, NEW i \in DOMAIN fe_fifo'[q],
               NEW j \in DOMAIN fe_fifo'[q], i < j
        PROVE  submit_rank[fe_fifo'[q][i]] < submit_rank[fe_fifo'[q][j]]
    <3> DEFINE k == IF q = p THEN i + 1 ELSE i
               l == IF q = p THEN j + 1 ELSE j
    <3>1. k \in DOMAIN fe_fifo[q] /\ fe_fifo'[q][i] = fe_fifo[q][k] /\ i \in Nat
      BY <1>9
    <3>2. l \in DOMAIN fe_fifo[q] /\ fe_fifo'[q][j] = fe_fifo[q][l] /\ j \in Nat
      BY <1>9
    <3>3. k < l BY <2>2, <3>1, <3>2
    <3> HIDE DEF k, l
    <3> QED BY <3>1, <3>2, <3>3 DEF FifosOrdered
  <2> QED BY <1>1, <1>8, <2>1, <2>2 DEF FifosOrdered
<1>11. AcceptedInOrder'
  <2> SUFFICES ASSUME NEW d \in Cmd, arrival'[d] # 0
               PROVE  /\ submit_rank[d] # 0
                      /\ \A e \in Cmd :
                           d.port = e.port /\ arrival'[e] # 0
                           /\ arrival'[d] < arrival'[e] =>
                             submit_rank[d] < submit_rank[e]
                      /\ \A i \in DOMAIN fe_fifo'[d.port] :
                           submit_rank[d] < submit_rank[fe_fifo'[d.port][i]]
    BY <1>1 DEF AcceptedInOrder
  <2>1. submit_rank[d] # 0 BY <1>4, <1>5 DEF AcceptedInOrder
  <2>2. ASSUME NEW e \in Cmd, d.port = e.port, arrival'[e] # 0,
               arrival'[d] < arrival'[e]
        PROVE  submit_rank[d] < submit_rank[e]
    <3>1. d # c
      <4> SUFFICES ASSUME d = c PROVE FALSE OBVIOUS
      <4>1. CASE e = c BY <4>1, <1>5, <2>2
      <4>2. CASE e # c BY <4>2, <1>5, <2>2
      <4> QED BY <4>1, <4>2
    <3>2. CASE e # c BY <3>1, <3>2, <2>2, <1>5 DEF AcceptedInOrder
    <3>3. CASE e = c
      <4>1. arrival[d] # 0 BY <3>1, <1>5
      <4> QED BY <3>3, <4>1, <2>2, <1>3, <1>4 DEF AcceptedInOrder
    <3> QED BY <3>2, <3>3
  <2>3. ASSUME NEW i \in DOMAIN fe_fifo'[d.port]
        PROVE  submit_rank[d] < submit_rank[fe_fifo'[d.port][i]]
    <3>1. CASE d.port \in Port
      <4> DEFINE q == d.port
                 k == IF q = p THEN i + 1 ELSE i
      <4>1. k \in DOMAIN fe_fifo[q] /\ fe_fifo'[q][i] = fe_fifo[q][k] /\ i \in Nat
        BY <1>9, <2>3, <3>1
      <4>2. CASE d # c
        <5>1. arrival[d] # 0 BY <4>2, <1>5
        <5> HIDE DEF k
        <5> QED BY <4>1, <5>1 DEF AcceptedInOrder
      <4>3. CASE d = c
        <5>1. q = p /\ k = i + 1 BY <4>3, <1>4
        <5>2. k \in DOMAIN fe_fifo[p] /\ 1 < k
          <6>1. i # 0
            BY <5>1, <4>1, <1>1, <1>3, <2>3 DEF FifosOrdered
          <6> QED BY <4>1, <5>1, <6>1
        <5> HIDE DEF k
        <5> QED BY <4>1, <4>3, <5>1, <5>2, <1>3 DEF FifosOrdered
      <4> QED BY <4>2, <4>3
    <3>2. CASE d.port \notin Port
      <4>1. d # c BY <3>2, <1>4
      <4>2. fe_fifo'[d.port] = fe_fifo[d.port] BY <3>2, <1>1, <1>4
      <4> QED BY <4>1, <4>2, <2>3, <1>5 DEF AcceptedInOrder
    <3> QED BY <3>1, <3>2
  <2> QED BY <2>1, <2>2, <2>3
<1>12. Buffered = Buffered' \cup {c}
  <2>1. ASSUME NEW d \in Buffered PROVE d \in Buffered' \cup {c}
    <3>0. PICK q \in Port : \E i \in DOMAIN fe_fifo[q] : fe_fifo[q][i] = d
      BY DEF Buffered
    <3>1. PICK i \in DOMAIN fe_fifo[q] : fe_fifo[q][i] = d BY <3>0
    <3>2. CASE q # p
      <4>1. fe_fifo'[q] = fe_fifo[q] BY <3>2, <1>1 DEF FifosOrdered
      <4> QED BY <3>1, <4>1 DEF Buffered
    <3>3. CASE q = p /\ i = 1 BY <3>1, <3>3, <1>3
    <3>4. CASE q = p /\ i # 1
      <4>1. fe_fifo'[p] = Tail(fe_fifo[p]) BY <1>1 DEF FifosOrdered
      <4>2. i - 1 \in DOMAIN fe_fifo'[p] /\ fe_fifo'[p][i - 1] = d
        BY <3>1, <3>4, <4>1, <1>3
      <4> QED BY <4>2 DEF Buffered
    <3> QED BY <3>2, <3>3, <3>4
  <2>2. ASSUME NEW d \in Buffered' PROVE d \in Buffered
    <3>0. PICK q \in Port : \E i \in DOMAIN fe_fifo'[q] : fe_fifo'[q][i] = d
      BY DEF Buffered
    <3>1. PICK i \in DOMAIN fe_fifo'[q] : fe_fifo'[q][i] = d BY <3>0
    <3>2. \E k \in DOMAIN fe_fifo[q] : fe_fifo[q][k] = d BY <3>1, <1>9
    <3> QED BY <3>2 DEF Buffered
  <2>3. c \in Buffered BY <1>3 DEF Buffered
  <2> QED BY <2>1, <2>2, <2>3
<1>13. AnswersFinal'
  <2> SUFFICES ASSUME NEW d \in served
               PROVE  d \in Cmd /\ arrival'[d] # 0 /\ d \notin allPending'
    BY <1>1 DEF AnswersFinal
  <2>1. d \in Cmd /\ arrival[d] # 0 /\ d # c BY <1>4 DEF AnswersFinal
  <2> QED BY <2>1, <1>5, <1>7 DEF AnswersFinal
<1>14. TagsDistinct' /\ CreditBounded'
  <2>1. UNCHANGED <<inflight, tag, next_tag>>
    BY <1>1 DEF Accept, try_coalesce_write, admit, inflightVars
  <2> QED BY <1>1, <2>1 DEF TagsDistinct, CreditBounded
<1>15. RanksFresh' BY <1>1 DEF RanksFresh
<1> QED BY <1>1, <1>6, <1>7, <1>10, <1>11, <1>12, <1>13, <1>14, <1>15

-----------------------------------------------------------------------------
(* S leaves the queue as one served group, or nothing leaves it, while the *)
(* FIFOs and the order of submission and acceptance stay.                  *)
Leaves(S) ==
  /\ UNCHANGED <<fe_fifo, submit_rank, submits, arrival, arrivals>>
  /\ \/ S = {} /\ UNCHANGED allPending
     \/ S \in SUBSET allPending /\ Service!Serve(S)

LEMMA LeavesInv ==
  ASSUME PortInv, IInv', AgesOrdered', TagsDistinct', CreditBounded',
         NEW S, Leaves(S), served' = served \cup S
  PROVE  PortInv'
<1> USE DEF PortInv, Leaves
<1>1. allPending' = allPending \ S /\ S \subseteq allPending
  BY DEF Service!Serve, allPending
<1>2. RanksFresh' BY DEF RanksFresh
<1>3. FifosOrdered' BY DEF FifosOrdered
<1>4. AcceptedInOrder' BY DEF AcceptedInOrder
<1>5. AnswersFinal' BY <1>1, PendingArrived DEF AnswersFinal
<1> QED BY <1>2, <1>3, <1>4, <1>5

(* Seen from the port, what the queue serves is what the port is answered. *)
LEMMA LeavesServes ==
  ASSUME PortInv, NEW S, Leaves(S),
         \A c \in Cmd : c.port \in Port
  PROVE  /\ Outstanding' = Outstanding \ S
         /\ S \subseteq Outstanding /\ S \cap served = {}
         /\ S # {} => PortService!Serve(S)
         /\ S = {} => UNCHANGED PortService!vars
<1> USE DEF PortInv, Leaves
<1>1. /\ S \subseteq allPending /\ allPending' = allPending \ S
      /\ Buffered' = Buffered
  BY DEF Service!Serve, allPending, Buffered
<1>2. ASSUME NEW c \in Buffered
      PROVE  /\ c \in Cmd /\ arrival[c] = 0
             /\ \E i \in DOMAIN fe_fifo[c.port] : fe_fifo[c.port][i] = c
  <2>1. PICK p \in Port : \E i \in DOMAIN fe_fifo[p] : fe_fifo[p][i] = c
    BY DEF Buffered
  <2>2. PICK i \in DOMAIN fe_fifo[p] : fe_fifo[p][i] = c BY <2>1
  <2>3. c.port = p /\ arrival[c] = 0 BY <2>2 DEF FifosOrdered
  <2> QED BY <2>2, <2>3 DEF Buffered
<1>3. Buffered \cap S = {} BY <1>1, <1>2, PendingArrived
<1>4. Outstanding' = Outstanding \ S
  <2>1. Outstanding' = Buffered' \cup allPending'
    BY OutstandingPartsNext
  <2> QED BY <1>1, <1>3, <2>1, OutstandingParts
<1>5. S \subseteq Outstanding /\ S \cap served = {}
  BY <1>1, OutstandingParts DEF AnswersFinal
<1>6. ASSUME S # {} PROVE PortService!Serve(S)
  <2>1. /\ Service!Serve(S)
        /\ \A c, d \in S : stream_key(c) = stream_key(d)
        /\ \A c \in S : \A d \in allPending \ S :
             stream_key(c) = stream_key(d) => arrival[c] < arrival[d]
    BY <1>6 DEF Service!Serve, allPending
  <2>2. ASSUME NEW c \in S, NEW d \in Outstanding \ S,
               stream_key(c) = stream_key(d)
        PROVE  submit_rank[c] < submit_rank[d]
    <3>1. c \in Cmd /\ arrival[c] # 0 /\ c.port = d.port
      BY <1>1, <2>2, PendingArrived, SameKeys
    <3>2. CASE d \in allPending
      <4>1. d \in Cmd /\ arrival[d] # 0 BY <3>2, PendingArrived
      <4>2. arrival[c] < arrival[d] BY <2>1, <2>2, <3>2
      <4> QED BY <3>1, <4>1, <4>2 DEF AcceptedInOrder
    <3>3. CASE d \in Buffered
      <4>1. PICK i \in DOMAIN fe_fifo[d.port] : fe_fifo[d.port][i] = d
        BY <1>2, <3>3
      <4> QED BY <3>1, <4>1 DEF AcceptedInOrder
    <3> QED BY <3>2, <3>3, OutstandingParts
  <2> QED BY <1>4, <1>5, <1>6, <2>1, <2>2 DEF PortService!Serve
<1>7. S = {} => UNCHANGED PortService!vars
  BY <1>4 DEF PortService!vars
<1> QED BY <1>4, <1>5, <1>6, <1>7

(* An issue answers a pre-resolved command with its group, and nothing     *)
(* else.                                                                   *)
LEMMA IssueStep ==
  ASSUME PortInv, NEW c \in queued, RunIssue(c)
  PROVE  /\ PortInv'
         /\ \E S : Leaves(S) /\ served' = served \cup S
<1> USE DEF PortInv
<1> DEFINE S == IF c.pre THEN Group(c) ELSE {}
<1>1. Issue(c) /\ c \in Cmd
  BY DEF RunIssue, IInv, TypeOK
<1>2. IInv' /\ AgesOrdered'
  <2>1. QueueNext BY <1>1 DEF QueueNext
  <2> QED BY <1>1, <2>1, IssueInv, AgesStep
<1>3. Leaves(S)
  <2>1. UNCHANGED <<fe_fifo, submit_rank, submits, arrival, arrivals>>
    BY <1>1 DEF RunIssue, arbVars, submitVars, Issue, historyVars
  <2>2. CASE c.pre BY <1>1, <2>1, <2>2, IssueRefines DEF Leaves
  <2>3. CASE ~c.pre
    <3>1. UNCHANGED allPending
      BY <1>1, <2>3, IssueRefines DEF Service!vars, allPending
    <3> QED BY <2>1, <2>3, <3>1 DEF Leaves
  <2> QED BY <2>2, <2>3
<1>4. served' = served \cup S BY DEF RunIssue
<1>5. TagsDistinct'
  <2>1. /\ tag \in [Cmd -> Nat] /\ next_tag \in Nat /\ inflight \subseteq Cmd
    BY DEF IInv, TypeOK
  <2>2. CASE c.pre BY <1>1, <2>2 DEF Issue, inflightVars, TagsDistinct
  <2>3. CASE ~c.pre
    <3>1. /\ inflight' = inflight \cup {c} /\ next_tag' = next_tag + 1
          /\ tag' = [tag EXCEPT ![c] = next_tag]
      BY <1>1, <2>3 DEF Issue, enqueue
    <3>2. c \notin inflight BY <1>1 DEF Issue, IInv, OrdersFresh
    <3> QED BY <1>1, <2>1, <3>1, <3>2 DEF TagsDistinct
  <2> QED BY <2>2, <2>3
<1>6. CreditBounded'
  BY BackendAssumption DEF RunIssue, device_has_issue_credit, CreditBounded
<1> QED BY <1>2, <1>3, <1>4, <1>5, <1>6, LeavesInv

(* An answer of the device completes the one command that carries its tag, *)
(* with the writes merged into it; a refresh, or a command that a reset    *)
(* forgot, completes nothing.                                              *)
LEMMA RespondStep ==
  ASSUME PortInv, NEW t, Respond(t)
  PROVE  /\ PortInv'
         /\ \E S : Leaves(S) /\ served' = served \cup S
<1> USE DEF PortInv
<1>1. UNCHANGED <<fe_fifo, submit_rank, submits>> /\ complete_rsp(t)
  BY DEF Respond, arbVars, submitVars
<1>2. CASE UNCHANGED <<queueState, inflight_to_device, served>>
  <2>1. Undisturbed
    BY <1>1, <1>2 DEF Undisturbed, queueVars, inflightVars,
       orderVars, mergeVars, historyVars
  <2>2. PortInv' /\ UNCHANGED allPending BY <2>1, QuietInv
  <2>3. Leaves({}) BY <1>1, <1>2, <2>2 DEF Leaves, queueState
  <2>4. served' = served \cup {} BY <1>2
  <2> QED BY <2>2, <2>3, <2>4
<1>3. CASE /\ complete_by_rsp(t)
           /\ inflight_to_device' = IF inflight_to_device > 0
                                    THEN inflight_to_device - 1 ELSE 0
           /\ served' = served \cup
                UNION {Group(c) : c \in {d \in inflight : tag[d] = t}}
  <2>1. complete_by_rsp(t) BY <1>3
  <2>2. PICK c \in inflight :
          /\ tag[c] = t
          /\ Service!Serve(Group(c)) /\ Group(c) \in SUBSET allPending
    BY <2>1, CompleteRefines
  <2>3. {d \in inflight : tag[d] = t} = {c} BY <2>2 DEF TagsDistinct
  <2>4. served' = served \cup Group(c) BY <1>3, <2>3
  <2>5. UNCHANGED <<arrival, arrivals, tag, next_tag>>
    BY <2>1 DEF complete_by_rsp, historyVars
  <2>6. Leaves(Group(c)) BY <1>1, <2>2, <2>5 DEF Leaves
  <2>7. inflight' \subseteq inflight BY <2>1 DEF complete_by_rsp
  <2>8. TagsDistinct' BY <2>5, <2>7 DEF TagsDistinct
  <2>9. CreditBounded' BY <1>3, BackendAssumption DEF CreditBounded
  <2>10. IInv' /\ AgesOrdered'
    BY <2>1, CompleteInv, AgesShrink DEF complete_by_rsp, queueVars
  <2> QED BY <2>4, <2>6, <2>8, <2>9, <2>10, LeavesInv
<1> QED BY <1>1, <1>2, <1>3 DEF complete_rsp

(* A reset drops whatever is outstanding and answers nothing.              *)
LEMMA ResetStep ==
  ASSUME PortInv, AssertReset
  PROVE  /\ PortInv'
         /\ Outstanding' = {} /\ UNCHANGED <<submit_rank, submits, served>>
<1> USE DEF PortInv
<1>1. /\ flush_queue
      /\ fe_fifo' = [p \in Port |-> <<>>]
      /\ inflight_to_device' = 0
      /\ UNCHANGED <<submit_rank, submits, served>>
  BY DEF AssertReset, flush, flush_fe, Port,
                   submitVars
<1>2. IInv' /\ AgesOrdered'
  BY <1>1, FlushInv, AgesShrink DEF flush_queue
<1>3. /\ queued' = {} /\ inflight' = {} /\ UNCHANGED <<arrival, arrivals>>
  BY <1>1 DEF flush_queue, historyVars
<1>4. allPending' = {} BY <1>3 DEF allPending, Pending
<1>5. RanksFresh' BY <1>1 DEF RanksFresh
<1>6. FifosOrdered' BY <1>1 DEF FifosOrdered
<1>7. AcceptedInOrder'
  <2> SUFFICES ASSUME NEW c \in Cmd, arrival[c] # 0,
                      NEW i \in DOMAIN fe_fifo'[c.port]
               PROVE  FALSE
    BY <1>1, <1>3 DEF AcceptedInOrder
  <2>1. c.port \in Port BY BackendAssumption
  <2> QED BY <2>1, <1>1
<1>8. AnswersFinal' BY <1>1, <1>3, <1>4 DEF AnswersFinal
<1>9. TagsDistinct' BY <1>3 DEF TagsDistinct
<1>10. CreditBounded' BY <1>1, BackendAssumption DEF CreditBounded
<1>11. Outstanding' = {}
  <2>1. Outstanding' = Buffered' \cup allPending' BY OutstandingPartsNext
  <2>2. Buffered' = {} BY <1>1 DEF Buffered
  <2> QED BY <1>4, <2>1, <2>2
<1> QED BY <1>1, <1>2, <1>5, <1>6, <1>7, <1>8, <1>9, <1>10, <1>11

(* Every other step of the backend is quiet.                               *)
LEMMA QuietSteps ==
  ASSUME \/ Wake \/ RunRefresh \/ RunNoIssue \/ EmitRefresh \/ Tick
         \/ DramReset \/ DeassertReset \/ open_init_gate_after
         \/ UNCHANGED vars
  PROVE  Undisturbed
<1> USE DEF queueState, arbVars, submitVars, Undisturbed, queueVars,
            inflightVars, orderVars, mergeVars, historyVars
<1>1. CASE Wake BY <1>1 DEF Wake
<1>2. CASE RunRefresh BY <1>2 DEF RunRefresh
<1>3. CASE RunNoIssue BY <1>3 DEF RunNoIssue
<1>4. CASE EmitRefresh BY <1>4 DEF EmitRefresh
<1>5. CASE Tick BY <1>5 DEF Tick
<1>6. CASE DramReset BY <1>6 DEF DramReset
<1>7. CASE DeassertReset BY <1>7 DEF DeassertReset
<1>8. CASE open_init_gate_after BY <1>8 DEF open_init_gate_after
<1>9. CASE UNCHANGED vars BY <1>9 DEF vars
<1> QED BY <1>1, <1>2, <1>3, <1>4, <1>5, <1>6, <1>7, <1>8, <1>9

(* What a step of the backend is to its ports: a submission, an answer of  *)
(* the commands S, a reset, or nothing.                                    *)
PortStep ==
  \/ \E c \in Cmd : /\ PortService!Accept(c)
                    /\ UNCHANGED served
                    /\ rst' = rst
  \/ \E S : /\ \/ S = {} /\ UNCHANGED PortService!vars
               \/ PortService!Serve(S) /\ S \subseteq Outstanding
            /\ Outstanding' = Outstanding \ S
            /\ S \cap served = {} /\ served' = served \cup S
            /\ ~(rst = "high" /\ rst' = "draining")
  \/ /\ PortService!Drop /\ UNCHANGED served
     /\ rst = "high" /\ rst' = "draining"

LEMMA StepFacts ==
  ASSUME PortInv, [Next]_vars
  PROVE  PortInv' /\ PortStep
<1>1. \A c \in Cmd : c.port \in Port BY BackendAssumption
<1>2. ASSUME NEW c \in Cmd, Submit(c) PROVE PortInv' /\ PortStep
  <2>1. /\ PortInv' /\ UNCHANGED <<allPending, served>>
        /\ Buffered' = Buffered \cup {c}
    BY <1>1, <1>2, SubmitInv
  <2>2. Outstanding' = Outstanding \cup {c}
    BY <2>1, OutstandingParts, OutstandingPartsNext
  <2>3. PortService!Accept(c) /\ rst' = rst
    BY <1>2, <2>2 DEF Submit, PortService!Accept, resetVars
  <2> QED BY <2>1, <2>3 DEF PortStep
<1>3. ASSUME Outstanding' = Outstanding,
             UNCHANGED <<submit_rank, submits, served>>,
             ~(rst = "high" /\ rst' = "draining")
      PROVE  PortStep
  <2>1. /\ UNCHANGED PortService!vars
        /\ Outstanding' = Outstanding \ {}
        /\ {} \cap served = {} /\ served' = served \cup {}
    BY <1>3 DEF PortService!vars
  <2> QED BY <1>3, <2>1 DEF PortStep
<1>4. ASSUME NEW p \in Port, RunAdmit(p) PROVE PortInv' /\ PortStep
  <2>1. /\ PortInv' /\ UNCHANGED <<submit_rank, submits, served>>
        /\ Buffered' \cup allPending' = Buffered \cup allPending
    BY <1>4, AdmitHeadInv
  <2>2. rst' = rst BY <1>4 DEF RunAdmit, resetVars
  <2> QED BY <1>3, <2>1, <2>2, OutstandingParts, OutstandingPartsNext
<1>5. ASSUME PortInv', NEW S, Leaves(S), served' = served \cup S, rst' = rst
      PROVE  PortStep
  BY <1>1, <1>5, LeavesServes DEF PortStep
<1>6. ASSUME NEW c \in queued, RunIssue(c) PROVE PortInv' /\ PortStep
  <2>1. rst' = rst BY <1>6 DEF RunIssue, resetVars
  <2> QED BY <1>5, <1>6, <2>1, IssueStep
<1>7. ASSUME NEW t, Respond(t) PROVE PortInv' /\ PortStep
  <2>1. rst' = rst BY <1>7 DEF Respond, resetVars
  <2> QED BY <1>5, <1>7, <2>1, RespondStep
<1>8. CASE AssertReset
  <2>1. rst = "high" /\ rst' = "draining" BY <1>8 DEF AssertReset
  <2> QED BY <1>8, <2>1, ResetStep DEF PortStep, PortService!Drop
<1>9. ASSUME Undisturbed, ~(rst = "high" /\ rst' = "draining")
      PROVE  PortInv' /\ PortStep
  <2>1. PortInv' /\ UNCHANGED allPending BY <1>9, QuietInv
  <2>2. UNCHANGED <<Buffered, submit_rank, submits, served>>
    BY <1>9 DEF Undisturbed, Buffered
  <2> QED BY <1>3, <1>9, <2>1, <2>2, OutstandingParts, OutstandingPartsNext
<1>10. ASSUME \/ Wake \/ RunRefresh \/ RunNoIssue \/ EmitRefresh
              \/ Tick \/ DramReset \/ DeassertReset
              \/ open_init_gate_after \/ UNCHANGED vars
       PROVE  ~(rst = "high" /\ rst' = "draining")
  BY <1>10 DEF Wake, RunRefresh, RunNoIssue, EmitRefresh, Tick,
     DramReset, DeassertReset, open_init_gate_after, vars, resetVars
<1> QED
  BY <1>2, <1>4, <1>6, <1>7, <1>8, <1>9, <1>10, QuietSteps
     DEF Next, Drain, Port

-----------------------------------------------------------------------------
LEMMA PortInvariance == Spec => []PortInv
<1>1. PortInv /\ [Next]_vars => PortInv' BY StepFacts
<1> QED BY PortInit, <1>1, PTL DEF Spec

(* From submission to answer the backend is the abstract service: each     *)
(* stream of a port in order, each command once, through port FIFO,        *)
(* weighted arbiter, queue, scheduler and a device that answers in any     *)
(* order, with a reset at any time.                                        *)
THEOREM PortsServedInOrder == Spec => PortServiceSpec
<1>1. Init => PortService!Init
  <2> SUFFICES ASSUME Init PROVE PortService!Init OBVIOUS
  <2>1. QueueInit BY DEF Init
  <2>2. fe_fifo = [p \in Port |-> <<>>]
    BY DEF Init, ArbInit, Port
  <2>3. Buffered = {} /\ allPending = {}
    BY <2>1, <2>2 DEF QueueInit, Buffered, allPending, Pending
  <2> QED BY <2>3, OutstandingParts DEF Init, PortService!Init
<1>2. PortInv /\ [Next]_vars
        => [PortService!Next]_(PortService!vars)
  <2> SUFFICES ASSUME PortInv, [Next]_vars
               PROVE  [PortService!Next]_(PortService!vars)
    OBVIOUS
  <2> QED BY StepFacts DEF PortStep, PortService!Next
<1> QED BY <1>1, <1>2, PortInvariance, PTL
        DEF Spec, PortServiceSpec, PortService!Spec

(* A command stops being owed an answer exactly when its port is handed    *)
(* one, or at a reset, and no command is answered twice.                   *)
THEOREM AnsweredExactlyOnce == Spec => AnsweredOnce
<1>1. PortInv /\ [Next]_vars =>
        [IF rst = "high" /\ rst' = "draining"
         THEN served' = served
         ELSE /\ served \subseteq served'
              /\ served' \ served = Outstanding \ Outstanding']_vars
  <2> SUFFICES ASSUME PortInv, [Next]_vars
               PROVE  IF rst = "high" /\ rst' = "draining"
                      THEN served' = served
                      ELSE /\ served \subseteq served'
                           /\ served' \ served = Outstanding \ Outstanding'
    OBVIOUS
  <2>1. PortStep BY StepFacts
  <2> QED BY <2>1 DEF PortStep, PortService!Accept, PortService!Drop
<1> QED BY <1>1, PortInvariance, PTL DEF Spec, AnsweredOnce

(* A stream whose command waits is either at the device or has an entry    *)
(* that can be issued; so a queue without candidates is held by the device.*)
LEMMA HeldByDevice ==
  ASSUME PortInv, Candidates = {}, NEW c \in queued
  PROVE  \E d \in inflight : /\ stream_key(d) = stream_key(c)
                             /\ admit_order[d] < admit_order[c]
<1> USE DEF PortInv
<1>1. Eligible = {} BY CandidatesExist
<1>2. PICK d \in inflight : stream_key(d) = stream_key(c) BY <1>1, HeadEligible
<1>3. c # d /\ c \in Pending BY DEF IInv, OrdersFresh, Pending
<1> QED BY <1>2, <1>3 DEF IInv, StreamSerialised

(* With nothing to refresh, to admit and to issue, the reason of the       *)
(* status probe is the one that holds the loop.                            *)
LEMMA ReasonHolds ==
  ASSUME PortInv, ~CanIssue, ref_fifo = <<>>, Waiting = {}
  PROVE  \/ /\ get_status_stall_reason = "SAME_STREAM_BLOCKED"
            /\ queued # {}
            /\ \A c \in queued : \E d \in inflight :
                 /\ stream_key(d) = stream_key(c)
                 /\ admit_order[d] < admit_order[c]
         \/ /\ get_status_stall_reason = "DEVICE_CREDIT_FULL"
            /\ inflight_to_device = MaxInflightToDevice
         \/ /\ get_status_stall_reason = "NO_BUFFERED_INPUT"
            /\ queued \cup Buffered = {}
<1>1. CASE ~device_has_issue_credit
  <2>1. inflight_to_device = MaxInflightToDevice
    BY <1>1, BackendAssumption DEF device_has_issue_credit, PortInv,
                                   CreditBounded
  <2> QED BY <1>1, <2>1 DEF get_status_stall_reason
<1>2. CASE device_has_issue_credit
  <2>1. Candidates = {} BY <1>2 DEF CanIssue
  <2>2. ~has_issuable_entry
    <3>1. Eligible = {} BY <2>1, CandidatesExist DEF PortInv
    <3>2. \A k : first_eligible_in_class(k) = {}
      BY <3>1 DEF first_eligible_in_class
    <3> QED BY <3>2 DEF has_issuable_entry
  <2>3. CASE queued # {}
    <3>1. get_status_stall_reason = "SAME_STREAM_BLOCKED"
      BY <1>2, <2>2, <2>3 DEF get_status_stall_reason
    <3> QED BY <2>1, <2>3, <3>1, HeldByDevice
  <2>4. CASE queued = {}
    <3>1. get_status_stall_reason = "NO_BUFFERED_INPUT"
      BY <1>2, <2>2, <2>4 DEF get_status_stall_reason
    <3>2. Buffered = {}
      <4>1. \A p \in Port : fe_fifo[p] = <<>> BY DEF Waiting
      <4> QED BY <4>1 DEF Buffered
    <3> QED BY <2>4, <3>1, <3>2
  <2> QED BY <2>3, <2>4
<1> QED BY <1>1, <1>2

LEMMA StallReasonStays ==
  ASSUME UNCHANGED <<queueState, ref_fifo, fe_fifo, inflight_to_device>>
  PROVE  get_status_stall_reason' = get_status_stall_reason
<1> USE DEF queueState
<1>1. Eligible' = Eligible
  BY DEF Eligible, is_stream_blocked, stream_key
<1>2. \A k : first_eligible_in_class(k)' = first_eligible_in_class(k)
  BY <1>1 DEF first_eligible_in_class, clamp_qos_class
<1>3. has_issuable_entry' = has_issuable_entry
  BY <1>2 DEF has_issuable_entry
<1>4. Waiting' = Waiting BY DEF Waiting, Port
<1>5. device_has_issue_credit' = device_has_issue_credit
  BY DEF device_has_issue_credit
<1> QED BY <1>3, <1>4, <1>5 DEF get_status_stall_reason

(* When the run loop goes to sleep, the stall reason that the status probe *)
(* shows is the one that holds it.                                         *)
THEOREM StallReasonsTrue == Spec => StallExplained
<1>1. ASSUME PortInv, [Next]_vars, turn # "wait", turn' = "wait"
      PROVE  SleepExplained
  <2>1. RunNoIssue
    BY <1>1 DEF Next, Drain, Wake, RunRefresh, RunAdmit, RunIssue,
       Submit, Respond, EmitRefresh, Tick, AssertReset, DramReset,
       DeassertReset, open_init_gate_after, vars
  <2>2. /\ ~CanIssue /\ ref_fifo = <<>> /\ Waiting = {}
        /\ UNCHANGED <<queueState, ref_fifo, fe_fifo, inflight_to_device>>
    BY <1>1, <2>1 DEF RunNoIssue, NothingToRefresh, arbVars, refVars
  <2>3. /\ get_status_stall_reason' = get_status_stall_reason
        /\ UNCHANGED <<queued, inflight, admit_order, inflight_to_device>>
        /\ Buffered' = Buffered
    BY <2>2, StallReasonStays DEF queueState, Buffered, Port
  <2> QED BY <1>1, <2>2, <2>3, ReasonHolds DEF SleepExplained
<1>2. PortInv /\ [Next]_vars => SleepExplained
  BY <1>1 DEF SleepExplained
<1> QED BY <1>2, PortInvariance, PTL DEF Spec, StallExplained

(* What CmdQueueProofs shows of the queue by itself holds of the queue in  *)
(* the backend.                                                            *)
THEOREM QueueInsideBackend ==
  Spec => [](/\ CacheCoherent /\ StreamSerialised /\ NewestByteWins
             /\ TopClassFound /\ NoStreamWedged)
<1>1. PortInv => /\ CacheCoherent /\ StreamSerialised /\ NewestByteWins
                 /\ TopClassFound /\ NoStreamWedged
  BY SchedulingFacts DEF PortInv, IInv
<1> QED BY <1>1, PortInvariance, PTL

-----------------------------------------------------------------------------
(***************************************************************************)
(* The arbiter by itself.  The weighted round-robin is fair: however the   *)
(* ports fill up and run empty, and whichever of them is skipped, no port  *)
(* waits through more grants of another than that port's weight.           *)
(***************************************************************************)

(* What the arbiter keeps: the pointer names a port, and the grants left   *)
(* are at most that port's weight.                                         *)
ArbTypeOK ==
  /\ fe_fifo \in [Port -> Seq(Item)]
  /\ next_fe_port_rr \in Port
  /\ current_fe_port_grants_left \in Nat
  /\ current_fe_port_grants_left <= get_port_weight(next_fe_port_rr)
  /\ grants_seen \in [Port -> [Port -> Nat]]

(* q has had its whole turn since p began to wait: the pointer left it and *)
(* reaches p first.                                                        *)
TurnOver(p, q) ==
  /\ Offset(p) < Offset(q)
  /\ grants_seen[p][q] <= get_port_weight(q)

(* q is in its turn: the grants p saw and those left fit in the weight.    *)
InTurn(p, q) ==
  /\ q = next_fe_port_rr
  /\ 0 < current_fe_port_grants_left
  /\ grants_seen[p][q] + current_fe_port_grants_left <= get_port_weight(q)

(* Only a waiting port is overtaken, by another, within one turn.          *)
OneTurn ==
  \A p, q \in Port :
    0 < grants_seen[p][q] =>
      p # q /\ p \in Waiting /\ (TurnOver(p, q) \/ InTurn(p, q))

TurnsInv == ArbTypeOK /\ OneTurn

(***************************************************************************)
(* Arithmetic of the scan                                                  *)
(***************************************************************************)

LEMMA ModOfPort ==
  ASSUME NEW n \in Nat \ {0}, NEW x \in 0 .. n - 1
  PROVE  x % n = x
  OBVIOUS

LEMMA ModOfNegative ==
  ASSUME NEW n \in Nat \ {0}, NEW x \in 1 .. n - 1
  PROVE  (x - n) % n = x
  OBVIOUS

(* The offset of a port is its distance from the pointer, upwards and      *)
(* round.                                                                  *)
LEMMA ScanOffset ==
  ASSUME next_fe_port_rr \in Port, NEW p \in Port
  PROVE  Offset(p) = IF next_fe_port_rr <= p THEN p - next_fe_port_rr
                     ELSE p - next_fe_port_rr + NPorts
<1>1. NPorts \in Nat \ {0} /\ next_fe_port_rr \in Int /\ p \in Int
  BY ArbAssumption DEF Port
<1>2. CASE next_fe_port_rr <= p
  <2>1. p - next_fe_port_rr \in 0 .. NPorts - 1 BY <1>1, <1>2 DEF Port
  <2> QED BY <1>1, <1>2, <2>1, ModOfPort DEF Offset
<1>3. CASE ~(next_fe_port_rr <= p)
  <2> DEFINE x == p - next_fe_port_rr + NPorts
  <2>1. x \in 1 .. NPorts - 1 BY <1>1, <1>3 DEF Port
  <2>2. (x - NPorts) % NPorts = x BY <1>1, <2>1, ModOfNegative
  <2>3. x - NPorts = p - next_fe_port_rr BY <1>1
  <2> QED BY <1>3, <2>2, <2>3 DEF Offset
<1> QED BY <1>2, <1>3

LEMMA WeightPositive ==
  ASSUME NEW p \in Port
  PROVE  get_port_weight(p) \in Nat \ {0}
  BY ArbAssumption DEF get_port_weight

(* The pointer after a grant of p: p itself while grants are left, else    *)
(* the next port.                                                          *)
LEMMA PointerAfterGrant ==
  ASSUME ArbTypeOK, NEW p \in Port, update_fe_rr_after_grant(p)
  PROVE  LET left == IF p # next_fe_port_rr \/ current_fe_port_grants_left <= 0
                     THEN get_port_weight(p) ELSE current_fe_port_grants_left
         IN /\ left \in Nat \ {0}
            /\ left <= get_port_weight(p)
            /\ current_fe_port_grants_left' = left - 1
            /\ next_fe_port_rr' \in Port
            /\ next_fe_port_rr' = IF left = 1
                 THEN IF p + 1 = NPorts THEN 0 ELSE p + 1 ELSE p
<1> DEFINE left == IF p # next_fe_port_rr \/ current_fe_port_grants_left <= 0
                   THEN get_port_weight(p) ELSE current_fe_port_grants_left
<1>1. NPorts \in Nat \ {0} /\ p \in 0 .. NPorts - 1 /\ Port = 0 .. NPorts - 1
  BY ArbAssumption DEF Port
<1>2. left \in Nat \ {0} /\ left <= get_port_weight(p)
  BY WeightPositive DEF ArbTypeOK
<1>3. /\ current_fe_port_grants_left' = left - 1
      /\ next_fe_port_rr' = IF left - 1 <= 0 THEN (p + 1) % NPorts ELSE p
  BY DEF update_fe_rr_after_grant
<1> HIDE DEF left
<1>4. (p + 1) % NPorts = IF p + 1 = NPorts THEN 0 ELSE p + 1
  <2>1. CASE p + 1 = NPorts BY <1>1, <2>1
  <2>2. CASE p + 1 # NPorts
    <3>1. p + 1 \in 0 .. NPorts - 1 BY <1>1, <2>2
    <3> QED BY <1>1, <2>2, <3>1, ModOfPort
  <2> QED BY <2>1, <2>2
<1>5. next_fe_port_rr' = IF left = 1
        THEN IF p + 1 = NPorts THEN 0 ELSE p + 1 ELSE p
  BY <1>2, <1>3, <1>4
<1>6. next_fe_port_rr' \in Port BY <1>1, <1>5
<1> QED BY <1>2, <1>3, <1>5, <1>6 DEF left

(***************************************************************************)
(* The steps                                                               *)
(***************************************************************************)

LEMMA TurnsInit == ASSUME ArbiterInit PROVE TurnsInv
<1>1. NPorts \in Nat \ {0} /\ 0 \in Port BY ArbAssumption DEF Port
<1>2. get_port_weight(0) \in Nat BY <1>1, WeightPositive
<1> QED BY <1>1, <1>2 DEF ArbiterInit, ArbInit, NoneOvertaken, TurnsInv, ArbTypeOK, OneTurn

(* Only a port that is not waiting can begin to wait.                      *)
LEMMA SubmitTurns ==
  ASSUME TurnsInv, NEW p \in Port, PortSubmit(p)
  PROVE  TurnsInv'
<1>1. PICK x \in Item : submit(p, x) BY DEF PortSubmit
<1>2. /\ fe_fifo' = [fe_fifo EXCEPT ![p] = Append(@, x)]
      /\ UNCHANGED <<next_fe_port_rr, current_fe_port_grants_left, grants_seen>>
  BY <1>1 DEF submit, PortSubmit
<1>3. fe_fifo \in [Port -> Seq(Item)] BY DEF TurnsInv, ArbTypeOK
<1>4. fe_fifo' \in [Port -> Seq(Item)] BY <1>2, <1>3
<1>5. ArbTypeOK' BY <1>2, <1>4 DEF TurnsInv, ArbTypeOK, get_port_weight
<1>6. Waiting \subseteq Waiting'
  <2>1. Append(fe_fifo[p], x) # <<>> BY <1>3
  <2> QED BY <1>2, <1>3, <2>1 DEF Waiting
<1>7. OneTurn'
  BY <1>2, <1>6 DEF TurnsInv, OneTurn, TurnOver, InTurn, Offset, get_port_weight
<1> QED BY <1>5, <1>7 DEF TurnsInv

LEMMA FlushTurns == ASSUME Flush PROVE TurnsInv'
<1>1. NPorts \in Nat \ {0} /\ 0 \in Port BY ArbAssumption DEF Port
<1>2. get_port_weight(0) \in Nat BY <1>1, WeightPositive
<1> QED BY <1>1, <1>2 DEF Flush, flush_fe, NoneOvertaken, TurnsInv, ArbTypeOK,
                          OneTurn, get_port_weight

(* A grant passes only the ports whose turn is over or has not come.       *)
LEMMA GrantTurns ==
  ASSUME TurnsInv, NEW g \in Port, Grant(g)
  PROVE  TurnsInv'
<1> DEFINE ptr == next_fe_port_rr
           left == IF g # ptr \/ current_fe_port_grants_left <= 0
                   THEN get_port_weight(g) ELSE current_fe_port_grants_left
<1>1. /\ FirstWaiting(g)
      /\ fe_fifo' = [fe_fifo EXCEPT ![g] = Tail(@)]
      /\ update_fe_rr_after_grant(g)
      /\ grants_seen' = [r \in Port |->
           IF r # g /\ r \in Waiting THEN [grants_seen[r] EXCEPT ![g] = @ + 1]
                                     ELSE NoneOvertaken]
  BY DEF Grant, grant
<1>2. /\ left \in Nat \ {0}
      /\ left <= get_port_weight(g)
      /\ current_fe_port_grants_left' = left - 1
      /\ ptr' \in Port
      /\ ptr' = IF left = 1 THEN IF g + 1 = NPorts THEN 0 ELSE g + 1 ELSE g
  BY <1>1, PointerAfterGrant DEF TurnsInv
<1>3. /\ fe_fifo \in [Port -> Seq(Item)] /\ ptr \in Port
      /\ current_fe_port_grants_left \in Nat
      /\ grants_seen \in [Port -> [Port -> Nat]]
  BY DEF TurnsInv, ArbTypeOK
<1>4. /\ NPorts \in Nat \ {0} /\ Port = 0 .. NPorts - 1
      /\ \A p \in Port : /\ p \in Int
                         /\ get_port_weight(p) \in Nat \ {0}
                         /\ get_port_weight(p)' = get_port_weight(p)
  BY WeightPositive, ArbAssumption DEF Port, get_port_weight
<1>5. ArbTypeOK'
  <2>1. fe_fifo[g] # <<>> BY <1>1 DEF FirstWaiting, Waiting
  <2>2. Tail(fe_fifo[g]) \in Seq(Item) BY <1>3, <2>1
  <2>3. fe_fifo' \in [Port -> Seq(Item)] BY <1>1, <1>3, <2>2
  <2>4. grants_seen' \in [Port -> [Port -> Nat]]
    BY <1>1, <1>3 DEF NoneOvertaken
  <2>5. current_fe_port_grants_left' \in Nat BY <1>2
  <2>6. current_fe_port_grants_left' <= get_port_weight(ptr)'
    BY <1>2, <1>4
  <2> QED BY <1>2, <2>3, <2>4, <2>5, <2>6 DEF ArbTypeOK
<1>6. \A p \in Port : Offset(p) = IF ptr <= p THEN p - ptr
                                  ELSE p - ptr + NPorts
  BY <1>3, ScanOffset
<1>7. \A p \in Port : Offset(p)' = IF ptr' <= p THEN p - ptr'
                                   ELSE p - ptr' + NPorts
  <2>1. ASSUME NEW n \in Port, NEW p \in Port
        PROVE  (p - n) % NPorts = IF n <= p THEN p - n ELSE p - n + NPorts
    <3>1. CASE n <= p
      <4>1. p - n \in 0 .. NPorts - 1 BY <1>4, <3>1
      <4> QED BY <1>4, <3>1, <4>1, ModOfPort
    <3>2. CASE ~(n <= p)
      <4> DEFINE x == p - n + NPorts
      <4>1. x \in 1 .. NPorts - 1 BY <1>4, <3>2
      <4>2. x - NPorts = p - n BY <1>4
      <4> HIDE DEF x
      <4>3. (x - NPorts) % NPorts = x BY <1>4, <4>1, ModOfNegative
      <4> QED BY <3>2, <4>2, <4>3 DEF x
    <3> QED BY <3>1, <3>2
  <2> QED BY <1>2, <2>1 DEF Offset
<1>8. OneTurn'
  <2> SUFFICES ASSUME NEW p \in Port, NEW q \in Port, 0 < grants_seen'[p][q]
               PROVE  /\ p # q /\ p \in Waiting'
                      /\ TurnOver(p, q)' \/ InTurn(p, q)'
    BY DEF OneTurn
  <2>1. p # g /\ p \in Waiting
    BY <1>1 DEF NoneOvertaken
  <2>2. grants_seen'[p] = [grants_seen[p] EXCEPT ![g] = @ + 1]
    BY <1>1, <2>1
  <2>3. p \in Waiting'
    BY <1>1, <1>3, <2>1 DEF Waiting
  <2>4. Offset(g) < Offset(p)
    <3>1. Offset(g) <= Offset(p) BY <1>1, <2>1 DEF FirstWaiting
    <3>2. g \in 0 .. NPorts - 1 /\ p \in 0 .. NPorts - 1 /\ g # p
          /\ ptr \in 0 .. NPorts - 1 /\ NPorts \in Nat
      BY <1>3, <1>4, <2>1
    <3>3. Offset(g) = IF ptr <= g THEN g - ptr ELSE g - ptr + NPorts BY <1>6
    <3>4. Offset(p) = IF ptr <= p THEN p - ptr ELSE p - ptr + NPorts BY <1>6
    <3> QED BY <3>1, <3>2, <3>3, <3>4
  <2>5. 0 < grants_seen[p][q] => p # q /\ (TurnOver(p, q) \/ InTurn(p, q))
    BY DEF TurnsInv, OneTurn
  <2>6. grants_seen[p][q] \in Nat BY <1>3
  <2>a. /\ NPorts \in Nat /\ ptr \in 0 .. NPorts - 1 /\ ptr' \in 0 .. NPorts - 1
        /\ p \in 0 .. NPorts - 1 /\ q \in 0 .. NPorts - 1
        /\ g \in 0 .. NPorts - 1
    BY <1>2, <1>3, <1>4
  <2>b. /\ Offset(p) = IF ptr <= p THEN p - ptr ELSE p - ptr + NPorts
        /\ Offset(q) = IF ptr <= q THEN q - ptr ELSE q - ptr + NPorts
        /\ Offset(g) = IF ptr <= g THEN g - ptr ELSE g - ptr + NPorts
    BY <1>6
  <2>c. /\ Offset(p)' = IF ptr' <= p THEN p - ptr' ELSE p - ptr' + NPorts
        /\ Offset(q)' = IF ptr' <= q THEN q - ptr' ELSE q - ptr' + NPorts
    BY <1>7
  <2>d. /\ get_port_weight(q) \in Nat
        /\ get_port_weight(q)' = get_port_weight(q)
    BY <1>4
  <2> HIDE DEF left, ptr
  <2>7. CASE q = g
    <3>1. grants_seen'[p][q] = grants_seen[p][q] + 1 BY <1>3, <2>2, <2>7
    <3>2. grants_seen[p][q] + left <= get_port_weight(q)
      <4>1. CASE grants_seen[p][q] = 0 BY <1>2, <1>4, <2>7, <4>1
      <4>2. CASE 0 < grants_seen[p][q]
        <5>1. InTurn(p, q)
          BY <2>4, <2>5, <2>7, <2>a, <2>b, <4>2 DEF TurnOver
        <5> QED BY <1>3, <2>7, <5>1 DEF InTurn, left, ptr
      <4> QED BY <2>6, <4>1, <4>2
    <3>3. CASE left = 1
      <4>1. Offset(p)' < Offset(q)'
        BY <1>2, <2>1, <2>4, <2>7, <2>a, <2>b, <2>c, <3>3
      <4>2. grants_seen'[p][q] <= get_port_weight(q)'
        BY <1>4, <3>1, <3>2, <3>3
      <4> QED BY <2>1, <2>3, <2>7, <4>1, <4>2 DEF TurnOver
    <3>4. CASE left # 1
      <4>1. q = ptr' /\ 0 < current_fe_port_grants_left'
        BY <1>2, <2>7, <3>4
      <4>2. grants_seen'[p][q] + current_fe_port_grants_left'
              <= get_port_weight(q)'
        BY <1>2, <1>4, <2>6, <3>1, <3>2
      <4> QED BY <2>1, <2>3, <2>7, <4>1, <4>2 DEF InTurn, ptr
    <3> QED BY <3>3, <3>4
  <2>8. CASE q # g
    <3>1. grants_seen'[p][q] = grants_seen[p][q] BY <1>3, <2>2, <2>8
    <3>2. p # q /\ (TurnOver(p, q) \/ InTurn(p, q)) BY <2>5, <3>1
    <3>3. grants_seen[p][q] <= get_port_weight(q)
      <4>1. CASE TurnOver(p, q) BY <4>1 DEF TurnOver
      <4>2. CASE InTurn(p, q)
        <5>1. grants_seen[p][q] + current_fe_port_grants_left <= get_port_weight(q)
          BY <4>2 DEF InTurn
        <5>2. current_fe_port_grants_left \in Nat BY <1>3
        <5> QED BY <2>6, <2>d, <5>1, <5>2
      <4> QED BY <3>2, <4>1, <4>2
    <3>4. q = ptr \/ Offset(p) < Offset(q)
      BY <3>2 DEF TurnOver, InTurn, ptr
    <3>5. Offset(p)' < Offset(q)'
      BY <1>2, <2>1, <2>4, <2>8, <2>a, <2>b, <2>c, <3>2, <3>4
    <3> QED BY <1>4, <2>3, <3>1, <3>2, <3>3, <3>5 DEF TurnOver
  <2> QED BY <2>7, <2>8
<1> QED BY <1>5, <1>8 DEF TurnsInv

LEMMA TurnsStep ==
  ASSUME TurnsInv, [ArbiterNext]_arbiterVars
  PROVE  TurnsInv'
<1>1. ASSUME NEW p \in Port, PortSubmit(p) PROVE TurnsInv' BY <1>1, SubmitTurns
<1>2. ASSUME NEW p \in Port, Grant(p) PROVE TurnsInv' BY <1>2, GrantTurns
<1>3. CASE Flush BY <1>3, FlushTurns
<1>4. CASE UNCHANGED arbiterVars
  BY <1>4 DEF arbiterVars, arbVars, TurnsInv, ArbTypeOK, OneTurn, TurnOver, InTurn,
              Offset, Waiting, get_port_weight
<1> QED BY <1>1, <1>2, <1>3, <1>4 DEF ArbiterNext

(***************************************************************************)
(* While a port waits, no other port is granted more often than its weight *)
(* allows (get_port_weight, update_fe_rr_after_grant), for every number of *)
(* ports and every weighting, non-positive weights included.               *)
(***************************************************************************)
THEOREM PortsTakeTurns == ArbiterSpec => []WeightedTurns
<1>1. ArbiterInit => TurnsInv BY TurnsInit
<1>2. TurnsInv /\ [ArbiterNext]_arbiterVars => TurnsInv' BY TurnsStep
<1>3. TurnsInv => WeightedTurns
  <2> SUFFICES ASSUME TurnsInv, NEW p \in Port, NEW q \in Port
               PROVE  grants_seen[p][q] <= get_port_weight(q)
    BY DEF WeightedTurns
  <2>1. /\ grants_seen[p][q] \in Nat /\ get_port_weight(q) \in Nat
        /\ current_fe_port_grants_left \in Nat
    BY WeightPositive DEF TurnsInv, ArbTypeOK
  <2>2. 0 < grants_seen[p][q] => TurnOver(p, q) \/ InTurn(p, q)
    BY DEF TurnsInv, OneTurn
  <2> QED BY <2>1, <2>2 DEF TurnOver, InTurn
<1> QED BY <1>1, <1>2, <1>3, PTL DEF ArbiterSpec

(***************************************************************************)
(* The observers                                                           *)
(***************************************************************************)

(* Numbers of the responses that stream s still shows the monitor, and of  *)
(* all streams.                                                            *)
OnBus(s) == {bus[s][i].n : i \in DOMAIN bus[s]}
BusNumbers == UNION {OnBus(s) : s \in BusStream}

Response == [n : Nat, resp : {"OKAY", "SLVERR", "DECERR"}]

(* A response on a bus is that of a command of S, handed back, or of one   *)
(* of R, rejected, of its stream, and there is one of each.                *)
RespondsTo(r, s, S, R) ==
  \/ \E c \in S : stream_key(c) = s /\ r = [n |-> c.n, resp |-> "OKAY"]
  \/ \E l \in R : stream_key(l) = s /\ r = [n |-> l.n, resp |-> l.resp]
IsResponse(r, s) == RespondsTo(r, s, served, rejected)

BusInv ==
  /\ bus \in [BusStream -> Seq(Response)]
  /\ \A s \in BusStream : \A i \in DOMAIN bus[s] :
       /\ IsResponse(bus[s][i], s)
       /\ \A j \in DOMAIN bus[s] : bus[s][i].n = bus[s][j].n => i = j
  /\ rejected \subseteq LocalCmd /\ IsFiniteSet(rejected)
  /\ IsFiniteSet(BusNumbers)

(* Until a reset drops something, every command submitted or rejected is   *)
(* outstanding, on its bus, or sampled.                                    *)
SamplesInv ==
  /\ resp_samples \in Nat
  /\ epoch = 0 =>
       /\ IsFiniteSet(Outstanding)
       /\ resp_samples + Cardinality(BusNumbers) + Cardinality(Outstanding)
            = submits + Cardinality(rejected)

-----------------------------------------------------------------------------
(* Before a reset a refresh tag is used once.                              *)
RefreshTagsInv ==
  /\ epoch \in Nat /\ (epoch = 0 => rst # "draining")
  /\ \A t \in dev : t \in Int /\ t < next_tag
  /\ epoch = 0 =>
       /\ \A t \in dev : t > -(ref_ctr + 1)
       /\ \A i \in DOMAIN ref_fifo :
            /\ ref_fifo[i] > -(ref_ctr + 1)
            /\ ref_fifo[i] \notin dev
            /\ \A j \in DOMAIN ref_fifo : ref_fifo[i] = ref_fifo[j] => i = j

CoverageInv ==
  /\ CoverageJoins
  /\ issued_samples \in Nat /\ rsp_samples \in Nat
  /\ epoch = 0 =>
       /\ DOMAIN cov_inflight = dev
       /\ IsFiniteSet(dev)
       /\ issued_samples = rsp_samples + Cardinality(dev)

-----------------------------------------------------------------------------
(* The predictions of stream s that must be there: of the command at the   *)
(* device, and of those whose responses the monitor did not see yet.       *)
Owed(s) == {c.n : c \in {d \in Cmd : /\ stream_key(d) = s
                                     /\ d \in inflight \/ d.n \in OnBus(s)}}

(* The predictions p are those of O and stand in the order in which the    *)
(* responses come: what is on the bus b has everything predicted earlier   *)
(* before it on the bus.                                                   *)
Predicts(p, b, O) ==
  /\ {p[k] : k \in DOMAIN p} = O
  /\ \A k, l \in DOMAIN p : k < l =>
       /\ p[k] # p[l]
       /\ \A j \in DOMAIN b : b[j].n = p[l] =>
            \E i \in DOMAIN b : i < j /\ b[i].n = p[k]

PendingInv ==
  \A s \in BusStream : Predicts(pending[s], bus[s], Owed(s))

LocalNumbers == BusNumbers \cap {l.n : l \in LocalCmd}

(* What the tests that enable the scoreboard see to, and what then holds.  *)
VerdictInv ==
  /\ \A c \in Cmd : merged_writes[c] = {}
  /\ \A l \in rejected : l.resp = "DECERR" \/ stream_key(l) \notin Stream
  /\ PendingInv
  /\ unpredicted_responses + decerr_responses + Cardinality(LocalNumbers)
       = Cardinality(rejected)

ScoreboardInv ==
  /\ pending \in [BusStream -> Seq(Nat)]
  /\ unpredicted_responses \in Nat /\ decerr_responses \in Nat
  /\ \A m \in matched : m[1] = m[2]
  /\ enabled \in BOOLEAN
  /\ enabled => VerdictInv
  /\ ~enabled => unpredicted_responses = 0 /\ decerr_responses = 0

BackendHolds == BackendInv /\ PortInv

-----------------------------------------------------------------------------
(* What the observers need to know of the backend's steps.                 *)

LEMMA PartsOfBackend ==
  ASSUME BackendHolds
  PROVE  /\ queued \subseteq Cmd /\ inflight \subseteq Cmd
         /\ queued \cap inflight = {}
         /\ served \subseteq Cmd
         /\ \A c \in served : c \notin allPending
         /\ \A c \in queued \cup inflight : c \in allPending
         /\ tag \in [Cmd -> Nat] /\ next_tag \in Nat \ {0}
         /\ \A c \in inflight : tag[c] \in 1 .. next_tag - 1
         /\ \A c, d \in inflight : tag[c] = tag[d] => c = d
         /\ ref_fifo \in Seq(RefTags) /\ inflight_ref_by_tag \subseteq RefTags
         /\ ref_ctr \in Nat
         /\ rst # "draining" =>
              dev = {tag[c] : c \in inflight} \cup inflight_ref_by_tag
         /\ \A c, d \in inflight : stream_key(c) = stream_key(d) => c = d
BY DEF BackendHolds, BackendInv, PortInv, EntriesInv, TagsInv, FifosInv,
       DeviceAgrees, AnswersFinal, IInv, StreamSerialised, allPending, Pending,
       Group

LEMMA GrantFacts ==
  ASSUME BackendHolds, NEW c \in queued, RunIssue(c), ~c.pre
  PROVE  /\ inflight' = inflight \cup {c} /\ c \notin inflight
         /\ c \in Cmd /\ c \in allPending /\ c \notin served
         /\ tag' = [tag EXCEPT ![c] = next_tag] /\ next_tag' = next_tag + 1
         /\ dev' = dev \cup {next_tag}
         /\ UNCHANGED <<served, submits, merged_writes, ref_fifo, ref_ctr, rst,
                        epoch, Outstanding>>
<1>1. /\ queued' = queued \ {c} /\ inflight' = inflight \cup {c}
      /\ tag' = [tag EXCEPT ![c] = next_tag] /\ next_tag' = next_tag + 1
      /\ UNCHANGED merged_writes
  BY DEF RunIssue, Issue, take_entry, enqueue, mergeVars
<1>2. /\ dev' = dev \cup {next_tag}
      /\ UNCHANGED <<served, submits, ref_fifo, ref_ctr, rst, epoch, fe_fifo>>
  BY DEF RunIssue, arbVars, refVars, resetVars, submitVars
<1>3. /\ c \in Cmd /\ c \notin inflight /\ c \in allPending /\ c \notin served
  BY PartsOfBackend
<1>4. Pending' = Pending BY <1>1 DEF Pending
<1>5. UNCHANGED Outstanding
  BY <1>1, <1>2, <1>4 DEF Outstanding, Buffered, Group
<1> QED BY <1>1, <1>2, <1>3, <1>5

LEMMA AnswerFacts ==
  ASSUME BackendHolds, NEW t, Respond(t)
  PROVE  /\ t \in dev /\ dev' = dev \ {t}
         /\ UNCHANGED <<tag, next_tag, submits, merged_writes, ref_fifo,
                        ref_ctr, rst, epoch>>
         /\ \/ /\ UNCHANGED <<inflight, served, Outstanding>>
               /\ \A c \in inflight : tag[c] # t
            \/ \E c \in inflight :
                 /\ tag[c] = t /\ inflight' = inflight \ {c}
                 /\ Group(c) \subseteq Outstanding \ served
                 /\ \A d \in Group(c) :
                      d \in Cmd /\ stream_key(d) = stream_key(c)
                 /\ served' = served \cup Group(c)
                 /\ Outstanding' = Outstanding \ Group(c)
<1>1. /\ t \in dev /\ dev' = dev \ {t} /\ complete_rsp(t)
      /\ UNCHANGED <<submits, ref_fifo, ref_ctr, rst, epoch, fe_fifo>>
  BY DEF Respond, arbVars, resetVars, submitVars
<1>2. CASE t \in inflight_ref_by_tag
  <2>1. UNCHANGED queueState /\ UNCHANGED served
    BY <1>1, <1>2 DEF complete_rsp
  <2>2. UNCHANGED <<queued, inflight, tag, next_tag, merged_writes>>
    BY <2>1 DEF queueState
  <2>3. \A c \in inflight : tag[c] # t
    BY <1>2, PartsOfBackend DEF RefTags
  <2>4. UNCHANGED Outstanding
    BY <1>1, <2>2 DEF Outstanding, Buffered, Group, Pending
  <2> QED BY <1>1, <2>1, <2>2, <2>3, <2>4
<1>3. CASE t \notin inflight_ref_by_tag /\ \A c \in inflight : tag[c] # t
  <2>1. UNCHANGED queueState /\ UNCHANGED served
    BY <1>1, <1>3 DEF complete_rsp, complete_by_rsp
  <2>2. UNCHANGED <<queued, inflight, tag, next_tag, merged_writes>>
    BY <2>1 DEF queueState
  <2>4. UNCHANGED Outstanding
    BY <1>1, <2>2 DEF Outstanding, Buffered, Group, Pending
  <2> QED BY <1>1, <1>3, <2>1, <2>2, <2>4
<1>4. ASSUME t \notin inflight_ref_by_tag, NEW c \in inflight, tag[c] = t
      PROVE  /\ UNCHANGED <<tag, next_tag, merged_writes>>
             /\ inflight' = inflight \ {c}
             /\ Group(c) \subseteq Outstanding \ served
             /\ \A d \in Group(c) : d \in Cmd /\ stream_key(d) = stream_key(c)
             /\ served' = served \cup Group(c)
             /\ Outstanding' = Outstanding \ Group(c)
  <2>1. \A d \in inflight : tag[d] = t => d = c BY <1>4, PartsOfBackend
  <2>2. /\ complete_by_rsp(t)
        /\ served' = served \cup
             UNION {Group(d) : d \in {e \in inflight : tag[e] = t}}
    BY <1>1, <1>4 DEF complete_rsp
  <2>3. {e \in inflight : tag[e] = t} = {c} BY <1>4, <2>1
  <2>4. served' = served \cup Group(c) BY <2>2, <2>3
  <2>5. /\ inflight' = inflight \ {c}
        /\ UNCHANGED <<tag, next_tag, merged_writes>>
    BY <2>1, <2>2 DEF complete_by_rsp, mergeVars
  <2>6. Group(c) \subseteq allPending BY <1>4 DEF allPending, Pending
  <2>7. Group(c) \cap served = {} BY <2>6, PartsOfBackend
  <2>8. \A d \in Group(c) : d \in Cmd
    BY <2>6, PendingArrived DEF BackendHolds, PortInv
  <2>9. \A d \in Group(c) : stream_key(d) = stream_key(c)
    BY <1>4 DEF BackendHolds, PortInv, IInv, GroupsOrdered, Pending
  <2>10. PICK S : Leaves(S) /\ served' = served \cup S
    BY RespondStep DEF BackendHolds
  <2>11. \A d \in Cmd : d.port \in Port BY BackendAssumption
  <2>12. Outstanding' = Outstanding \ S /\ S \cap served = {}
    BY <2>10, <2>11, LeavesServes DEF BackendHolds
  <2>13. S = Group(c) BY <2>4, <2>7, <2>10, <2>12
  <2>14. Group(c) \subseteq Outstanding BY <2>6, OutstandingParts
  <2> QED BY <2>4, <2>5, <2>7, <2>8, <2>9, <2>12, <2>13, <2>14
<1> QED BY <1>1, <1>2, <1>3, <1>4

(* What the observers are not told of.                                     *)
Unseen ==
  /\ UNCHANGED <<inflight, tag, next_tag, served, epoch>>
  /\ rst' = "draining" => rst = "draining"
  /\ dev' = dev \/ (dev' = {} /\ rst = "draining")
  /\ \/ UNCHANGED <<ref_fifo, ref_ctr>>
     \/ /\ ref_fifo' = Append(ref_fifo, RefTag(ref_ctr))
        /\ ref_ctr' = ref_ctr + 1
  /\ \/ UNCHANGED <<submits, Outstanding>>
     \/ \E c \in Cmd : /\ c \notin Outstanding
                       /\ Outstanding' = Outstanding \cup {c}
                       /\ submits' = submits + 1

LEMMA UnseenIdle ==
  ASSUME BackendHolds, Undisturbed, UNCHANGED epoch,
         rst' = "draining" => rst = "draining",
         dev' = dev \/ (dev' = {} /\ rst = "draining"),
         \/ UNCHANGED <<ref_fifo, ref_ctr>>
         \/ /\ ref_fifo' = Append(ref_fifo, RefTag(ref_ctr))
            /\ ref_ctr' = ref_ctr + 1
  PROVE  Unseen
<1>1. /\ UNCHANGED <<queued, inflight, tag, next_tag, merged_writes>>
      /\ UNCHANGED <<fe_fifo, submits, served>>
  BY DEF Undisturbed, Age, queueState, queueVars, inflightVars, mergeVars
<1>2. UNCHANGED Outstanding
  BY <1>1 DEF Outstanding, Buffered, Group, Pending
<1> QED BY <1>1, <1>2 DEF Unseen

LEMMA UnseenSubmit ==
  ASSUME BackendHolds, NEW c \in Cmd, Submit(c)
  PROVE  Unseen
<1>1. /\ UNCHANGED queueState
      /\ UNCHANGED <<ref_fifo, ref_ctr, rst, epoch, dev, served>>
      /\ submits' = submits + 1 /\ submit_rank[c] = 0
  BY DEF Submit, refVars, resetVars
<1>2. UNCHANGED <<inflight, tag, next_tag>> BY <1>1 DEF queueState
<1>3. /\ UNCHANGED allPending /\ Buffered' = Buffered \cup {c}
  BY SubmitInv, BackendAssumption DEF BackendHolds
<1>4. Outstanding' = Outstanding \cup {c}
  BY <1>3, OutstandingParts, OutstandingPartsNext
<1>5. c \notin Outstanding
  <2>1. c \notin Buffered
    BY <1>1 DEF Buffered, BackendHolds, PortInv, FifosOrdered
  <2>2. c \notin allPending
    BY <1>1, PendingArrived DEF BackendHolds, PortInv, AcceptedInOrder
  <2> QED BY <2>1, <2>2, OutstandingParts
<1> QED BY <1>1, <1>2, <1>4, <1>5 DEF Unseen

LEMMA UnseenAdmit ==
  ASSUME BackendHolds, NEW p \in Port, RunAdmit(p)
  PROVE  Unseen
<1>1. /\ Accept(Head(fe_fifo[p]))
      /\ UNCHANGED <<ref_fifo, ref_ctr, rst, epoch, dev, served, submits>>
  BY DEF RunAdmit, refVars, resetVars, submitVars
<1>2. UNCHANGED <<inflight, tag, next_tag>>
  BY <1>1 DEF Accept, try_coalesce_write, admit, inflightVars
<1>3. Buffered' \cup allPending' = Buffered \cup allPending
  BY AdmitHeadInv DEF BackendHolds
<1>4. UNCHANGED Outstanding
  BY <1>3, OutstandingParts, OutstandingPartsNext
<1> QED BY <1>1, <1>2, <1>4 DEF Unseen

LEMMA UnseenSteps ==
  ASSUME BackendHolds, Unobserved \/ UNCHANGED vars
  PROVE  Unseen
<1>1. CASE Wake \/ RunNoIssue \/ Tick \/ open_init_gate_after
           \/ UNCHANGED vars
  <2>1. UNCHANGED <<ref_fifo, ref_ctr, rst, epoch, dev>>
    BY <1>1 DEF Wake, RunNoIssue, Tick, open_init_gate_after, vars, refVars,
                resetVars
  <2> QED BY <1>1, <2>1, QuietSteps, UnseenIdle
<1>2. CASE EmitRefresh
  <2>1. UNCHANGED <<rst, epoch, dev>> BY <1>2 DEF EmitRefresh, resetVars
  <2> QED BY <1>2, <2>1, QuietSteps, UnseenIdle DEF EmitRefresh
<1>3. CASE DramReset
  <2>1. UNCHANGED <<ref_fifo, ref_ctr>> /\ rst' = "low"
    BY <1>3 DEF DramReset, refVars
  <2> QED BY <1>3, <2>1, QuietSteps, UnseenIdle DEF DramReset
<1>4. CASE DeassertReset
  <2>1. UNCHANGED <<ref_fifo, ref_ctr>> /\ rst' = "high"
    BY <1>4 DEF DeassertReset, refVars
  <2> QED BY <1>4, <2>1, QuietSteps, UnseenIdle DEF DeassertReset
<1>5. CASE \E p \in Port : RunAdmit(p) BY <1>5, UnseenAdmit
<1>6. CASE \E c \in Cmd : Submit(c) BY <1>6, UnseenSubmit
<1> QED BY <1>1, <1>2, <1>3, <1>4, <1>5, <1>6 DEF Unobserved

LEMMA ResetFacts ==
  ASSUME BackendHolds, AssertReset
  PROVE  /\ inflight' = {} /\ epoch' = epoch + 1 /\ rst' = "draining"
         /\ UNCHANGED <<dev, next_tag, tag, served>>
BY DEF AssertReset, flush, flush_queue, inflightVars

(* The steps of the observed system are steps of the backend.              *)
LEMMA ObservedBackend ==
  ASSUME BackendHolds, [ObsNext]_allVars
  PROVE  BackendHolds'
<1>1. [Next]_vars
  <2>1. CASE UNCHANGED allVars BY <2>1 DEF allVars
  <2>2. CASE ObsNext
    BY <2>2 DEF ObsNext, GrantCommand, GrantRefresh, DeviceAnswer, Local,
                Observe, Reset, Unobserved, Next, Drain
  <2> QED BY <2>1, <2>2
<1>2. BackendInv' BY <1>1, BackendStep DEF BackendHolds
<1>3. PortInv' BY <1>1, StepFacts DEF BackendHolds
<1> QED BY <1>2, <1>3 DEF BackendHolds

LEMMA BackendStarts ==
  ASSUME ObsInit
  PROVE  BackendHolds
BY BackendInit, PortInit DEF ObsInit, BackendHolds

-----------------------------------------------------------------------------
(* The collector's table.                                                  *)

LEMMA RefreshHead ==
  ASSUME NEW q \in Seq(RefTags), q # <<>>
  PROVE  /\ Head(q) = q[1] /\ 1 \in DOMAIN q /\ Head(q) \in RefTags
         /\ Tail(q) \in Seq(RefTags)
         /\ \A i \in DOMAIN Tail(q) :
              i \in Nat \ {0} /\ i + 1 \in DOMAIN q /\ Tail(q)[i] = q[i + 1]
OBVIOUS

LEMMA RefreshAppended ==
  ASSUME NEW q \in Seq(RefTags), NEW x \in RefTags, NEW r, r = Append(q, x)
  PROVE  /\ \A i \in DOMAIN r : \/ i \in DOMAIN q /\ r[i] = q[i]
                                \/ i = Len(q) + 1 /\ r[i] = x
         /\ \A i \in DOMAIN q : i # Len(q) + 1
OBVIOUS

LEMMA RefreshTag ==
  ASSUME NEW k \in Nat
  PROVE  RefTag(k) \in RefTags /\ RefTag(k) = -(k + 1) /\ RefTag(k) \in Int
BY DEF RefTag, RefTags

LEMMA GrantRefreshFacts ==
  ASSUME BackendHolds, RunRefresh
  PROVE  /\ ref_fifo # <<>> /\ ref_fifo' = Tail(ref_fifo)
         /\ dev' = dev \cup {Head(ref_fifo)}
         /\ UNCHANGED <<tag, next_tag, inflight, served, submits, ref_ctr, rst,
                        epoch, Outstanding, merged_writes>>
<1>1. /\ ref_fifo # <<>> /\ ref_fifo' = Tail(ref_fifo)
      /\ dev' = dev \cup {Head(ref_fifo)}
      /\ UNCHANGED <<tag, next_tag, queued, inflight, served, submits, ref_ctr,
                     rst, epoch, merged_writes, fe_fifo>>
  BY DEF RunRefresh, queueState, submitVars, resetVars, arbVars
<1> QED BY <1>1 DEF Outstanding, Buffered, Group, Pending

LEMMA TagsInit ==
  ASSUME ObsInit
  PROVE  RefreshTagsInv
BY DEF ObsInit, Init, RefreshTagsInv

LEMMA TagsGrant ==
  ASSUME BackendHolds, RefreshTagsInv, NEW c \in queued, RunIssue(c), ~c.pre
  PROVE  RefreshTagsInv' /\ next_tag \notin dev
<1>1. /\ next_tag' = next_tag + 1 /\ dev' = dev \cup {next_tag}
      /\ UNCHANGED <<ref_fifo, ref_ctr, rst, epoch>>
  BY GrantFacts
<1>2. /\ next_tag \in Nat \ {0} /\ ref_ctr \in Nat
      /\ ref_fifo \in Seq(RefTags)
  BY PartsOfBackend
<1>3. \A i \in DOMAIN ref_fifo : ref_fifo[i] \in Int /\ ref_fifo[i] < 0
  <2>1. \A i \in DOMAIN ref_fifo : ref_fifo[i] \in RefTags BY <1>2
  <2> QED BY <2>1 DEF RefTags
<1>4. next_tag \notin dev BY <1>2 DEF RefreshTagsInv
<1>5. \A t \in dev' : t \in Int /\ t < next_tag'
  BY <1>1, <1>2 DEF RefreshTagsInv
<1>6. ASSUME epoch = 0
      PROVE  /\ \A t \in dev' : t > -(ref_ctr + 1)
             /\ \A i \in DOMAIN ref_fifo : ref_fifo[i] \notin dev'
  <2>1. next_tag > -(ref_ctr + 1) BY <1>2
  <2>2. \A i \in DOMAIN ref_fifo : ref_fifo[i] # next_tag BY <1>2, <1>3
  <2> QED BY <1>1, <1>6, <2>1, <2>2 DEF RefreshTagsInv
<1> QED BY <1>1, <1>4, <1>5, <1>6 DEF RefreshTagsInv

LEMMA TagsGrantRefresh ==
  ASSUME BackendHolds, RefreshTagsInv, RunRefresh
  PROVE  /\ RefreshTagsInv' /\ Head(ref_fifo) \in RefTags
         /\ epoch = 0 => Head(ref_fifo) \notin dev
<1> DEFINE h == Head(ref_fifo)
           r == Tail(ref_fifo)
<1>1. /\ ref_fifo # <<>> /\ ref_fifo' = r /\ dev' = dev \cup {h}
      /\ UNCHANGED <<next_tag, ref_ctr, rst, epoch>>
  BY GrantRefreshFacts
<1>2. /\ next_tag \in Nat \ {0} /\ ref_fifo \in Seq(RefTags)
      /\ ref_ctr \in Nat
  BY PartsOfBackend
<1>3. /\ h = ref_fifo[1] /\ 1 \in DOMAIN ref_fifo /\ h \in RefTags
      /\ \A i \in DOMAIN r : /\ i \in Nat \ {0} /\ i + 1 \in DOMAIN ref_fifo
                             /\ r[i] = ref_fifo[i + 1]
  BY <1>1, <1>2, RefreshHead
<1>4. h \in Int /\ h < next_tag BY <1>2, <1>3 DEF RefTags
<1> HIDE DEF h, r
<1>5. \A t \in dev' : t \in Int /\ t < next_tag
  BY <1>1, <1>4 DEF RefreshTagsInv
<1>6. ASSUME epoch = 0
      PROVE  /\ h \notin dev
             /\ \A t \in dev' : t > -(ref_ctr + 1)
             /\ \A i \in DOMAIN r :
                  /\ r[i] > -(ref_ctr + 1) /\ r[i] \notin dev'
                  /\ \A j \in DOMAIN r : r[i] = r[j] => i = j
  <2>1. h \notin dev /\ h > -(ref_ctr + 1)
    BY <1>3, <1>6 DEF RefreshTagsInv
  <2>2. ASSUME NEW i \in DOMAIN r
        PROVE  /\ r[i] > -(ref_ctr + 1) /\ r[i] \notin dev /\ r[i] # h
               /\ \A j \in DOMAIN r : r[i] = r[j] => i = j
    <3>1. /\ ref_fifo[i + 1] > -(ref_ctr + 1) /\ ref_fifo[i + 1] \notin dev
          /\ \A j \in DOMAIN ref_fifo :
               ref_fifo[i + 1] = ref_fifo[j] => i + 1 = j
      BY <1>3, <1>6 DEF RefreshTagsInv
    <3>2. i \in Nat /\ i + 1 # 1 BY <1>3
    <3>3. r[i] # h BY <1>3, <3>1, <3>2
    <3>4. ASSUME NEW j \in DOMAIN r, r[i] = r[j] PROVE i = j
      <4>1. j \in Nat /\ i + 1 = j + 1 BY <1>3, <3>1, <3>4
      <4> QED BY <3>2, <4>1
    <3> QED BY <1>3, <3>1, <3>3, <3>4
  <2> QED BY <1>1, <1>6, <2>1, <2>2 DEF RefreshTagsInv
<1> QED BY <1>1, <1>3, <1>5, <1>6 DEF RefreshTagsInv, h

LEMMA TagsOther ==
  ASSUME BackendHolds, RefreshTagsInv,
         (\E t : Respond(t)) \/ Unseen \/ AssertReset
  PROVE  RefreshTagsInv'
<1>0. /\ next_tag \in Nat \ {0} /\ ref_fifo \in Seq(RefTags)
      /\ ref_ctr \in Nat
  BY PartsOfBackend
<1>1. ASSUME NEW t, Respond(t) PROVE RefreshTagsInv'
  <2>1. /\ dev' \subseteq dev
        /\ UNCHANGED <<next_tag, ref_fifo, ref_ctr, rst, epoch>>
    BY <1>1, AnswerFacts
  <2> QED BY <2>1 DEF RefreshTagsInv
<1>2. CASE AssertReset
  <2>1. epoch' = epoch + 1 /\ UNCHANGED <<dev, next_tag>>
    BY <1>2, ResetFacts
  <2>2. epoch' \in Nat /\ epoch' # 0 BY <2>1 DEF RefreshTagsInv
  <2> QED BY <2>1, <2>2 DEF RefreshTagsInv
<1>3. CASE Unseen
  <2>1. /\ UNCHANGED <<next_tag, epoch>> /\ dev' \subseteq dev
        /\ rst' = "draining" => rst = "draining"
    BY <1>3 DEF Unseen
  <2>2. CASE UNCHANGED <<ref_fifo, ref_ctr>>
    BY <2>1, <2>2 DEF RefreshTagsInv
  <2>3. CASE /\ ref_fifo' = Append(ref_fifo, RefTag(ref_ctr))
             /\ ref_ctr' = ref_ctr + 1
    <3> DEFINE x == RefTag(ref_ctr)
               r == ref_fifo'
    <3>1. x \in RefTags /\ x = -(ref_ctr + 1) /\ x \in Int
      BY <1>0, RefreshTag
    <3> HIDE DEF x
    <3>2. /\ \A i \in DOMAIN r : \/ i \in DOMAIN ref_fifo /\ r[i] = ref_fifo[i]
                                 \/ i = Len(ref_fifo) + 1 /\ r[i] = x
          /\ \A i \in DOMAIN ref_fifo : i # Len(ref_fifo) + 1
      BY <1>0, <2>3, <3>1, RefreshAppended DEF x
    <3>3. \A i \in DOMAIN ref_fifo : ref_fifo[i] \in Int
      BY <1>0 DEF RefTags
    <3>4. -(ref_ctr' + 1) < x /\ -(ref_ctr' + 1) \in Int BY <1>0, <2>3, <3>1
    <3>5. ASSUME epoch = 0
          PROVE  /\ \A t \in dev' : t > -(ref_ctr' + 1)
                 /\ \A i \in DOMAIN r :
                      /\ r[i] > -(ref_ctr' + 1) /\ r[i] \notin dev'
                      /\ \A j \in DOMAIN r : r[i] = r[j] => i = j
      <4>1. \A t \in dev : t \in Int /\ t > x
        BY <1>0, <3>1, <3>5 DEF RefreshTagsInv
      <4>2. \A i \in DOMAIN ref_fifo :
              /\ ref_fifo[i] > x /\ ref_fifo[i] \notin dev
              /\ \A j \in DOMAIN ref_fifo : ref_fifo[i] = ref_fifo[j] => i = j
        BY <1>0, <3>1, <3>5 DEF RefreshTagsInv
      <4>3. \A t \in dev' : t > -(ref_ctr' + 1)
        BY <2>1, <3>1, <3>4, <4>1
      <4>4. ASSUME NEW i \in DOMAIN r
            PROVE  /\ r[i] > -(ref_ctr' + 1) /\ r[i] \notin dev'
                   /\ \A j \in DOMAIN r : r[i] = r[j] => i = j
        <5>1. CASE i \in DOMAIN ref_fifo /\ r[i] = ref_fifo[i]
          <6>1. r[i] > x /\ r[i] \in Int /\ r[i] \notin dev
            BY <3>3, <4>2, <5>1
          <6>2. r[i] > -(ref_ctr' + 1) BY <3>1, <3>4, <6>1
          <6>3. ASSUME NEW j \in DOMAIN r, r[i] = r[j] PROVE i = j
            <7>1. r[j] # x BY <3>1, <6>1, <6>3
            <7>2. j \in DOMAIN ref_fifo /\ r[j] = ref_fifo[j] BY <3>2, <7>1
            <7> QED BY <4>2, <5>1, <6>3, <7>2
          <6> QED BY <2>1, <6>1, <6>2, <6>3
        <5>2. CASE i = Len(ref_fifo) + 1 /\ r[i] = x
          <6>1. x \notin dev BY <3>1, <4>1
          <6>2. ASSUME NEW j \in DOMAIN r, r[j] = x
                PROVE  j = Len(ref_fifo) + 1
            <7>1. ~(j \in DOMAIN ref_fifo /\ r[j] = ref_fifo[j])
              BY <3>1, <3>3, <4>2, <6>2
            <7> QED BY <3>2, <7>1
          <6> QED BY <2>1, <3>4, <5>2, <6>1, <6>2
        <5> QED BY <3>2, <5>1, <5>2
      <4> QED BY <4>3, <4>4
    <3> QED BY <2>1, <3>5 DEF RefreshTagsInv
  <2> QED BY <1>3, <2>2, <2>3 DEF Unseen
<1> QED BY <1>1, <1>2, <1>3

LEMMA HeldTags ==
  ASSUME BackendHolds
  PROVE  \A c \in inflight : tag[c] \in dev /\ tag[c] \in Nat
<1>1. CASE rst = "draining"
  <2>1. inflight = {} BY <1>1 DEF BackendHolds, BackendInv, ResetInv
  <2> QED BY <2>1
<1>2. CASE rst # "draining" BY <1>2, PartsOfBackend
<1> QED BY <1>1, <1>2

LEMMA CoverageInit ==
  ASSUME ObsInit
  PROVE  CoverageInv
<1>1. dev = {} /\ inflight = {} BY DEF ObsInit, Init, QueueInit
<1>2. /\ cov_inflight = <<>> /\ issued_samples = 0 /\ rsp_samples = 0
      /\ orphan_responses = 0
  BY DEF ObsInit
<1>3. IsFiniteSet(dev) /\ Cardinality(dev) = 0 BY <1>1, FS_EmptySet
<1>4. DOMAIN cov_inflight = {} BY <1>2
<1> QED BY <1>1, <1>2, <1>3, <1>4 DEF CoverageInv, CoverageJoins

(* A grant parks the granted under a tag the device does not hold yet.     *)
LEMMA CoverageGrants ==
  ASSUME CoverageInv, epoch \in Nat, NEW t, NEW n, NEW op,
         write_issued(t, n, op), UNCHANGED rsp_samples,
         UNCHANGED orphan_responses, UNCHANGED epoch,
         dev' = dev \cup {t}, epoch = 0 => t \notin dev,
         \A d \in inflight' : \/ tag'[d] = t /\ d.n = n
                              \/ d \in inflight /\ tag'[d] = tag[d]
                                 /\ tag[d] # t /\ tag[d] \in dev
  PROVE  CoverageInv'
<1>1. /\ issued_samples' = issued_samples + 1
      /\ cov_inflight' = [u \in DOMAIN cov_inflight \cup {t} |->
                            IF u = t THEN n ELSE cov_inflight[u]]
  BY DEF write_issued
<1>2. DOMAIN cov_inflight' = DOMAIN cov_inflight \cup {t} BY <1>1
<1>3. dev' \subseteq DOMAIN cov_inflight'
  BY <1>2 DEF CoverageInv, CoverageJoins
<1>4. ASSUME NEW d \in inflight' PROVE cov_inflight'[tag'[d]] = d.n
  <2>1. CASE tag'[d] = t /\ d.n = n BY <1>1, <2>1
  <2>2. CASE /\ d \in inflight /\ tag'[d] = tag[d]
             /\ tag[d] # t /\ tag[d] \in dev
    <3>1. /\ tag[d] \in DOMAIN cov_inflight
          /\ cov_inflight[tag[d]] = d.n
      BY <2>2 DEF CoverageInv, CoverageJoins
    <3> QED BY <1>1, <2>2, <3>1
  <2> QED BY <2>1, <2>2
<1>5. CoverageJoins'
  BY <1>3, <1>4 DEF CoverageInv, CoverageJoins
<1>6. ASSUME epoch = 0
      PROVE  /\ DOMAIN cov_inflight' = dev' /\ IsFiniteSet(dev')
             /\ issued_samples' = rsp_samples' + Cardinality(dev')
  <2>1. /\ DOMAIN cov_inflight = dev /\ IsFiniteSet(dev)
        /\ issued_samples = rsp_samples + Cardinality(dev)
    BY <1>6 DEF CoverageInv
  <2>2. /\ IsFiniteSet(dev')
        /\ Cardinality(dev') = Cardinality(dev) + 1
    BY <1>6, <2>1, FS_AddElement
  <2>3. Cardinality(dev) \in Nat BY <2>1, FS_CardinalityType
  <2> QED BY <1>1, <1>2, <2>1, <2>2, <2>3 DEF CoverageInv
<1> QED BY <1>1, <1>5, <1>6 DEF CoverageInv

LEMMA CoverageGrant ==
  ASSUME BackendHolds, RefreshTagsInv, CoverageInv,
         NEW c \in queued, GrantCommand(c)
  PROVE  CoverageInv'
<1>1. /\ RunIssue(c) /\ ~c.pre /\ write_issued(tag'[c], c.n, c.op)
      /\ UNCHANGED <<rsp_samples, orphan_responses>>
  BY DEF GrantCommand
<1>2. /\ inflight' = inflight \cup {c} /\ c \notin inflight /\ c \in Cmd
      /\ tag' = [tag EXCEPT ![c] = next_tag] /\ dev' = dev \cup {next_tag}
      /\ UNCHANGED epoch
  BY <1>1, GrantFacts
<1>3. /\ tag \in [Cmd -> Nat] /\ inflight \subseteq Cmd
      /\ next_tag \in Nat
      /\ \A d \in inflight : tag[d] \in 1 .. next_tag - 1
  BY PartsOfBackend
<1>4. tag'[c] = next_tag BY <1>2, <1>3
<1>5. ASSUME NEW d \in inflight, d # c
      PROVE  tag'[d] = tag[d] /\ tag[d] # next_tag /\ tag[d] \in dev
  <2>1. tag'[d] = tag[d] BY <1>2, <1>3, <1>5
  <2> QED BY <1>3, <2>1, HeldTags
<1>6. \A d \in inflight' : \/ tag'[d] = next_tag /\ d.n = c.n
                           \/ /\ d \in inflight /\ tag'[d] = tag[d]
                              /\ tag[d] # next_tag /\ tag[d] \in dev
  BY <1>2, <1>4, <1>5
<1>7. next_tag \notin dev BY <1>1, TagsGrant
<1>8. write_issued(next_tag, c.n, c.op) BY <1>1, <1>4
<1>9. epoch \in Nat BY DEF RefreshTagsInv
<1> HIDE DEF CoverageInv
<1> QED BY ONLY <1>1, <1>2, <1>6, <1>7, <1>8, <1>9, CoverageInv,
             CoverageGrants

LEMMA CoverageRefresh ==
  ASSUME BackendHolds, RefreshTagsInv, CoverageInv, GrantRefresh
  PROVE  CoverageInv'
<1> DEFINE h == Head(ref_fifo)
<1>1. /\ RunRefresh /\ write_issued(h, 0, "REF")
      /\ UNCHANGED <<rsp_samples, orphan_responses>>
  BY DEF GrantRefresh, sbVars
<1>2. dev' = dev \cup {h} /\ UNCHANGED <<tag, inflight, epoch>>
  BY <1>1, GrantRefreshFacts
<1>3. h \in RefTags /\ (epoch = 0 => h \notin dev)
  BY <1>1, TagsGrantRefresh
<1>4. \A d \in inflight' : /\ d \in inflight /\ tag'[d] = tag[d]
                           /\ tag[d] # h /\ tag[d] \in dev
  BY <1>2, <1>3, HeldTags DEF RefTags
<1>5. epoch \in Nat BY DEF RefreshTagsInv
<1> HIDE DEF CoverageInv, h
<1> QED BY ONLY <1>1, <1>2, <1>3, <1>4, <1>5, CoverageInv, CoverageGrants

LEMMA CoverageAnswer ==
  ASSUME BackendHolds, RefreshTagsInv, CoverageInv, NEW t, DeviceAnswer(t)
  PROVE  CoverageInv'
<1>1. /\ Respond(t) /\ write_dram_rsp(t) /\ UNCHANGED issued_samples
  BY DEF DeviceAnswer
<1>2. /\ t \in dev /\ dev' = dev \ {t}
      /\ UNCHANGED <<tag, epoch>>
      /\ inflight' \subseteq inflight /\ \A d \in inflight' : tag[d] # t
  <2>1. /\ t \in dev /\ dev' = dev \ {t} /\ UNCHANGED <<tag, epoch>>
        /\ \/ UNCHANGED inflight /\ \A c \in inflight : tag[c] # t
           \/ \E c \in inflight : tag[c] = t /\ inflight' = inflight \ {c}
    BY <1>1, AnswerFacts
  <2>2. \A c, d \in inflight : tag[c] = tag[d] => c = d BY PartsOfBackend
  <2> QED BY <2>1, <2>2
<1>3. t \in DOMAIN cov_inflight
  BY <1>2 DEF CoverageInv, CoverageJoins
<1>4. /\ rsp_samples' = rsp_samples + 1 /\ UNCHANGED orphan_responses
      /\ cov_inflight' =
           [u \in DOMAIN cov_inflight \ {t} |-> cov_inflight[u]]
  BY <1>1, <1>3 DEF write_dram_rsp
<1>5. CoverageJoins'
  <2>1. dev' \subseteq DOMAIN cov_inflight'
    BY <1>2, <1>4 DEF CoverageInv, CoverageJoins
  <2>2. ASSUME NEW d \in inflight' PROVE cov_inflight'[tag'[d]] = d.n
    <3>1. tag[d] \in DOMAIN cov_inflight \ {t} /\ cov_inflight[tag[d]] = d.n
      BY <1>2, HeldTags DEF CoverageInv, CoverageJoins
    <3> QED BY <1>2, <1>4, <3>1
  <2> QED BY <1>4, <2>1, <2>2 DEF CoverageInv, CoverageJoins
<1>6. ASSUME epoch = 0
      PROVE  /\ DOMAIN cov_inflight' = dev' /\ IsFiniteSet(dev')
             /\ issued_samples' = rsp_samples' + Cardinality(dev')
  <2>1. /\ DOMAIN cov_inflight = dev /\ IsFiniteSet(dev)
        /\ issued_samples = rsp_samples + Cardinality(dev)
    BY <1>6 DEF CoverageInv
  <2>2. /\ IsFiniteSet(dev')
        /\ Cardinality(dev') = Cardinality(dev) - 1
    BY <1>2, <2>1, FS_RemoveElement
  <2>3. Cardinality(dev) \in Nat BY <2>1, FS_CardinalityType
  <2> QED BY <1>1, <1>2, <1>4, <2>1, <2>2, <2>3 DEF CoverageInv
<1> QED BY <1>1, <1>2, <1>4, <1>5, <1>6 DEF CoverageInv

(* What the collector's table is not told of leaves it right.              *)
LEMMA CoverageKept ==
  ASSUME BackendHolds, RefreshTagsInv, CoverageInv,
         Unseen \/ AssertReset,
         UNCHANGED <<cov_inflight, issued_samples, rsp_samples,
                     orphan_responses>>
  PROVE  CoverageInv'
<1>1. CASE AssertReset
  <2>1. inflight' = {} /\ epoch' = epoch + 1 /\ UNCHANGED <<dev, tag>>
    BY <1>1, ResetFacts
  <2>2. epoch' # 0 BY <2>1 DEF RefreshTagsInv
  <2> QED BY <2>1, <2>2 DEF CoverageInv, CoverageJoins
<1>2. CASE Unseen
  <2>1. /\ UNCHANGED <<inflight, tag, epoch>>
        /\ dev' = dev \/ (dev' = {} /\ rst = "draining")
    BY <1>2 DEF Unseen
  <2>2. epoch = 0 => dev' = dev BY <2>1 DEF RefreshTagsInv
  <2> QED BY <2>1, <2>2 DEF CoverageInv, CoverageJoins
<1> QED BY <1>1, <1>2

-----------------------------------------------------------------------------
(* Sequences of responses, and the order of acceptance.                    *)

LEMMA Joined ==
  ASSUME NEW T, NEW b \in Seq(T), NEW e \in Seq(T), NEW r, r = b \o e
  PROVE  /\ r \in Seq(T) /\ Len(b) \in Nat
         /\ \A i \in DOMAIN b : /\ i \in Nat /\ i < Len(b) + 1
                                /\ i \in DOMAIN r /\ r[i] = b[i]
         /\ \A j \in DOMAIN e : j \in Nat /\ j > 0 /\ Len(b) + j \in DOMAIN r
                                /\ r[Len(b) + j] = e[j]
         /\ \A i \in DOMAIN r :
              \/ i \in DOMAIN b /\ r[i] = b[i]
              \/ \E j \in DOMAIN e : i = Len(b) + j /\ r[i] = e[j]
<1> DEFINE m == Len(b)
           k == Len(e)
<1>1. /\ m \in Nat /\ k \in Nat /\ DOMAIN b = 1 .. m /\ DOMAIN e = 1 .. k
      /\ r \in Seq(T) /\ DOMAIN r = 1 .. m + k
      /\ \A i \in 1 .. m + k : r[i] = IF i <= m THEN b[i] ELSE e[i - m]
  OBVIOUS
<1> HIDE DEF m, k
<1>2. \A i \in 1 .. m + k : i <= m => i \in 1 .. m BY <1>1
<1>3. \A j \in 1 .. k : /\ j \in Nat /\ j > 0 /\ m + j \in 1 .. m + k
                        /\ ~(m + j <= m) /\ (m + j) - m = j
  BY <1>1
<1>4. \A i \in 1 .. m + k : ~(i <= m) => /\ i - m \in 1 .. k
                                         /\ i = m + (i - m)
  BY <1>1
<1>5. \A i \in 1 .. m : i \in Nat /\ i < m + 1 /\ i <= m /\ i \in 1 .. m + k
  BY <1>1
<1>6. \A i \in DOMAIN b : /\ i \in Nat /\ i < m + 1
                          /\ i \in DOMAIN r /\ r[i] = b[i]
  BY <1>1, <1>5
<1>7. \A j \in DOMAIN e : /\ j \in Nat /\ j > 0 /\ m + j \in DOMAIN r
                          /\ r[m + j] = e[j]
  BY <1>1, <1>3
<1>8. ASSUME NEW i \in DOMAIN r
      PROVE  \/ i \in DOMAIN b /\ r[i] = b[i]
             \/ \E j \in DOMAIN e : i = m + j /\ r[i] = e[j]
  <2>1. CASE i <= m BY <1>1, <1>2, <2>1
  <2>2. CASE ~(i <= m)
    <3>1. i - m \in DOMAIN e /\ i = m + (i - m) /\ r[i] = e[i - m]
      BY <1>1, <1>4, <2>2
    <3> QED BY <3>1
  <2> QED BY <2>1, <2>2
<1> QED BY <1>1, <1>6, <1>7, <1>8 DEF m

LEMMA AppendJoins ==
  ASSUME NEW T, NEW b \in Seq(T), NEW x \in T
  PROVE  Append(b, x) = b \o <<x>> /\ <<x>> \in Seq(T)
OBVIOUS

LEMMA SeenHead ==
  ASSUME NEW T, NEW b \in Seq(T), b # <<>>
  PROVE  /\ Head(b) = b[1] /\ 1 \in DOMAIN b /\ Head(b) \in T
         /\ Tail(b) \in Seq(T)
         /\ \A i \in DOMAIN Tail(b) :
              i \in Nat \ {0} /\ i + 1 \in DOMAIN b /\ Tail(b)[i] = b[i + 1]
         /\ \A i \in DOMAIN b : i \in Nat /\ (i # 1 =>
              i - 1 \in DOMAIN Tail(b) /\ Tail(b)[i - 1] = b[i])
OBVIOUS

(* A sequence of a finite set in the order of acceptance lists the set.    *)
LEMMA AcceptedLists ==
  ASSUME NEW S, IsFiniteSet(S), S \subseteq Cmd, arrival \in [Cmd -> Nat],
         NEW q \in Accepted(S)
  PROVE  /\ q \in Seq(S) /\ Len(q) = Cardinality(S)
         /\ \A i, j \in DOMAIN q : q[i] = q[j] => i = j
         /\ \A c \in S : \E i \in DOMAIN q : q[i] = c
<1> DEFINE k == Cardinality(S)
<1>1. k \in Nat BY FS_CardinalityType
<1>2. /\ q \in [1 .. k -> S]
      /\ \A i, j \in DOMAIN q : i < j => arrival[q[i]] < arrival[q[j]]
  BY DEF Accepted
<1> HIDE DEF k
<1>3. q \in Seq(S) /\ Len(q) = k BY <1>1, <1>2
<1>4. ASSUME NEW i \in 1 .. k, NEW j \in 1 .. k, q[i] = q[j] PROVE i = j
  <2>1. arrival[q[i]] \in Nat BY <1>2
  <2>2. i \in DOMAIN q /\ j \in DOMAIN q BY <1>2
  <2>3. ~(i < j) /\ ~(j < i) BY <1>2, <1>4, <2>1, <2>2
  <2> QED BY <1>1, <2>3
<1>5. IsFiniteSet(1 .. k) /\ Cardinality(1 .. k) = k BY <1>1, FS_Interval
<1>6. q \in Injection(1 .. k, S)
  <2>1. \A i, j \in DOMAIN q : q[i] = q[j] => i = j BY <1>2, <1>4
  <2> QED BY <1>2, <2>1, Zenon DEF Injection, IsInjective
<1>7. q \in Surjection(1 .. k, S) BY <1>5, <1>6, FS_Injection DEF k
<1>8. \A c \in S : \E i \in 1 .. k : q[i] = c BY <1>7 DEF Surjection
<1> QED BY <1>2, <1>3, <1>4, <1>8 DEF k

(* The writes merged into one are finitely many.                           *)
LEMMA GroupFinite ==
  ASSUME BackendHolds, NEW c \in Pending
  PROVE  /\ IsFiniteSet(Group(c)) /\ Group(c) \subseteq Cmd
         /\ arrival \in [Cmd -> Nat]
<1> DEFINE G == Group(c)
           f == [d \in G |-> arrival[d]]
<1>1. G \subseteq allPending BY DEF allPending
<1>2. \A d \in G : d \in Cmd /\ arrival[d] # 0
  BY <1>1, PendingArrived DEF BackendHolds, PortInv
<1>3. /\ arrival \in [Cmd -> Nat] /\ arrivals \in Nat
      /\ \A d \in Cmd : arrival[d] <= arrivals
      /\ \A d, e \in Cmd : arrival[d] = arrival[e] /\ arrival[d] # 0 => d = e
  BY DEF BackendHolds, PortInv, IInv, TypeOK, ArrivalsFresh
<1> HIDE DEF G
<1>4. f \in [G -> 1 .. arrivals] BY <1>2, <1>3
<1>5. \A d, e \in DOMAIN f : f[d] = f[e] => d = e BY <1>2, <1>3
<1>6. f \in Injection(G, 1 .. arrivals)
  <2> HIDE DEF f
  <2>1. \A d, e \in G : f[d] = f[e] => d = e BY <1>4, <1>5
  <2> QED BY <1>4, <1>5, <2>1, Zenon DEF Injection, IsInjective
<1>7. IsFiniteSet(1 .. arrivals) BY <1>3, FS_Interval
<1>8. IsFiniteSet(G) BY <1>6, <1>7, FS_Injection
<1> QED BY <1>2, <1>3, <1>8 DEF G

-----------------------------------------------------------------------------
(* The responses on their way.                                             *)

LEMMA LocalsApart == Cmd \cap LocalCmd = {}
<1> SUFFICES ASSUME NEW c \in Cmd, c \in LocalCmd PROVE FALSE OBVIOUS
<1>1. c \in Entry BY CmdAssumption
<1>2. "qos" \in DOMAIN c BY <1>1 DEF Entry
<1>3. c \in LocalEntry BY ObserversAssumption
<1>4. "qos" \notin DOMAIN c BY <1>3 DEF LocalEntry
<1> QED BY <1>2, <1>4

LEMMA NumbersTell ==
  /\ \A c, d \in Cmd \cup LocalCmd : c.n = d.n => c = d
  /\ \A c \in Cmd \cup LocalCmd : c.n \in Nat
  /\ \A l \in LocalCmd : l.resp \in {"OKAY", "SLVERR", "DECERR"}
  /\ \A s \in Stream : s \in BusStream
  /\ \A l \in LocalCmd : stream_key(l) \in BusStream
<1>1. \A c \in Cmd : c.n \in Nat BY CmdAssumption DEF Entry
<1>2. \A l \in LocalCmd :
        l.n \in Nat /\ l.resp \in {"OKAY", "SLVERR", "DECERR"}
  BY ObserversAssumption DEF LocalEntry
<1> QED BY <1>1, <1>2, ObserversAssumption DEF BusStream

(* A response carries the number of a command handed back or rejected, of  *)
(* the stream it is on.                                                    *)
LEMMA ResponseOf ==
  ASSUME BackendHolds, BusInv, NEW s \in BusStream, NEW n \in OnBus(s)
  PROVE  \/ \E c \in served : c \in Cmd /\ c.n = n /\ stream_key(c) = s
         \/ \E l \in rejected : l \in LocalCmd /\ l.n = n /\ stream_key(l) = s
<1>1. PICK i \in DOMAIN bus[s] : n = bus[s][i].n BY DEF OnBus
<1>2. IsResponse(bus[s][i], s) BY <1>1 DEF BusInv
<1>3. served \subseteq Cmd /\ rejected \subseteq LocalCmd
  BY PartsOfBackend DEF BusInv
<1> DEFINE r == bus[s][i]
<1>4. RespondsTo(r, s, served, rejected) /\ r.n = n
  BY <1>1, <1>2 DEF IsResponse
<1> HIDE DEF r
<1>5. CASE \E c \in served :
             stream_key(c) = s /\ r = [n |-> c.n, resp |-> "OKAY"]
  BY <1>3, <1>4, <1>5
<1>6. CASE \E l \in rejected :
             stream_key(l) = s /\ r = [n |-> l.n, resp |-> l.resp]
  BY <1>3, <1>4, <1>6
<1> QED BY <1>4, <1>5, <1>6 DEF RespondsTo

(* What was not handed back shows no response.                             *)
LEMMA NotAnswered ==
  ASSUME BackendHolds, BusInv
  PROVE  /\ \A c \in Cmd : c \notin served => c.n \notin BusNumbers
         /\ \A l \in LocalCmd : l \notin rejected => l.n \notin BusNumbers
<1>0. served \subseteq Cmd BY PartsOfBackend
<1>1. ASSUME NEW c \in Cmd \cup LocalCmd, c \notin served, c \notin rejected
      PROVE  c.n \notin BusNumbers
  <2> SUFFICES ASSUME NEW s \in BusStream, c.n \in OnBus(s) PROVE FALSE
    BY DEF BusNumbers
  <2> QED BY <1>1, ResponseOf, NumbersTell
<1>2. rejected \subseteq LocalCmd BY DEF BusInv
<1> QED BY <1>0, <1>1, <1>2, LocalsApart

(* A number is on one bus only.                                            *)
LEMMA OneBus ==
  ASSUME BackendHolds, BusInv, NEW s \in BusStream, NEW u \in BusStream,
         NEW n \in OnBus(s), n \in OnBus(u)
  PROVE  s = u
BY ResponseOf, NumbersTell

LEMMA BusStarts ==
  ASSUME ObsInit
  PROVE  BusInv /\ BusNumbers = {}
<1>1. bus = [s \in BusStream |-> <<>>] /\ rejected = {} BY DEF ObsInit
<1>2. \A s \in BusStream : bus[s] = <<>> BY <1>1
<1>3. \A s \in BusStream : OnBus(s) = {} BY <1>2 DEF OnBus
<1>4. BusNumbers = {} BY <1>3 DEF BusNumbers
<1>5. bus \in [BusStream -> Seq(Response)] BY <1>1
<1>6. IsFiniteSet({}) BY FS_EmptySet
<1>7. \A s \in BusStream : DOMAIN bus[s] = {} BY <1>2
<1> QED BY <1>1, <1>4, <1>5, <1>6, <1>7 DEF BusInv

(* A bus with the responses e at its end.                                  *)
BusWith(s, e) == [bus EXCEPT ![s] = @ \o e]
Numbers(e) == {e[i].n : i \in DOMAIN e}

LEMMA NumbersFinite ==
  ASSUME NEW e \in Seq(Response)
  PROVE  IsFiniteSet(Numbers(e))
<1> DEFINE f == [i \in 1 .. Len(e) |-> e[i].n]
<1>1. Len(e) \in Nat /\ DOMAIN e = 1 .. Len(e) OBVIOUS
<1>2. f \in [1 .. Len(e) -> Numbers(e)] BY <1>1 DEF Numbers
<1>3. \A n \in Numbers(e) : \E i \in 1 .. Len(e) : f[i] = n
  BY <1>1 DEF Numbers
<1> HIDE DEF f
<1>4. f \in Surjection(1 .. Len(e), Numbers(e))
  BY <1>2, <1>3, Zenon DEF Surjection
<1>5. IsFiniteSet(1 .. Len(e)) BY <1>1, FS_Interval
<1> QED BY <1>4, <1>5, FS_Surjection

LEMMA BusGrows ==
  ASSUME BackendHolds, BusInv, NEW s \in BusStream, NEW e \in Seq(Response),
         bus' = BusWith(s, e), served \subseteq served',
         rejected \subseteq rejected', rejected' \subseteq LocalCmd,
         IsFiniteSet(rejected'),
         \A i \in DOMAIN e :
           /\ RespondsTo(e[i], s, served', rejected')
           /\ e[i].n \notin BusNumbers
           /\ \A j \in DOMAIN e : e[i].n = e[j].n => i = j
  PROVE  /\ BusInv' /\ BusNumbers' = BusNumbers \cup Numbers(e)
         /\ \A u \in BusStream :
              OnBus(u)' = IF u = s THEN OnBus(s) \cup Numbers(e) ELSE OnBus(u)
<1> DEFINE b == bus[s]
           r == b \o e
<1>1. bus \in [BusStream -> Seq(Response)] BY DEF BusInv
<1>2. b \in Seq(Response) BY <1>1
<1>4. bus' = [bus EXCEPT ![s] = r] BY DEF BusWith
<1>0. r = b \o e OBVIOUS
<1> HIDE DEF r, b
<1>3. /\ r \in Seq(Response)
      /\ \A i \in DOMAIN b : i \in DOMAIN r /\ r[i] = b[i]
      /\ \A j \in DOMAIN e : Len(b) + j \in DOMAIN r /\ r[Len(b) + j] = e[j]
      /\ \A i \in DOMAIN r : \/ i \in DOMAIN b /\ r[i] = b[i]
                             \/ \E j \in DOMAIN e : /\ i = Len(b) + j
                                                    /\ r[i] = e[j]
  <2> HIDE DEF Response
  <2> QED BY ONLY <1>0, <1>2, Joined, e \in Seq(Response)
<1>5. /\ bus' \in [BusStream -> Seq(Response)] /\ bus'[s] = r
      /\ \A u \in BusStream : u # s => bus'[u] = bus[u]
  BY <1>1, <1>3, <1>4
<1>6. ASSUME NEW x, NEW u, IsResponse(x, u)
      PROVE  RespondsTo(x, u, served', rejected')
  BY <1>6 DEF IsResponse, RespondsTo
<1>7. \A i \in DOMAIN b : /\ IsResponse(b[i], s) /\ b[i].n \in BusNumbers
                          /\ \A j \in DOMAIN b : b[i].n = b[j].n => i = j
  BY DEF BusInv, b, BusNumbers, OnBus
<1>8. ASSUME NEW i \in DOMAIN r
      PROVE  /\ RespondsTo(r[i], s, served', rejected')
             /\ \A j \in DOMAIN r : r[i].n = r[j].n => i = j
  <2>1. RespondsTo(r[i], s, served', rejected') BY <1>3, <1>6, <1>7
  <2>2. ASSUME NEW j \in DOMAIN r, r[i].n = r[j].n PROVE i = j
    <3>1. CASE i \in DOMAIN b /\ r[i] = b[i] /\ j \in DOMAIN b /\ r[j] = b[j]
      BY <1>7, <2>2, <3>1
    <3>2. CASE /\ \E k \in DOMAIN e : i = Len(b) + k /\ r[i] = e[k]
               /\ \E k \in DOMAIN e : j = Len(b) + k /\ r[j] = e[k]
      BY <2>2, <3>2
    <3>3. CASE /\ i \in DOMAIN b /\ r[i] = b[i]
               /\ \E k \in DOMAIN e : j = Len(b) + k /\ r[j] = e[k]
      BY <1>7, <2>2, <3>3
    <3>4. CASE /\ j \in DOMAIN b /\ r[j] = b[j]
               /\ \E k \in DOMAIN e : i = Len(b) + k /\ r[i] = e[k]
      BY <1>7, <2>2, <3>4
    <3> QED BY <1>3, <3>1, <3>2, <3>3, <3>4
  <2> QED BY <2>1, <2>2
<1>9. ASSUME NEW u \in BusStream, NEW i \in DOMAIN bus'[u]
      PROVE  /\ RespondsTo(bus'[u][i], u, served', rejected')
             /\ \A j \in DOMAIN bus'[u] : bus'[u][i].n = bus'[u][j].n => i = j
  <2>1. CASE u = s BY <1>5, <1>8, <1>9, <2>1
  <2>2. CASE u # s
    <3>1. bus'[u] = bus[u] BY <1>5, <2>2
    <3>2. /\ IsResponse(bus[u][i], u)
          /\ \A j \in DOMAIN bus[u] : bus[u][i].n = bus[u][j].n => i = j
      BY <1>9, <3>1 DEF BusInv
    <3> QED BY <1>6, <3>1, <3>2
  <2> QED BY <2>1, <2>2
<1>10. OnBus(s)' = OnBus(s) \cup Numbers(e)
  <2>1. OnBus(s)' = {r[i].n : i \in DOMAIN r} BY <1>5 DEF OnBus
  <2>2. OnBus(s) = {b[i].n : i \in DOMAIN b} BY DEF OnBus, b
  <2>3. \A n \in OnBus(s)' : n \in OnBus(s) \cup Numbers(e)
    BY <1>3, <2>1, <2>2 DEF Numbers
  <2>4. \A n \in OnBus(s) : n \in OnBus(s)'
    BY <1>3, <2>1, <2>2
  <2>5. \A n \in Numbers(e) : n \in OnBus(s)'
    BY <1>3, <2>1 DEF Numbers
  <2> QED BY <2>3, <2>4, <2>5
<1>11. \A u \in BusStream :
         OnBus(u)' = IF u = s THEN OnBus(s) \cup Numbers(e) ELSE OnBus(u)
  <2>1. \A u \in BusStream : u # s => OnBus(u)' = OnBus(u)
    BY <1>5 DEF OnBus
  <2> QED BY <1>10, <2>1
<1>12. BusNumbers' = BusNumbers \cup Numbers(e)
  <2>1. BusNumbers' = UNION {OnBus(u)' : u \in BusStream} BY DEF BusNumbers
  <2>2. \A n : n \in BusNumbers' <=> \E u \in BusStream : n \in OnBus(u)'
    BY <2>1
  <2>3. \A n : n \in BusNumbers <=> \E u \in BusStream : n \in OnBus(u)
    BY DEF BusNumbers
  <2> HIDE DEF BusNumbers, OnBus
  <2> QED BY <1>11, <2>2, <2>3
<1>13. IsFiniteSet(BusNumbers')
  BY <1>12, NumbersFinite, FS_Union DEF BusInv
<1>14. BusInv' BY <1>5, <1>9, <1>13 DEF BusInv, IsResponse
<1> QED BY <1>11, <1>12, <1>14

(* The oldest response of a bus is seen.                                   *)
LEMMA BusShrinks ==
  ASSUME BackendHolds, BusInv, NEW s \in BusStream, bus[s] # <<>>,
         bus' = [bus EXCEPT ![s] = Tail(@)], UNCHANGED <<served, rejected>>
  PROVE  /\ BusInv' /\ BusNumbers' = BusNumbers \ {Head(bus[s]).n}
         /\ Head(bus[s]).n \in BusNumbers
         /\ IsResponse(Head(bus[s]), s)
         /\ \A u \in BusStream :
              OnBus(u)' = IF u = s THEN OnBus(s) \ {Head(bus[s]).n}
                                   ELSE OnBus(u)
<1> DEFINE b == bus[s]
           h == Head(b)
           r == Tail(b)
<1>1. bus \in [BusStream -> Seq(Response)] BY DEF BusInv
<1>2. b \in Seq(Response) BY <1>1
<1>3. /\ h = b[1] /\ 1 \in DOMAIN b /\ r \in Seq(Response)
      /\ \A i \in DOMAIN r :
           i \in Nat \ {0} /\ i + 1 \in DOMAIN b /\ r[i] = b[i + 1]
      /\ \A i \in DOMAIN b : i \in Nat /\ (i # 1 =>
           i - 1 \in DOMAIN r /\ r[i - 1] = b[i])
  BY <1>2, SeenHead
<1>4. bus' = [bus EXCEPT ![s] = r] OBVIOUS
<1> HIDE DEF r, b, h
<1>5. /\ bus' \in [BusStream -> Seq(Response)] /\ bus'[s] = r
      /\ \A u \in BusStream : u # s => bus'[u] = bus[u]
  BY <1>1, <1>3, <1>4
<1>6. ASSUME NEW x, NEW u, IsResponse(x, u)
      PROVE  RespondsTo(x, u, served', rejected')
  BY <1>6 DEF IsResponse, RespondsTo
<1>7. \A i \in DOMAIN b : /\ IsResponse(b[i], s) /\ b[i].n \in OnBus(s)
                          /\ \A j \in DOMAIN b : b[i].n = b[j].n => i = j
  BY DEF BusInv, b, OnBus
<1>8. ASSUME NEW i \in DOMAIN r
      PROVE  /\ RespondsTo(r[i], s, served', rejected') /\ r[i].n # h.n
             /\ \A j \in DOMAIN r : r[i].n = r[j].n => i = j
  <2>1. RespondsTo(r[i], s, served', rejected') BY <1>3, <1>6, <1>7
  <2>2. i + 1 # 1 BY <1>3
  <2>3. r[i].n # h.n BY <1>3, <1>7, <2>2
  <2>4. ASSUME NEW j \in DOMAIN r, r[i].n = r[j].n PROVE i = j
    <3>1. i + 1 = j + 1 BY <1>3, <1>7, <2>4
    <3>2. i \in Nat /\ j \in Nat BY <1>3
    <3> QED BY <3>1, <3>2
  <2> QED BY <2>1, <2>3, <2>4
<1>9. ASSUME NEW u \in BusStream, NEW i \in DOMAIN bus'[u]
      PROVE  /\ RespondsTo(bus'[u][i], u, served', rejected')
             /\ \A j \in DOMAIN bus'[u] : bus'[u][i].n = bus'[u][j].n => i = j
  <2>1. CASE u = s BY <1>5, <1>8, <1>9, <2>1
  <2>2. CASE u # s
    <3>1. bus'[u] = bus[u] BY <1>5, <2>2
    <3>2. /\ IsResponse(bus[u][i], u)
          /\ \A j \in DOMAIN bus[u] : bus[u][i].n = bus[u][j].n => i = j
      BY <1>9, <3>1 DEF BusInv
    <3> QED BY <1>6, <3>1, <3>2
  <2> QED BY <2>1, <2>2
<1>10. OnBus(s)' = OnBus(s) \ {h.n}
  <2>1. OnBus(s)' = {r[i].n : i \in DOMAIN r} BY <1>5 DEF OnBus
  <2>2. OnBus(s) = {b[i].n : i \in DOMAIN b} BY DEF OnBus, b
  <2>3. \A n \in OnBus(s)' : n \in OnBus(s) /\ n # h.n
    BY <1>3, <1>8, <2>1, <2>2
  <2>4. ASSUME NEW n \in OnBus(s), n # h.n PROVE n \in OnBus(s)'
    <3>1. PICK i \in DOMAIN b : n = b[i].n BY <2>2
    <3>2. i # 1 BY <1>3, <2>4, <3>1
    <3> QED BY <1>3, <2>1, <3>1, <3>2
  <2> QED BY <2>3, <2>4
<1>11. \A u \in BusStream :
         OnBus(u)' = IF u = s THEN OnBus(s) \ {h.n} ELSE OnBus(u)
  <2>1. \A u \in BusStream : u # s => OnBus(u)' = OnBus(u)
    BY <1>5 DEF OnBus
  <2> QED BY <1>10, <2>1
<1>12. h.n \in OnBus(s) BY <1>3, <1>7
<1>13. BusNumbers' = BusNumbers \ {h.n} /\ h.n \in BusNumbers
  <2>1. BusNumbers' = UNION {OnBus(u)' : u \in BusStream} BY DEF BusNumbers
  <2>2. \A n : n \in BusNumbers' <=> \E u \in BusStream : n \in OnBus(u)'
    BY <2>1
  <2>3. \A n : n \in BusNumbers <=> \E u \in BusStream : n \in OnBus(u)
    BY DEF BusNumbers
  <2>4. \A u \in BusStream : h.n \in OnBus(u) => u = s BY <1>12, OneBus
  <2> HIDE DEF BusNumbers, OnBus
  <2> QED BY <1>11, <1>12, <2>2, <2>3, <2>4
<1>14. IsFiniteSet(BusNumbers')
  BY <1>13, FS_RemoveElement DEF BusInv
<1>15. IsResponse(h, s) BY <1>3, <1>7
<1>16. BusInv' BY <1>5, <1>9, <1>14 DEF BusInv, IsResponse
<1> QED BY <1>11, <1>13, <1>15, <1>16 DEF h, b

NumbersOf(S) == {c.n : c \in S}

LEMMA NumbersCounted ==
  ASSUME NEW S, S \subseteq Cmd, IsFiniteSet(S)
  PROVE  /\ IsFiniteSet(NumbersOf(S))
         /\ Cardinality(NumbersOf(S)) = Cardinality(S)
<1> DEFINE f == [c \in S |-> c.n]
<1>1. f \in [S -> NumbersOf(S)] BY DEF NumbersOf
<1>2. \A n \in NumbersOf(S) : \E c \in S : f[c] = n BY DEF NumbersOf
<1>3. \A c, d \in S : f[c] = f[d] => c = d BY NumbersTell
<1> HIDE DEF f
<1>4. f \in Surjection(S, NumbersOf(S)) BY <1>1, <1>2, Zenon DEF Surjection
<1>5. \A c, d \in DOMAIN f : f[c] = f[d] => c = d BY <1>1, <1>3
<1>6. f \in Injection(S, NumbersOf(S))
  BY <1>1, <1>3, <1>5, Zenon DEF Injection, IsInjective
<1> QED BY <1>4, <1>6, FS_Surjection

(* The responses to the entries of q.                                      *)
Okays(q) == [i \in DOMAIN q |-> [n |-> q[i].n, resp |-> "OKAY"]]

LEMMA OkaysAre ==
  ASSUME NEW S, S \subseteq Cmd, NEW q \in Seq(S)
  PROVE  /\ Okays(q) \in Seq(Response) /\ DOMAIN Okays(q) = DOMAIN q
         /\ \A i \in DOMAIN q : Okays(q)[i] = [n |-> q[i].n, resp |-> "OKAY"]
<1>1. Len(q) \in Nat /\ DOMAIN q = 1 .. Len(q)
      /\ \A i \in DOMAIN q : q[i] \in Cmd
  OBVIOUS
<1>2. \A i \in DOMAIN q : [n |-> q[i].n, resp |-> "OKAY"] \in Response
  BY <1>1, NumbersTell DEF Response
<1>3. Okays(q) \in [1 .. Len(q) -> Response] BY <1>1, <1>2 DEF Okays
<1>4. Okays(q) \in Seq(Response) BY <1>1, <1>3
<1> QED BY <1>1, <1>4 DEF Okays

(* What a bus shows after the answer of the command c.                     *)
Handed(c, e) ==
  /\ c \in inflight /\ e \in Seq(Response) /\ stream_key(c) \in BusStream
  /\ inflight' = inflight \ {c}
  /\ served' = served \cup Group(c)
  /\ Outstanding' = Outstanding \ Group(c)
  /\ c \in Group(c) /\ Group(c) \subseteq Outstanding
  /\ IsFiniteSet(Group(c)) /\ Group(c) \subseteq Cmd
  /\ bus' = BusWith(stream_key(c), e)
  /\ Numbers(e) = NumbersOf(Group(c))
  /\ \A i \in DOMAIN e :
       /\ RespondsTo(e[i], stream_key(c), served', rejected)
       /\ e[i].n \notin BusNumbers
       /\ \A j \in DOMAIN e : e[i].n = e[j].n => i = j

LEMMA AnswerOnBus ==
  ASSUME BackendHolds, BusInv, NEW t, DeviceAnswer(t)
  PROVE  \/ UNCHANGED <<bus, served, inflight, Outstanding>>
         \/ \E c, e : tag[c] = t /\ Handed(c, e)
<1>1. /\ Respond(t)
      /\ \E q \in Accepted(served' \ served) : bus' = Completed(q)
  BY DEF DeviceAnswer
<1>2. PICK q \in Accepted(served' \ served) : bus' = Completed(q) BY <1>1
<1>3. CASE UNCHANGED <<inflight, served, Outstanding>>
  <2>1. served' \ served = {} BY <1>3
  <2>2. DOMAIN q = {} BY <1>2, <2>1, FS_EmptySet DEF Accepted
  <2>3. bus' = [s \in BusStream |-> bus[s]] BY <1>2, <2>2 DEF Completed
  <2>4. UNCHANGED bus BY <2>3 DEF BusInv
  <2> QED BY <1>3, <2>4
<1>4. ASSUME NEW c \in inflight, tag[c] = t, inflight' = inflight \ {c},
             Group(c) \subseteq Outstanding \ served,
             \A d \in Group(c) : d \in Cmd /\ stream_key(d) = stream_key(c),
             served' = served \cup Group(c),
             Outstanding' = Outstanding \ Group(c)
      PROVE  Handed(c, Okays(q))
  <2> DEFINE e == Okays(q)
             G == Group(c)
             k == stream_key(c)
  <2>1. served' \ served = G BY <1>4
  <2>2. c \in G /\ G \subseteq Cmd BY <1>4 DEF Group
  <2>3. IsFiniteSet(G) /\ arrival \in [Cmd -> Nat]
    BY GroupFinite DEF Pending
  <2>4. /\ q \in Seq(G)
        /\ \A i, j \in DOMAIN q : q[i] = q[j] => i = j
        /\ \A d \in G : \E i \in DOMAIN q : q[i] = d
    BY <1>2, <2>1, <2>2, <2>3, AcceptedLists
  <2>5. \A i \in DOMAIN q : q[i] \in G BY <2>4
  <2>6. /\ e \in Seq(Response) /\ DOMAIN e = DOMAIN q
        /\ \A i \in DOMAIN q : e[i] = [n |-> q[i].n, resp |-> "OKAY"]
    BY <2>2, <2>4, OkaysAre
  <2>7. k \in BusStream BY <2>2, NumbersTell DEF Stream
  <2>8. bus' = BusWith(k, e)
    <3>1. bus' = [s \in BusStream |->
                    IF \E i \in DOMAIN q : stream_key(q[i]) = s
                    THEN bus[s] \o e ELSE bus[s]]
      BY <1>2 DEF Completed, Okays
    <3>2. \A i \in DOMAIN q : stream_key(q[i]) = k BY <1>4, <2>5
    <3>3. \E i \in DOMAIN q : TRUE BY <2>2, <2>4
    <3>4. \A s : (\E i \in DOMAIN q : stream_key(q[i]) = s) <=> s = k
      BY <3>2, <3>3
    <3> HIDE DEF e, k
    <3>5. bus' = [s \in BusStream |-> IF s = k THEN bus[s] \o e ELSE bus[s]]
      BY <3>1, <3>4
    <3>6. bus \in [BusStream -> Seq(Response)] BY DEF BusInv
    <3>7. BusWith(k, e) = [s \in BusStream |->
                             IF s = k THEN bus[s] \o e ELSE bus[s]]
      BY <3>6 DEF BusWith
    <3> QED BY <3>5, <3>7
  <2> HIDE DEF e
  <2>9. \A i \in DOMAIN e :
          /\ RespondsTo(e[i], k, served', rejected)
          /\ e[i].n \notin BusNumbers
          /\ \A j \in DOMAIN e : e[i].n = e[j].n => i = j
    <3> SUFFICES ASSUME NEW i \in DOMAIN e
                 PROVE  /\ RespondsTo(e[i], k, served', rejected)
                        /\ e[i].n \notin BusNumbers
                        /\ \A j \in DOMAIN e : e[i].n = e[j].n => i = j
      OBVIOUS
    <3>1. /\ q[i] \in served' /\ stream_key(q[i]) = k
          /\ q[i] \in Cmd /\ q[i] \notin served
      BY <1>4, <2>5, <2>6
    <3>2. RespondsTo(e[i], k, served', rejected)
      BY <2>6, <3>1 DEF RespondsTo
    <3>3. e[i].n = q[i].n /\ \A j \in DOMAIN e : e[j].n = q[j].n BY <2>6
    <3>4. e[i].n \notin BusNumbers BY <3>1, <3>3, NotAnswered
    <3>5. ASSUME NEW j \in DOMAIN e, e[i].n = e[j].n PROVE i = j
      <4>1. q[j] \in Cmd BY <2>2, <2>5, <2>6
      <4>2. q[i] = q[j] BY <3>1, <3>3, <3>5, <4>1, NumbersTell
      <4> QED BY <2>4, <2>6, <4>2
    <3> QED BY <3>2, <3>4, <3>5
  <2>10. Numbers(e) = NumbersOf(G)
    <3>1. \A i \in DOMAIN e : e[i].n = q[i].n BY <2>6
    <3>2. \A n \in Numbers(e) : n \in NumbersOf(G)
      BY <2>5, <2>6, <3>1 DEF Numbers, NumbersOf
    <3>3. \A n \in NumbersOf(G) : n \in Numbers(e)
      BY <2>4, <2>6, <3>1 DEF Numbers, NumbersOf
    <3> QED BY <3>2, <3>3
  <2> HIDE DEF G, k
  <2> QED BY ONLY <1>4, <2>2, <2>3, <2>6, <2>7, <2>8, <2>9, <2>10, Zenon
          DEF Handed, G, k, e
<1>5. \/ UNCHANGED <<inflight, served, Outstanding>>
      \/ \E c \in inflight :
           /\ tag[c] = t /\ inflight' = inflight \ {c}
           /\ Group(c) \subseteq Outstanding \ served
           /\ \A d \in Group(c) : d \in Cmd /\ stream_key(d) = stream_key(c)
           /\ served' = served \cup Group(c)
           /\ Outstanding' = Outstanding \ Group(c)
  BY <1>1, AnswerFacts
<1>6. ASSUME NEW c \in inflight,
             /\ tag[c] = t /\ inflight' = inflight \ {c}
             /\ Group(c) \subseteq Outstanding \ served
             /\ \A d \in Group(c) : d \in Cmd /\ stream_key(d) = stream_key(c)
             /\ served' = served \cup Group(c)
             /\ Outstanding' = Outstanding \ Group(c)
      PROVE  \E d, e : tag[d] = t /\ Handed(d, e)
  <2>1. Handed(c, Okays(q)) BY <1>4, <1>6
  <2> QED BY <1>6, <2>1
<1> QED BY <1>3, <1>5, <1>6

LEMMA BusHanded ==
  ASSUME BackendHolds, BusInv, UNCHANGED rejected, NEW c, NEW e, Handed(c, e)
  PROVE  /\ BusInv' /\ BusNumbers' = BusNumbers \cup NumbersOf(Group(c))
         /\ \A n \in NumbersOf(Group(c)) : n \notin BusNumbers
         /\ \A u \in BusStream :
              OnBus(u)' = IF u = stream_key(c)
                          THEN OnBus(u) \cup NumbersOf(Group(c)) ELSE OnBus(u)
<1> DEFINE k == stream_key(c)
<1>1. /\ k \in BusStream /\ e \in Seq(Response) /\ bus' = BusWith(k, e)
      /\ served \subseteq served'
      /\ Numbers(e) = NumbersOf(Group(c))
      /\ \A i \in DOMAIN e :
           /\ RespondsTo(e[i], k, served', rejected')
           /\ e[i].n \notin BusNumbers
           /\ \A j \in DOMAIN e : e[i].n = e[j].n => i = j
  BY DEF Handed
<1>2. /\ rejected \subseteq rejected' /\ rejected' \subseteq LocalCmd
      /\ IsFiniteSet(rejected')
  BY DEF BusInv
<1>3. \A n \in Numbers(e) : n \notin BusNumbers BY <1>1 DEF Numbers
<1> HIDE DEF k
<1>4. /\ BusInv' /\ BusNumbers' = BusNumbers \cup Numbers(e)
      /\ \A u \in BusStream :
           OnBus(u)' = IF u = k THEN OnBus(k) \cup Numbers(e) ELSE OnBus(u)
  BY ONLY <1>1, <1>2, BackendHolds, BusInv, BusGrows DEF IsResponse
<1> QED BY <1>1, <1>3, <1>4 DEF k

LEMMA BusLocal ==
  ASSUME BackendHolds, BusInv, NEW l \in LocalCmd, Local(l)
  PROVE  /\ BusInv' /\ BusNumbers' = BusNumbers \cup {l.n}
         /\ l.n \notin BusNumbers
         /\ \A u \in BusStream :
              OnBus(u)' = IF u = stream_key(l) THEN OnBus(u) \cup {l.n}
                                               ELSE OnBus(u)
<1> DEFINE x == [n |-> l.n, resp |-> l.resp]
           e == <<x>>
           k == stream_key(l)
<1>1. /\ l \notin rejected /\ rejected' = rejected \cup {l}
      /\ bus' = [bus EXCEPT ![k] = Append(@, x)] /\ UNCHANGED served
  BY DEF Local, vars
<1>2. k \in BusStream BY NumbersTell
<1>3. x \in Response BY NumbersTell DEF Response
<1>4. x.n = l.n /\ RespondsTo(x, k, served', rejected')
  BY <1>1 DEF RespondsTo
<1>5. l.n \notin BusNumbers BY <1>1, NotAnswered
<1> HIDE DEF x, k
<1>6. bus \in [BusStream -> Seq(Response)] BY DEF BusInv
<1>7. Append(bus[k], x) = bus[k] \o e /\ e \in Seq(Response)
  <2>1. bus[k] \in Seq(Response) BY <1>2, <1>6
  <2> HIDE DEF Response
  <2> QED BY <1>3, <2>1, AppendJoins
<1>8. bus' = BusWith(k, e) BY <1>1, <1>2, <1>6, <1>7 DEF BusWith
<1>9. DOMAIN e = {1} /\ e[1] = x OBVIOUS
<1> HIDE DEF e
<1>10. Numbers(e) = {l.n} BY <1>4, <1>9 DEF Numbers
<1>11. \A i \in DOMAIN e :
         /\ RespondsTo(e[i], k, served', rejected') /\ e[i].n \notin BusNumbers
         /\ \A j \in DOMAIN e : e[i].n = e[j].n => i = j
  BY <1>4, <1>5, <1>9
<1>12. /\ rejected \subseteq rejected' /\ rejected' \subseteq LocalCmd
       /\ IsFiniteSet(rejected') /\ served \subseteq served'
  BY <1>1, FS_AddElement DEF BusInv
<1>13. /\ BusInv' /\ BusNumbers' = BusNumbers \cup Numbers(e)
       /\ \A u \in BusStream :
            OnBus(u)' = IF u = k THEN OnBus(k) \cup Numbers(e) ELSE OnBus(u)
  BY ONLY <1>2, <1>7, <1>8, <1>11, <1>12, BackendHolds, BusInv, BusGrows
     DEF IsResponse
<1> QED BY <1>5, <1>10, <1>13 DEF k

(* Every other step leaves the buses alone, or a reset empties them.       *)
LEMMA BusReset ==
  ASSUME BusInv, bus' = [s \in BusStream |-> <<>>], UNCHANGED rejected
  PROVE  BusInv'
<1>1. \A s \in BusStream : bus'[s] = <<>> OBVIOUS
<1>2. \A s \in BusStream : OnBus(s)' = {} BY <1>1 DEF OnBus
<1>3. BusNumbers' = {} BY <1>2 DEF BusNumbers
<1>4. bus' \in [BusStream -> Seq(Response)] OBVIOUS
<1>5. IsFiniteSet({}) BY FS_EmptySet
<1>6. \A s \in BusStream : DOMAIN bus'[s] = {} BY <1>1
<1> QED BY <1>3, <1>4, <1>5, <1>6 DEF BusInv

LEMMA BusKept ==
  ASSUME BusInv, UNCHANGED <<bus, rejected, served>>
  PROVE  /\ BusInv' /\ UNCHANGED BusNumbers
         /\ \A s : UNCHANGED OnBus(s)
<1>1. \A s : OnBus(s)' = OnBus(s) BY DEF OnBus
<1>2. BusNumbers' = BusNumbers BY <1>1 DEF BusNumbers
<1> QED BY <1>1, <1>2 DEF BusInv, IsResponse

LEMMA SamplesInit ==
  ASSUME ObsInit
  PROVE  SamplesInv
<1>1. resp_samples = 0 /\ rejected = {} /\ Init BY DEF ObsInit
<1>2. submits = 0 /\ fe_fifo = [p \in Port |-> <<>>] /\ queued = {}
      /\ inflight = {}
  BY <1>1 DEF Init, QueueInit, ArbInit
<1>3. Outstanding = {} BY <1>2 DEF Outstanding, Buffered, Pending
<1>4. BusNumbers = {} BY BusStarts
<1>5. IsFiniteSet({}) /\ Cardinality({}) = 0 BY FS_EmptySet
<1> QED BY <1>1, <1>2, <1>3, <1>4, <1>5 DEF SamplesInv

LEMMA SamplesSame ==
  ASSUME SamplesInv,
         UNCHANGED <<resp_samples, submits, rejected, epoch, BusNumbers,
                     Outstanding>>
  PROVE  SamplesInv'
BY DEF SamplesInv

LEMMA SamplesAnswer ==
  ASSUME BackendHolds, BusInv, SamplesInv,
         UNCHANGED <<resp_samples, submits, rejected, epoch>>,
         NEW c, NEW e, Handed(c, e)
  PROVE  SamplesInv'
<1> DEFINE G == Group(c)
           m == NumbersOf(G)
<1>1. BusNumbers' = BusNumbers \cup m /\ \A n \in m : n \notin BusNumbers
  BY BusHanded
<1>2. /\ IsFiniteSet(G) /\ G \subseteq Outstanding /\ G \subseteq Cmd
      /\ Outstanding' = Outstanding \ G
  BY DEF Handed
<1> HIDE DEF G
<1>3. IsFiniteSet(m) /\ Cardinality(m) = Cardinality(G)
  BY <1>2, NumbersCounted
<1> HIDE DEF m
<1>4. IsFiniteSet(BusNumbers) BY DEF BusInv
<1>5. BusNumbers \cap m = {} BY <1>1
<1>6. /\ IsFiniteSet(BusNumbers')
      /\ Cardinality(BusNumbers') =
           Cardinality(BusNumbers) + Cardinality(m) - Cardinality({})
  BY <1>1, <1>3, <1>4, <1>5, FS_Union
<1>7. Cardinality({}) = 0 BY FS_EmptySet
<1>8. /\ Cardinality(BusNumbers) \in Nat /\ Cardinality(G) \in Nat
  BY <1>2, <1>4, FS_CardinalityType
<1>9. ASSUME epoch = 0
      PROVE  /\ IsFiniteSet(Outstanding')
             /\ resp_samples + Cardinality(BusNumbers')
                  + Cardinality(Outstanding') = submits + Cardinality(rejected)
  <2>1. /\ IsFiniteSet(Outstanding) /\ resp_samples \in Nat
        /\ resp_samples + Cardinality(BusNumbers) + Cardinality(Outstanding)
             = submits + Cardinality(rejected)
    BY <1>9 DEF SamplesInv
  <2>2. Outstanding \cap G = G BY <1>2
  <2>3. /\ IsFiniteSet(Outstanding')
        /\ Cardinality(Outstanding') =
             Cardinality(Outstanding) - Cardinality(G)
    BY <1>2, <2>1, <2>2, FS_Difference
  <2>4. Cardinality(Outstanding) \in Nat BY <2>1, FS_CardinalityType
  <2> QED BY <1>3, <1>6, <1>7, <1>8, <2>1, <2>3, <2>4
<1> QED BY <1>9 DEF SamplesInv

LEMMA SamplesLocal ==
  ASSUME BackendHolds, BusInv, SamplesInv, NEW l \in LocalCmd, Local(l)
  PROVE  SamplesInv'
<1>1. /\ l \notin rejected /\ rejected' = rejected \cup {l}
      /\ UNCHANGED <<resp_samples, submits, epoch, fe_fifo, queued, inflight,
                     merged_writes>>
  BY DEF Local, vars, covVars, submitVars, queueState, resetVars, arbVars,
         queueVars, inflightVars, mergeVars
<1>2. UNCHANGED Outstanding
  BY <1>1 DEF Outstanding, Buffered, Group, Pending
<1>3. BusNumbers' = BusNumbers \cup {l.n} /\ l.n \notin BusNumbers
  BY BusLocal
<1>4. IsFiniteSet(BusNumbers) /\ IsFiniteSet(rejected) BY DEF BusInv
<1>5. /\ Cardinality(BusNumbers') = Cardinality(BusNumbers) + 1
      /\ Cardinality(rejected') = Cardinality(rejected) + 1
  BY <1>1, <1>3, <1>4, FS_AddElement
<1>6. /\ Cardinality(BusNumbers) \in Nat /\ Cardinality(rejected) \in Nat
      /\ submits \in Nat
  BY <1>4, FS_CardinalityType DEF BackendHolds, PortInv, RanksFresh
<1>7. IsFiniteSet(Outstanding) => Cardinality(Outstanding) \in Nat
  BY FS_CardinalityType
<1> HIDE DEF Outstanding, BusNumbers
<1> QED BY <1>1, <1>2, <1>5, <1>6, <1>7 DEF SamplesInv

LEMMA SamplesObserve ==
  ASSUME BackendHolds, BusInv, SamplesInv, NEW s \in BusStream, Observe(s)
  PROVE  SamplesInv' /\ BusInv'
<1>1. /\ bus[s] # <<>> /\ bus' = [bus EXCEPT ![s] = Tail(@)]
      /\ resp_samples' = resp_samples + 1
      /\ UNCHANGED <<rejected, submits, epoch, fe_fifo, queued, inflight,
                     merged_writes, served>>
  BY DEF Observe, sample_response, vars, submitVars, queueState, resetVars,
         arbVars, queueVars, inflightVars, mergeVars
<1>2. UNCHANGED Outstanding
  BY <1>1 DEF Outstanding, Buffered, Group, Pending
<1> DEFINE h == Head(bus[s]).n
<1>3. BusInv' /\ BusNumbers' = BusNumbers \ {h} /\ h \in BusNumbers
  BY <1>1, BusShrinks
<1> HIDE DEF h
<1>4. IsFiniteSet(BusNumbers) BY DEF BusInv
<1>5. Cardinality(BusNumbers') = Cardinality(BusNumbers) - 1
  BY <1>3, <1>4, FS_RemoveElement
<1>6. Cardinality(BusNumbers) \in Nat BY <1>4, FS_CardinalityType
<1>7. IsFiniteSet(Outstanding) => Cardinality(Outstanding) \in Nat
  BY FS_CardinalityType
<1> HIDE DEF Outstanding, BusNumbers
<1>8. SamplesInv' BY <1>1, <1>2, <1>5, <1>6, <1>7 DEF SamplesInv
<1> QED BY <1>3, <1>8

LEMMA SamplesUnseen ==
  ASSUME BackendHolds, BusInv, SamplesInv, Unseen,
         UNCHANGED <<bus, rejected, resp_samples>>
  PROVE  SamplesInv'
<1>1. UNCHANGED <<served, epoch>> BY DEF Unseen
<1>2. UNCHANGED BusNumbers BY <1>1, BusKept
<1>3. CASE UNCHANGED <<submits, Outstanding>>
  BY <1>1, <1>2, <1>3, SamplesSame
<1>4. ASSUME NEW c \in Cmd, c \notin Outstanding,
             Outstanding' = Outstanding \cup {c}, submits' = submits + 1
      PROVE  SamplesInv'
  <2> HIDE DEF Outstanding, BusNumbers
  <2>1. IsFiniteSet(Outstanding) =>
          /\ Cardinality(Outstanding) \in Nat
          /\ IsFiniteSet(Outstanding')
          /\ Cardinality(Outstanding') = Cardinality(Outstanding) + 1
    BY <1>4, FS_CardinalityType, FS_AddElement
  <2>2. /\ IsFiniteSet(BusNumbers) /\ IsFiniteSet(rejected) BY DEF BusInv
  <2>3. /\ Cardinality(BusNumbers) \in Nat /\ Cardinality(rejected) \in Nat
        /\ submits \in Nat
    BY <2>2, FS_CardinalityType DEF BackendHolds, PortInv, RanksFresh
  <2> QED BY <1>1, <1>2, <1>4, <2>1, <2>3 DEF SamplesInv
<1> QED BY <1>3, <1>4 DEF Unseen

-----------------------------------------------------------------------------
(* What the collector's exactness rests on.                                *)
CollectorInv ==
  BackendHolds /\ RefreshTagsInv /\ CoverageInv /\ BusInv /\ SamplesInv

LEMMA CollectorStarts == ObsInit => CollectorInv
BY BackendStarts, TagsInit, CoverageInit, BusStarts, SamplesInit
   DEF CollectorInv

LEMMA CollectorStep ==
  ASSUME CollectorInv, [ObsNext]_allVars
  PROVE  CollectorInv'
<1> USE DEF CollectorInv
<1>0. BackendHolds' BY ObservedBackend
<1>1. ASSUME NEW c \in queued, GrantCommand(c) PROVE CollectorInv'
  <2>1. /\ RunIssue(c) /\ ~c.pre /\ UNCHANGED <<bus, rejected, resp_samples>>
    BY <1>1 DEF GrantCommand
  <2>2. UNCHANGED <<served, submits, epoch, Outstanding>> BY <2>1, GrantFacts
  <2>3. RefreshTagsInv' BY <2>1, TagsGrant
  <2>4. CoverageInv' BY <1>1, CoverageGrant
  <2>5. BusInv' /\ UNCHANGED BusNumbers BY <2>1, <2>2, BusKept
  <2>6. SamplesInv' BY <2>1, <2>2, <2>5, SamplesSame
  <2> QED BY <1>0, <2>3, <2>4, <2>5, <2>6
<1>2. CASE GrantRefresh
  <2>1. RunRefresh /\ UNCHANGED <<bus, rejected, resp_samples>>
    BY <1>2 DEF GrantRefresh
  <2>2. UNCHANGED <<served, submits, epoch, Outstanding>>
    BY <2>1, GrantRefreshFacts
  <2>3. RefreshTagsInv' BY <2>1, TagsGrantRefresh
  <2>4. CoverageInv' BY <1>2, CoverageRefresh
  <2>5. BusInv' /\ UNCHANGED BusNumbers BY <2>1, <2>2, BusKept
  <2>6. SamplesInv' BY <2>1, <2>2, <2>5, SamplesSame
  <2> QED BY <1>0, <2>3, <2>4, <2>5, <2>6
<1>3. ASSUME NEW t \in dev, DeviceAnswer(t) PROVE CollectorInv'
  <2>1. Respond(t) /\ UNCHANGED <<rejected, resp_samples>>
    BY <1>3 DEF DeviceAnswer
  <2>2. UNCHANGED <<submits, epoch>> BY <2>1, AnswerFacts
  <2>3. RefreshTagsInv' BY <2>1, TagsOther
  <2>4. CoverageInv' BY <1>3, CoverageAnswer
  <2>5. CASE UNCHANGED <<bus, served, inflight, Outstanding>>
    <3>1. BusInv' /\ UNCHANGED BusNumbers BY <2>1, <2>5, BusKept
    <3>2. SamplesInv' BY <2>1, <2>2, <2>5, <3>1, SamplesSame
    <3> QED BY <1>0, <2>3, <2>4, <3>1, <3>2
  <2>6. ASSUME NEW c, NEW e, Handed(c, e) PROVE CollectorInv'
    <3>1. BusInv' BY <2>1, <2>6, BusHanded
    <3>2. SamplesInv' BY <2>1, <2>2, <2>6, SamplesAnswer
    <3> QED BY <1>0, <2>3, <2>4, <3>1, <3>2
  <2> QED BY <1>3, <2>5, <2>6, AnswerOnBus
<1>4. ASSUME NEW l \in LocalCmd, Local(l) PROVE CollectorInv'
  <2>1. UNCHANGED vars /\ UNCHANGED covVars BY <1>4 DEF Local
  <2>2. Unseen BY <2>1, UnseenSteps
  <2>3. RefreshTagsInv' BY <2>2, TagsOther
  <2>4. CoverageInv' BY <2>1, <2>2, CoverageKept DEF covVars
  <2>5. BusInv' /\ SamplesInv' BY <1>4, BusLocal, SamplesLocal
  <2> QED BY <1>0, <2>3, <2>4, <2>5
<1>5. ASSUME NEW s \in BusStream, Observe(s) PROVE CollectorInv'
  <2>1. /\ UNCHANGED vars
        /\ UNCHANGED <<cov_inflight, issued_samples, rsp_samples,
                       orphan_responses>>
    BY <1>5 DEF Observe
  <2>2. Unseen BY <2>1, UnseenSteps
  <2>3. RefreshTagsInv' BY <2>2, TagsOther
  <2>4. CoverageInv' BY <2>1, <2>2, CoverageKept
  <2>5. BusInv' /\ SamplesInv' BY <1>5, SamplesObserve
  <2> QED BY <1>0, <2>3, <2>4, <2>5
<1>6. CASE Reset
  <2>1. /\ AssertReset /\ bus' = [s \in BusStream |-> <<>>]
        /\ UNCHANGED rejected /\ UNCHANGED covVars
    BY <1>6 DEF Reset
  <2>2. RefreshTagsInv' BY <2>1, TagsOther
  <2>3. CoverageInv' BY <2>1, CoverageKept DEF covVars
  <2>4. BusInv' BY <2>1, BusReset
  <2>5. epoch' = epoch + 1 BY <2>1, ResetFacts
  <2>6. epoch' # 0 BY <2>5 DEF RefreshTagsInv
  <2>7. SamplesInv' BY <2>1, <2>6 DEF SamplesInv, covVars
  <2> QED BY <1>0, <2>2, <2>3, <2>4, <2>7
<1>7. CASE Unobserved \/ UNCHANGED allVars
  <2>1. UNCHANGED obsVars /\ (Unobserved \/ UNCHANGED vars)
    BY <1>7 DEF Unobserved, allVars
  <2>2. UNCHANGED <<bus, rejected, covVars>> BY <2>1 DEF obsVars
  <2>3. Unseen BY <2>1, UnseenSteps
  <2>4. RefreshTagsInv' BY <2>3, TagsOther
  <2>5. CoverageInv' BY <2>2, <2>3, CoverageKept DEF covVars
  <2>6. UNCHANGED served BY <2>3 DEF Unseen
  <2>7. BusInv' BY <2>2, <2>6, BusKept
  <2>8. SamplesInv' BY <2>2, <2>3, SamplesUnseen DEF covVars
  <2> QED BY <1>0, <2>4, <2>5, <2>7, <2>8
<1> QED BY <1>1, <1>2, <1>3, <1>4, <1>5, <1>6, <1>7 DEF ObsNext

LEMMA CollectorHolds == ObsSpec => []CollectorInv
<1>1. CollectorInv /\ [ObsNext]_allVars => CollectorInv' BY CollectorStep
<1> QED BY <1>1, CollectorStarts, PTL DEF ObsSpec

(* What the invariant says once every answer was seen.                     *)
LEMMA CollectorExact ==
  ASSUME CollectorInv
  PROVE  CoverageExact
<1>1. ASSUME epoch = 0, Quiet
      PROVE  resp_samples = submits + Cardinality(rejected)
  <2>1. Outstanding = {} /\ \A s \in BusStream : bus[s] = <<>>
    BY <1>1 DEF Quiet
  <2>2. \A s \in BusStream : OnBus(s) = {} BY <2>1 DEF OnBus
  <2>3. BusNumbers = {} BY <2>2 DEF BusNumbers
  <2>4. Cardinality({}) = 0 BY FS_EmptySet
  <2>5. resp_samples \in Nat /\
        resp_samples + Cardinality(BusNumbers) + Cardinality(Outstanding)
          = submits + Cardinality(rejected)
    BY <1>1 DEF CollectorInv, SamplesInv
  <2> QED BY <2>1, <2>3, <2>4, <2>5
<1>2. CoverageDrains
  BY <1>1 DEF CollectorInv, CoverageInv, CoverageDrains
<1> QED BY <1>2 DEF CollectorInv, CoverageInv, CoverageExact

(* The coverage collector's exactness, for every workload and over any     *)
(* number of resets: what write_issued parked under a tag is what the      *)
(* device holds under it, so write_dram_rsp never meets an orphan; and     *)
(* until a reset, every grant is sampled once on either side and every     *)
(* command, rejected ones and merged writes included, once as answered.    *)
THEOREM CoverageIsExact == ObsSpec => []CoverageExact
<1>1. CollectorInv => CoverageExact BY CollectorExact
<1> QED BY <1>1, CollectorHolds, PTL

-----------------------------------------------------------------------------
(* Predictions in the order of the responses to come.                      *)

(* A prediction whose response is not there yet goes to the end.           *)
LEMMA PredictionAdded ==
  ASSUME NEW p \in Seq(Nat), NEW b, NEW O, NEW x \in Nat, Predicts(p, b, O),
         x \notin O, \A j \in DOMAIN b : b[j].n # x
  PROVE  Append(p, x) \in Seq(Nat) /\ Predicts(Append(p, x), b, O \cup {x})
<1> DEFINE m == Len(p)
           r == Append(p, x)
<1>1. /\ r \in Seq(Nat) /\ m \in Nat
      /\ \A i \in DOMAIN p : /\ i \in Nat /\ i < m + 1
                             /\ i \in DOMAIN r /\ r[i] = p[i]
      /\ m + 1 \in DOMAIN r /\ r[m + 1] = x
      /\ \A i \in DOMAIN r : /\ i \in Nat /\ i <= m + 1
                             /\ i \in DOMAIN p \/ i = m + 1
  OBVIOUS
<1> HIDE DEF m, r
<1>2. {r[k] : k \in DOMAIN r} = O \cup {x}
  <2>1. {p[k] : k \in DOMAIN p} = O BY DEF Predicts
  <2>2. \A k \in DOMAIN r : r[k] \in O \cup {x} BY <1>1, <2>1
  <2>3. \A o \in O : \E k \in DOMAIN r : r[k] = o BY <1>1, <2>1
  <2> QED BY <1>1, <2>2, <2>3
<1>3. ASSUME NEW k \in DOMAIN r, NEW l \in DOMAIN r, k < l
      PROVE  /\ r[k] # r[l]
             /\ \A j \in DOMAIN b : b[j].n = r[l] =>
                  \E i \in DOMAIN b : i < j /\ b[i].n = r[k]
  <2>1. k \in DOMAIN p
    <3>1. k \in Nat /\ l \in Nat /\ l <= m + 1 BY <1>1
    <3>2. k # m + 1 BY <1>1, <1>3, <3>1
    <3> QED BY <1>1, <3>2
  <2>2. p[k] \in O BY <2>1 DEF Predicts
  <2>3. CASE l \in DOMAIN p
    <3>1. r[k] = p[k] /\ r[l] = p[l] BY <1>1, <2>1, <2>3
    <3>2. /\ p[k] # p[l]
          /\ \A j \in DOMAIN b : b[j].n = p[l] =>
               \E i \in DOMAIN b : i < j /\ b[i].n = p[k]
      BY <1>3, <2>1, <2>3 DEF Predicts
    <3> QED BY <3>1, <3>2
  <2>4. CASE l = m + 1 BY <1>1, <2>1, <2>2, <2>4
  <2> QED BY <1>1, <2>3, <2>4
<1> QED BY <1>1, <1>2, <1>3 DEF Predicts, r

(* A response in e that is predicted finds the response of every other     *)
(* prediction on the bus b.                                                *)
OthersThere(b, e, O) ==
  \A j \in DOMAIN e : e[j].n \in O =>
    \A o \in O : o # e[j].n => \E i \in DOMAIN b : b[i].n = o

(* Such responses may come to the end of the bus.                          *)
LEMMA ResponsesAdded ==
  ASSUME NEW p \in Seq(Nat), NEW T, NEW b \in Seq(T), NEW e \in Seq(T),
         NEW O, Predicts(p, b, O), NEW r, r = b \o e, OthersThere(b, e, O)
  PROVE  Predicts(p, r, O)
<1>1. /\ Len(b) \in Nat
      /\ \A i \in DOMAIN b : /\ i \in Nat /\ i < Len(b) + 1
                             /\ i \in DOMAIN r /\ r[i] = b[i]
      /\ \A j \in DOMAIN e : j \in Nat /\ j > 0
      /\ \A i \in DOMAIN r : \/ i \in DOMAIN b /\ r[i] = b[i]
                             \/ \E j \in DOMAIN e : /\ i = Len(b) + j
                                                    /\ r[i] = e[j]
  BY Joined
<1>2. ASSUME NEW k \in DOMAIN p, NEW l \in DOMAIN p, k < l,
             NEW j \in DOMAIN r, r[j].n = p[l]
      PROVE  \E i \in DOMAIN r : i < j /\ r[i].n = p[k]
  <2>1. p[k] \in O /\ p[l] \in O /\ p[k] # p[l] BY <1>2 DEF Predicts
  <2>2. CASE j \in DOMAIN b /\ r[j] = b[j]
    <3>1. PICK i \in DOMAIN b : i < j /\ b[i].n = p[k]
      BY <1>2, <2>2 DEF Predicts
    <3>2. i \in DOMAIN r /\ r[i].n = p[k] BY <1>1, <3>1
    <3> QED BY <3>1, <3>2
  <2>3. ASSUME NEW h \in DOMAIN e, j = Len(b) + h, r[j] = e[h]
        PROVE  \E i \in DOMAIN r : i < j /\ r[i].n = p[k]
    <3>1. PICK i \in DOMAIN b : b[i].n = p[k]
      BY <1>2, <2>1, <2>3 DEF OthersThere
    <3>2. i \in DOMAIN r /\ r[i].n = p[k] BY <1>1, <3>1
    <3>3. i < j BY <1>1, <2>3
    <3> QED BY <3>2, <3>3
  <2> QED BY <1>1, <2>2, <2>3
<1> QED BY <1>2 DEF Predicts

(* A predicted response that is seen first was predicted first.            *)
LEMMA PredictionTaken ==
  ASSUME NEW p \in Seq(Nat), NEW T, NEW b \in Seq(T), NEW O,
         Predicts(p, b, O), b # <<>>, Head(b).n \in O
  PROVE  /\ p # <<>> /\ Head(p) = Head(b).n /\ Tail(p) \in Seq(Nat)
         /\ Predicts(Tail(p), Tail(b), O \ {Head(b).n})
<1> DEFINE c == Tail(b)
           q == Tail(p)
           n == Head(b).n
<1>1. /\ Head(b) = b[1] /\ 1 \in DOMAIN b
      /\ \A i \in DOMAIN c :
           i \in Nat \ {0} /\ i + 1 \in DOMAIN b /\ c[i] = b[i + 1]
      /\ \A i \in DOMAIN b : i \in Nat /\ (i # 1 =>
           i - 1 \in DOMAIN c /\ c[i - 1] = b[i])
  BY SeenHead
<1>2. \A i \in DOMAIN b : i >= 1 OBVIOUS
<1>3. PICK m \in DOMAIN p : p[m] = n BY DEF Predicts
<1>4. p # <<>> /\ m \in Nat /\ m >= 1 BY <1>3
<1>5. /\ Head(p) = p[1] /\ 1 \in DOMAIN p /\ q \in Seq(Nat)
      /\ \A i \in DOMAIN q :
           i \in Nat \ {0} /\ i + 1 \in DOMAIN p /\ q[i] = p[i + 1]
      /\ \A i \in DOMAIN p : i \in Nat /\ (i # 1 =>
           i - 1 \in DOMAIN q /\ q[i - 1] = p[i])
  BY <1>4, SeenHead
<1> HIDE DEF c, q
<1>6. p[1] = n
  <2> SUFFICES ASSUME p[1] # n PROVE FALSE OBVIOUS
  <2>1. 1 < m BY <1>3, <1>4
  <2>2. b[1].n = p[m] BY <1>1, <1>3
  <2>3. \E i \in DOMAIN b : i < 1 /\ b[i].n = p[1]
    BY <1>1, <1>3, <1>5, <2>1, <2>2 DEF Predicts
  <2> QED BY <1>1, <1>2, <2>3
<1>7. \A l \in DOMAIN p : 1 < l => p[l] # n BY <1>5, <1>6 DEF Predicts
<1>8. {q[k] : k \in DOMAIN q} = O \ {n}
  <2>1. {p[k] : k \in DOMAIN p} = O BY DEF Predicts
  <2>2. ASSUME NEW k \in DOMAIN q PROVE q[k] \in O /\ q[k] # n
    <3>1. 1 < k + 1 BY <1>5
    <3> QED BY <1>5, <1>7, <2>1, <3>1
  <2>3. ASSUME NEW o \in O, o # n PROVE \E k \in DOMAIN q : q[k] = o
    <3>1. PICK k \in DOMAIN p : p[k] = o BY <2>1
    <3>2. k # 1 BY <1>6, <2>3, <3>1
    <3> QED BY <1>5, <3>1, <3>2
  <2> QED BY <2>2, <2>3
<1>9. ASSUME NEW k \in DOMAIN q, NEW l \in DOMAIN q, k < l
      PROVE  /\ q[k] # q[l]
             /\ \A j \in DOMAIN c : c[j].n = q[l] =>
                  \E i \in DOMAIN c : i < j /\ c[i].n = q[k]
  <2>0. /\ k + 1 \in DOMAIN p /\ l + 1 \in DOMAIN p
        /\ q[k] = p[k + 1] /\ q[l] = p[l + 1]
        /\ k \in Nat \ {0} /\ l \in Nat
    BY <1>5
  <2>1. /\ k + 1 \in DOMAIN p /\ l + 1 \in DOMAIN p /\ k + 1 < l + 1
        /\ q[k] = p[k + 1] /\ q[l] = p[l + 1] /\ 1 < k + 1
    BY <1>9, <2>0
  <2>2. q[k] # q[l] BY <2>1 DEF Predicts
  <2>3. ASSUME NEW j \in DOMAIN c, c[j].n = q[l]
        PROVE  \E i \in DOMAIN c : i < j /\ c[i].n = q[k]
    <3>1. j + 1 \in DOMAIN b /\ b[j + 1].n = p[l + 1] /\ j \in Nat
      BY <1>1, <2>1, <2>3
    <3> DEFINE x == k + 1
               y == l + 1
               z == j + 1
    <3>a. /\ x \in DOMAIN p /\ y \in DOMAIN p /\ x < y
          /\ z \in DOMAIN b /\ b[z].n = p[y]
      BY <2>1, <3>1
    <3> HIDE DEF x, y, z
    <3>b. \E i \in DOMAIN b : i < z /\ b[i].n = p[x]
      BY <3>a DEF Predicts
    <3>2. PICK i \in DOMAIN b : i < j + 1 /\ b[i].n = p[k + 1]
      BY <3>b DEF x, z
    <3>3. i # 1 BY <1>1, <1>7, <2>1, <3>2
    <3>4. i - 1 \in DOMAIN c /\ c[i - 1].n = q[k] BY <1>1, <2>1, <3>2, <3>3
    <3>5. i - 1 < j BY <1>1, <3>1, <3>2
    <3> QED BY <3>4, <3>5
  <2> QED BY <2>2, <2>3
<1>10. Predicts(q, c, O \ {n}) BY <1>8, <1>9 DEF Predicts
<1> QED BY <1>4, <1>5, <1>6, <1>10 DEF q, c

(* A response that nobody predicted passes the predictions by.             *)
LEMMA ResponsePassed ==
  ASSUME NEW p \in Seq(Nat), NEW T, NEW b \in Seq(T), NEW O,
         Predicts(p, b, O), b # <<>>, Head(b).n \notin O
  PROVE  Predicts(p, Tail(b), O)
<1> DEFINE c == Tail(b)
<1>1. /\ Head(b) = b[1] /\ 1 \in DOMAIN b
      /\ \A i \in DOMAIN c :
           i \in Nat \ {0} /\ i + 1 \in DOMAIN b /\ c[i] = b[i + 1]
      /\ \A i \in DOMAIN b : i \in Nat /\ (i # 1 =>
           i - 1 \in DOMAIN c /\ c[i - 1] = b[i])
  BY SeenHead
<1> HIDE DEF c
<1>2. ASSUME NEW k \in DOMAIN p, NEW l \in DOMAIN p, k < l,
             NEW j \in DOMAIN c, c[j].n = p[l]
      PROVE  \E i \in DOMAIN c : i < j /\ c[i].n = p[k]
  <2>1. j + 1 \in DOMAIN b /\ b[j + 1].n = p[l] /\ j \in Nat
    BY <1>1, <1>2
  <2>2. PICK i \in DOMAIN b : i < j + 1 /\ b[i].n = p[k]
    BY <1>2, <2>1 DEF Predicts
  <2>3. p[k] \in O BY DEF Predicts
  <2>4. i # 1 BY <1>1, <2>2, <2>3
  <2>5. i - 1 \in DOMAIN c /\ c[i - 1].n = p[k] BY <1>1, <2>2, <2>4
  <2>6. i - 1 < j BY <1>1, <2>1, <2>2
  <2> QED BY <2>5, <2>6
<1> QED BY <1>2 DEF Predicts, c

-----------------------------------------------------------------------------
(* The scoreboard, in a test that enables it.                              *)

Owes(c, s) ==
  c \in Cmd /\ stream_key(c) = s /\ (c \in inflight \/ c.n \in OnBus(s))

LEMMA OwedAre ==
  ASSUME NEW s
  PROVE  /\ \A n : n \in Owed(s) <=> \E c : Owes(c, s) /\ n = c.n
         /\ \A c \in Cmd : c.n \in Owed(s) <=> Owes(c, s)
         /\ \A l \in LocalCmd : l.n \notin Owed(s)
<1>1. \A n : n \in Owed(s) <=> \E c : Owes(c, s) /\ n = c.n
  BY DEF Owed, Owes
<1>2. ASSUME NEW c, NEW d \in Cmd \cup LocalCmd, Owes(c, s), c.n = d.n
      PROVE  c = d
  BY <1>2, NumbersTell DEF Owes
<1>3. ASSUME NEW c \in Cmd PROVE c.n \in Owed(s) <=> Owes(c, s)
  BY <1>1, <1>2
<1>4. ASSUME NEW l \in LocalCmd PROVE l.n \notin Owed(s)
  <2>1. l \notin Cmd BY LocalsApart
  <2> QED BY <1>1, <1>2, <2>1 DEF Owes
<1> QED BY <1>1, <1>3, <1>4

LEMMA OwedNext ==
  ASSUME NEW s
  PROVE  \A n : n \in Owed(s)' <=>
           \E c \in Cmd : /\ stream_key(c) = s /\ n = c.n
                          /\ c \in inflight' \/ c.n \in OnBus(s)'
BY DEF Owed

LEMMA PendingStarts ==
  ASSUME ObsInit
  PROVE  ScoreboardInv
<1>1. /\ pending = [s \in BusStream |-> <<>>] /\ enabled \in BOOLEAN
      /\ unpredicted_responses = 0 /\ decerr_responses = 0 /\ matched = {}
      /\ rejected = {} /\ bus = [s \in BusStream |-> <<>>]
      /\ inflight = {} /\ merged_writes = [c \in Cmd |-> {}]
  BY DEF ObsInit, Init, QueueInit
<1>2. pending \in [BusStream -> Seq(Nat)] BY <1>1
<1>3. \A s \in BusStream : DOMAIN pending[s] = {} /\ DOMAIN bus[s] = {}
  BY <1>1
<1>4. BusNumbers = {} BY BusStarts
<1>5. \A s \in BusStream : OnBus(s) = {} BY <1>3 DEF OnBus
<1>6. \A s \in BusStream : Owed(s) = {} BY <1>1, <1>5 DEF Owed
<1>7. PendingInv BY <1>3, <1>6 DEF PendingInv, Predicts
<1>8. LocalNumbers = {} BY <1>4 DEF LocalNumbers
<1>9. Cardinality({}) = 0 BY FS_EmptySet
<1>10. VerdictInv BY <1>1, <1>7, <1>8, <1>9 DEF VerdictInv
<1> QED BY <1>1, <1>2, <1>10 DEF ScoreboardInv

(* Local answers on the buses are finitely many.                           *)
LEMMA LocalsFinite ==
  ASSUME BusInv
  PROVE  IsFiniteSet(LocalNumbers) /\ Cardinality(LocalNumbers) \in Nat
<1>1. IsFiniteSet(BusNumbers) BY DEF BusInv
<1> QED BY <1>1, FS_Intersection, FS_CardinalityType DEF LocalNumbers

(* The granted is predicted at the end of its stream.                      *)
LEMMA PendingGrant ==
  ASSUME BackendHolds, BusInv, PendingInv, pending \in [BusStream -> Seq(Nat)],
         NEW c \in Cmd, c \notin inflight, c \notin served,
         inflight' = inflight \cup {c}, UNCHANGED bus,
         pending' = [pending EXCEPT ![stream_key(c)] = Append(@, c.n)]
  PROVE  PendingInv' /\ pending' \in [BusStream -> Seq(Nat)]
<1> DEFINE k == stream_key(c)
<1>1. k \in BusStream /\ c.n \in Nat BY NumbersTell DEF Stream
<1>2. c.n \notin BusNumbers BY NotAnswered
<1>3. c.n \notin Owed(k) BY <1>1, <1>2, OwedAre DEF Owes, BusNumbers
<1>4. \A j \in DOMAIN bus[k] : bus[k][j].n # c.n
  BY <1>1, <1>2 DEF BusNumbers, OnBus
<1>5. \A s : OnBus(s)' = OnBus(s) BY DEF OnBus
<1>6. Owed(k)' = Owed(k) \cup {c.n}
  <2>1. \A n : n \in Owed(k)' <=> n \in Owed(k) \/ n = c.n
    BY <1>5, OwedNext, OwedAre DEF Owes
  <2> QED BY <2>1
<1>7. ASSUME NEW s \in BusStream, s # k PROVE Owed(s)' = Owed(s)
  <2>1. \A n : n \in Owed(s)' <=> n \in Owed(s)
    BY <1>5, <1>7, OwedNext, OwedAre DEF Owes
  <2> QED BY <2>1
<1> HIDE DEF k
<1>8. /\ pending[k] \in Seq(Nat) /\ Predicts(pending[k], bus[k], Owed(k))
  BY <1>1 DEF PendingInv
<1> DEFINE r == Append(pending[k], c.n)
<1>9. r \in Seq(Nat) /\ Predicts(r, bus[k], Owed(k) \cup {c.n})
  BY ONLY <1>1, <1>3, <1>4, <1>8, PredictionAdded
<1>10. pending' = [pending EXCEPT ![k] = r] BY DEF k
<1> HIDE DEF r
<1>11. /\ pending' \in [BusStream -> Seq(Nat)] /\ pending'[k] = r
       /\ \A s \in BusStream : s # k => pending'[s] = pending[s]
  BY <1>1, <1>9, <1>10
<1>12. ASSUME NEW s \in BusStream
       PROVE  Predicts(pending'[s], bus'[s], Owed(s)')
  <2>1. CASE s = k BY <1>6, <1>9, <1>11, <2>1
  <2>2. CASE s # k BY <1>7, <1>11, <2>2 DEF PendingInv
  <2> QED BY <2>1, <2>2
<1> QED BY <1>11, <1>12 DEF PendingInv

(* The command leaves the device and its response comes to the bus: of its *)
(* stream it was alone at the device.                                      *)
LEMMA PendingHanded ==
  ASSUME BackendHolds, BusInv, PendingInv, pending \in [BusStream -> Seq(Nat)],
         UNCHANGED <<pending, rejected>>, NEW c, NEW e, Handed(c, e),
         merged_writes[c] = {}
  PROVE  PendingInv'
<1> DEFINE k == stream_key(c)
<1>1. /\ c \in inflight /\ e \in Seq(Response) /\ k \in BusStream
      /\ inflight' = inflight \ {c} /\ bus' = BusWith(k, e)
      /\ Group(c) = {c} /\ Numbers(e) = NumbersOf(Group(c))
  BY DEF Handed, Group
<1>2. c \in Cmd BY <1>1, PartsOfBackend
<1>3. NumbersOf(Group(c)) = {c.n} BY <1>1 DEF NumbersOf
<1>4. \A u \in BusStream :
        OnBus(u)' = IF u = k THEN OnBus(u) \cup {c.n} ELSE OnBus(u)
  BY <1>3, BusHanded
<1>5. ASSUME NEW s \in BusStream PROVE Owed(s)' = Owed(s)
  <2>1. ASSUME NEW d \in Cmd, stream_key(d) = s
        PROVE  (d \in inflight' \/ d.n \in OnBus(s)') <=>
               (d \in inflight \/ d.n \in OnBus(s))
    <3>1. d.n = c.n => d = c BY <1>2, NumbersTell
    <3> QED BY <1>1, <1>4, <2>1, <3>1
  <2>2. \A n : n \in Owed(s)' <=> n \in Owed(s)
    BY <2>1, OwedNext, OwedAre DEF Owes
  <2> QED BY <2>2
<1>6. \A j \in DOMAIN e : e[j].n = c.n BY <1>1, <1>3 DEF Numbers
<1>7. ASSUME NEW o \in Owed(k), o # c.n
      PROVE  \E i \in DOMAIN bus[k] : bus[k][i].n = o
  <2>1. PICK d : Owes(d, k) /\ o = d.n BY OwedAre
  <2>2. d \notin inflight
    BY <1>1, <1>7, <2>1, PartsOfBackend DEF Owes
  <2>3. o \in OnBus(k) BY <2>1, <2>2 DEF Owes
  <2> QED BY <2>3 DEF OnBus
<1> HIDE DEF k
<1>8. /\ bus \in [BusStream -> Seq(Response)] BY DEF BusInv
<1> DEFINE r == bus[k] \o e
<1>9. bus' = [bus EXCEPT ![k] = r] BY <1>1 DEF BusWith
<1>10. /\ pending[k] \in Seq(Nat) /\ Predicts(pending[k], bus[k], Owed(k))
       /\ bus[k] \in Seq(Response) /\ r = bus[k] \o e
  BY <1>1, <1>8 DEF PendingInv
<1> HIDE DEF r
<1>11. OthersThere(bus[k], e, Owed(k)) BY <1>6, <1>7 DEF OthersThere
<1>12. Predicts(pending[k], r, Owed(k))
  BY ONLY <1>1, <1>10, <1>11, ResponsesAdded
<1>13. /\ bus'[k] = r /\ \A s \in BusStream : s # k => bus'[s] = bus[s]
  BY <1>1, <1>8, <1>9
<1>14. ASSUME NEW s \in BusStream
       PROVE  Predicts(pending'[s], bus'[s], Owed(s)')
  <2>1. CASE s = k BY <1>5, <1>12, <1>13, <2>1
  <2>2. CASE s # k BY <1>5, <1>13, <2>2 DEF PendingInv
  <2> QED BY <2>1, <2>2
<1> QED BY <1>14 DEF PendingInv

(* A frontend's own answer is not predicted.                               *)
LEMMA PendingLocal ==
  ASSUME BackendHolds, BusInv, PendingInv, pending \in [BusStream -> Seq(Nat)],
         NEW l \in LocalCmd, Local(l)
  PROVE  PendingInv'
<1> DEFINE k == stream_key(l)
           x == [n |-> l.n, resp |-> l.resp]
           e == <<x>>
           r == Append(bus[k], x)
<1>1. /\ bus' = [bus EXCEPT ![k] = r] /\ UNCHANGED <<inflight, pending>>
      /\ k \in BusStream
  BY NumbersTell DEF Local, vars, queueState, inflightVars, sbVars
<1>2. \A u \in BusStream :
        OnBus(u)' = IF u = k THEN OnBus(u) \cup {l.n} ELSE OnBus(u)
  BY BusLocal
<1>3. ASSUME NEW s \in BusStream PROVE Owed(s)' = Owed(s)
  <2>1. ASSUME NEW d \in Cmd
        PROVE  d.n \in OnBus(s)' <=> d.n \in OnBus(s)
    <3>1. d.n # l.n BY NumbersTell, LocalsApart
    <3> QED BY <1>2, <3>1
  <2>2. \A n : n \in Owed(s)' <=> n \in Owed(s)
    BY <1>1, <2>1, OwedNext, OwedAre DEF Owes
  <2> QED BY <2>2
<1>4. x \in Response /\ x.n = l.n BY NumbersTell DEF Response
<1>5. x.n \notin Owed(k) BY <1>4, OwedAre
<1> HIDE DEF k, x
<1>6. bus \in [BusStream -> Seq(Response)] BY DEF BusInv
<1>7. bus[k] \in Seq(Response) BY <1>1, <1>6
<1>8. r = bus[k] \o e /\ e \in Seq(Response)
  <2> HIDE DEF Response
  <2> QED BY <1>4, <1>7, AppendJoins
<1>9. DOMAIN e = {1} /\ e[1] = x OBVIOUS
<1> HIDE DEF e, r
<1>10. pending[k] \in Seq(Nat) /\ Predicts(pending[k], bus[k], Owed(k))
  BY <1>1 DEF PendingInv
<1>11. OthersThere(bus[k], e, Owed(k)) BY <1>5, <1>9 DEF OthersThere
<1>12. Predicts(pending[k], r, Owed(k))
  BY ONLY <1>7, <1>8, <1>10, <1>11, ResponsesAdded
<1>13. /\ bus'[k] = r /\ \A s \in BusStream : s # k => bus'[s] = bus[s]
  BY <1>1, <1>6
<1>14. ASSUME NEW s \in BusStream
       PROVE  Predicts(pending'[s], bus'[s], Owed(s)')
  <2>1. CASE s = k BY <1>1, <1>3, <1>12, <1>13, <2>1
  <2>2. CASE s # k BY <1>1, <1>3, <1>13, <2>2 DEF PendingInv
  <2> QED BY <2>1, <2>2
<1> QED BY <1>14 DEF PendingInv

LEMMA PendingKept ==
  ASSUME PendingInv, UNCHANGED <<pending, bus, inflight>>
  PROVE  PendingInv'
<1>1. \A s : OnBus(s)' = OnBus(s) BY DEF OnBus
<1>2. \A s : Owed(s)' = Owed(s) BY <1>1 DEF Owed
<1> QED BY <1>2 DEF PendingInv

(* The monitor sees the response of a command: it is the one predicted     *)
(* first.                                                                  *)
LEMMA PendingTaken ==
  ASSUME BackendHolds, BusInv, PendingInv, pending \in [BusStream -> Seq(Nat)],
         NEW s \in BusStream, bus[s] # <<>>,
         bus' = [bus EXCEPT ![s] = Tail(@)],
         UNCHANGED <<served, rejected, inflight>>,
         NEW c \in served, stream_key(c) = s, Head(bus[s]).n = c.n
  PROVE  /\ pending[s] # <<>> /\ Head(pending[s]) = Head(bus[s]).n
         /\ pending' = [pending EXCEPT ![s] = Tail(@)] =>
              PendingInv' /\ pending' \in [BusStream -> Seq(Nat)]
         /\ UNCHANGED LocalNumbers
<1> DEFINE n == Head(bus[s]).n
<1>1. c \in Cmd /\ c \notin inflight BY PartsOfBackend
<1>2. /\ BusNumbers' = BusNumbers \ {n}
      /\ \A u \in BusStream :
           OnBus(u)' = IF u = s THEN OnBus(u) \ {n} ELSE OnBus(u)
  BY BusShrinks
<1> HIDE DEF n
<1>3. n = c.n BY DEF n
<1>4. bus \in [BusStream -> Seq(Response)] BY DEF BusInv
<1>5. /\ pending[s] \in Seq(Nat) /\ bus[s] \in Seq(Response)
      /\ Predicts(pending[s], bus[s], Owed(s))
  BY <1>4 DEF PendingInv
<1>6. n \in OnBus(s)
  <2>1. Head(bus[s]) = bus[s][1] /\ 1 \in DOMAIN bus[s] BY <1>5, SeenHead
  <2> QED BY <2>1 DEF OnBus, n
<1>7. n \in Owed(s) BY <1>1, <1>3, <1>6, OwedAre DEF Owes
<1>8. /\ pending[s] # <<>> /\ Head(pending[s]) = n
      /\ Tail(pending[s]) \in Seq(Nat)
      /\ Predicts(Tail(pending[s]), Tail(bus[s]), Owed(s) \ {n})
  BY <1>5, <1>7, PredictionTaken DEF n
<1>9. ASSUME NEW u \in BusStream
      PROVE  Owed(u)' = IF u = s THEN Owed(u) \ {n} ELSE Owed(u)
  <2>1. ASSUME NEW d \in Cmd, stream_key(d) = u
        PROVE  (d \in inflight' \/ d.n \in OnBus(u)') <=>
               (d \in inflight \/ d.n \in OnBus(u)) /\ d # c
    <3>1. d.n = n => d = c BY <1>1, <1>3, NumbersTell
    <3>2. CASE u = s BY <1>1, <1>2, <1>3, <3>1, <3>2
    <3>3. CASE u # s
      <4>1. d # c BY <2>1, <3>3
      <4> QED BY <1>2, <3>3, <4>1
    <3> QED BY <3>2, <3>3
  <2>2. \A m : m \in Owed(u)' <=> \E d \in Cmd : Owes(d, u) /\ d # c /\ m = d.n
    BY <2>1, OwedNext DEF Owes
  <2>3. \A d \in Cmd : d # c <=> d.n # n BY <1>1, <1>3, NumbersTell
  <2>4. \A m : m \in Owed(u)' <=> m \in Owed(u) /\ m # n
    BY <2>2, <2>3, OwedAre DEF Owes
  <2>5. u # s => n \notin Owed(u) BY <1>1, <1>3, OwedAre DEF Owes
  <2> QED BY <2>4, <2>5
<1>10. /\ bus'[s] = Tail(bus[s])
       /\ \A u \in BusStream : u # s => bus'[u] = bus[u]
  BY <1>4
<1>11. ASSUME pending' = [pending EXCEPT ![s] = Tail(@)]
       PROVE  PendingInv' /\ pending' \in [BusStream -> Seq(Nat)]
  <2> DEFINE q == Tail(pending[s])
  <2>1. pending' = [pending EXCEPT ![s] = q] BY <1>11
  <2>2. q \in Seq(Nat) BY <1>8
  <2>3. Predicts(q, bus'[s], Owed(s)') BY <1>8, <1>9, <1>10
  <2> HIDE DEF q
  <2>4. /\ pending' \in [BusStream -> Seq(Nat)] /\ pending'[s] = q
        /\ \A u \in BusStream : u # s => pending'[u] = pending[u]
    BY <2>1, <2>2
  <2>5. ASSUME NEW u \in BusStream
        PROVE  Predicts(pending'[u], bus'[u], Owed(u)')
    <3>1. CASE u = s BY <2>3, <2>4, <3>1
    <3>2. CASE u # s BY <1>9, <1>10, <2>4, <3>2 DEF PendingInv
    <3> QED BY <3>1, <3>2
  <2> QED BY <2>4, <2>5 DEF PendingInv
<1>12. UNCHANGED LocalNumbers
  <2>1. n \notin {l.n : l \in LocalCmd}
    BY <1>1, <1>3, NumbersTell, LocalsApart
  <2> QED BY <1>2, <2>1 DEF LocalNumbers
<1> QED BY <1>8, <1>11, <1>12 DEF n

(* The monitor sees a frontend's own answer, which nothing was predicted   *)
(* for.                                                                    *)
LEMMA PendingPassed ==
  ASSUME BackendHolds, BusInv, PendingInv, pending \in [BusStream -> Seq(Nat)],
         NEW s \in BusStream, bus[s] # <<>>,
         bus' = [bus EXCEPT ![s] = Tail(@)],
         UNCHANGED <<served, rejected, inflight, pending>>,
         NEW l \in rejected, Head(bus[s]).n = l.n
  PROVE  /\ PendingInv'
         /\ Cardinality(LocalNumbers') = Cardinality(LocalNumbers) - 1
<1> DEFINE n == Head(bus[s]).n
<1>1. l \in LocalCmd BY DEF BusInv
<1>2. /\ BusNumbers' = BusNumbers \ {n} /\ n \in BusNumbers
      /\ \A u \in BusStream :
           OnBus(u)' = IF u = s THEN OnBus(u) \ {n} ELSE OnBus(u)
  BY BusShrinks
<1> HIDE DEF n
<1>3. n = l.n BY DEF n
<1>4. bus \in [BusStream -> Seq(Response)] BY DEF BusInv
<1>5. /\ pending[s] \in Seq(Nat) /\ bus[s] \in Seq(Response)
      /\ Predicts(pending[s], bus[s], Owed(s))
  BY <1>4 DEF PendingInv
<1>6. n \notin Owed(s) BY <1>1, <1>3, OwedAre
<1>7. Predicts(pending[s], Tail(bus[s]), Owed(s))
  BY <1>5, <1>6, ResponsePassed DEF n
<1>8. ASSUME NEW u \in BusStream PROVE Owed(u)' = Owed(u)
  <2>1. \A d \in Cmd : d.n # n BY <1>1, <1>3, NumbersTell, LocalsApart
  <2>2. \A d \in Cmd : d.n \in OnBus(u)' <=> d.n \in OnBus(u)
    BY <1>2, <2>1
  <2>3. \A m : m \in Owed(u)' <=> \E d \in Cmd : Owes(d, u) /\ m = d.n
    BY <2>2, OwedNext DEF Owes
  <2>4. \A m : m \in Owed(u)' <=> m \in Owed(u)
    BY <2>3, OwedAre DEF Owes
  <2> QED BY <2>4
<1>9. /\ bus'[s] = Tail(bus[s])
      /\ \A u \in BusStream : u # s => bus'[u] = bus[u]
  BY <1>4
<1>10. ASSUME NEW u \in BusStream
       PROVE  Predicts(pending'[u], bus'[u], Owed(u)')
  <2>1. CASE u = s BY <1>7, <1>8, <1>9, <2>1
  <2>2. CASE u # s BY <1>8, <1>9, <2>2 DEF PendingInv
  <2> QED BY <2>1, <2>2
<1>11. LocalNumbers' = LocalNumbers \ {n} /\ n \in LocalNumbers
  BY <1>1, <1>2, <1>3 DEF LocalNumbers
<1>12. Cardinality(LocalNumbers') = Cardinality(LocalNumbers) - 1
  BY <1>11, LocalsFinite, FS_RemoveElement
<1> QED BY <1>10, <1>12 DEF PendingInv

LEMMA NoPrediction ==
  ASSUME NEW p \in Seq(Nat), DOMAIN p = {}
  PROVE  p = <<>>
<1>1. Len(p) \in Nat /\ DOMAIN p = 1 .. Len(p) OBVIOUS
<1>2. Len(p) = 0
  <2> SUFFICES ASSUME Len(p) # 0 PROVE FALSE OBVIOUS
  <2>1. 1 \in 1 .. Len(p) BY <1>1
  <2> QED BY <1>1, <2>1
<1> QED BY <1>2

(* Without a command of the stream nothing is predicted on it.             *)
LEMMA NothingPredicted ==
  ASSUME PendingInv, NEW s \in BusStream, s \notin Stream,
         pending \in [BusStream -> Seq(Nat)]
  PROVE  pending[s] = <<>>
<1>1. \A c \in Cmd : stream_key(c) # s BY DEF Stream
<1>2. Owed(s) = {} BY <1>1 DEF Owed
<1>3. {pending[s][k] : k \in DOMAIN pending[s]} = {}
  BY <1>2 DEF PendingInv, Predicts
<1>4. DOMAIN pending[s] = {} BY <1>3
<1>5. pending[s] \in Seq(Nat) OBVIOUS
<1> QED BY <1>4, <1>5, NoPrediction

LEMMA AnswerAccounted ==
  ASSUME NEW u \in Nat, NEW d \in Nat, NEW c \in Nat, NEW j, u + d + c = j,
         NEW v \in Nat, NEW e \in Nat, v + e = u + d + 1
  PROVE  v + e + (c - 1) = j
OBVIOUS

(* A response that a monitor sees.                                         *)
LEMMA ScoreboardObserve ==
  ASSUME BackendHolds, BusInv, ScoreboardInv, NEW s \in BusStream, Observe(s)
  PROVE  ScoreboardInv'
<1> DEFINE r == Head(bus[s])
<1>1. /\ bus[s] # <<>> /\ bus' = [bus EXCEPT ![s] = Tail(@)]
      /\ observe(s, r)
      /\ UNCHANGED <<served, rejected, inflight, enabled, merged_writes>>
  BY DEF Observe, vars, queueState, inflightVars, mergeVars
<1>2. IsResponse(r, s) BY <1>1, BusShrinks
<1> HIDE DEF r
<1>3. CASE ~enabled
  <2>1. UNCHANGED <<decerr_responses, unpredicted_responses, pending, matched>>
    BY <1>1, <1>3 DEF observe
  <2> QED BY <1>1, <1>3, <2>1 DEF ScoreboardInv
<1>4. CASE enabled
  <2>1. check_completion(s, r) BY <1>1, <1>4 DEF observe
  <2>2. /\ VerdictInv /\ PendingInv /\ pending \in [BusStream -> Seq(Nat)]
        /\ unpredicted_responses \in Nat /\ decerr_responses \in Nat
        /\ \A m \in matched : m[1] = m[2]
    BY <1>4 DEF ScoreboardInv, VerdictInv
  <2>3. Cardinality(LocalNumbers) \in Nat BY LocalsFinite
  <2>4. ASSUME NEW c \in served, stream_key(c) = s,
               r = [n |-> c.n, resp |-> "OKAY"]
        PROVE  ScoreboardInv'
    <3>1. r.resp # "DECERR" /\ r.n = c.n BY <2>4
    <3>2. /\ pending[s] # <<>> /\ Head(pending[s]) = r.n
          /\ pending' = [pending EXCEPT ![s] = Tail(@)] =>
               PendingInv' /\ pending' \in [BusStream -> Seq(Nat)]
          /\ UNCHANGED LocalNumbers
      BY <1>1, <2>2, <2>4, <3>1, PendingTaken DEF r
    <3>3. /\ pending' = [pending EXCEPT ![s] = Tail(@)]
          /\ matched' = matched \cup {<<r.n, Head(pending[s])>>}
          /\ UNCHANGED <<decerr_responses, unpredicted_responses>>
      BY <2>1, <3>1, <3>2 DEF check_completion
    <3>4. \A m \in matched' : m[1] = m[2] BY <2>2, <3>2, <3>3
    <3>5. PendingInv' /\ pending' \in [BusStream -> Seq(Nat)]
      BY <3>2, <3>3
    <3>6. VerdictInv' BY <1>1, <2>2, <3>2, <3>3, <3>5 DEF VerdictInv
    <3> QED BY <1>1, <1>4, <2>2, <3>3, <3>4, <3>5, <3>6 DEF ScoreboardInv
  <2>5. ASSUME NEW l \in rejected, stream_key(l) = s,
               r = [n |-> l.n, resp |-> l.resp]
        PROVE  ScoreboardInv'
    <3>1. r.resp = l.resp /\ r.n = l.n BY <2>5
    <3>2. /\ UNCHANGED <<pending, matched>>
          /\ \/ /\ decerr_responses' = decerr_responses + 1
                /\ UNCHANGED unpredicted_responses
             \/ /\ unpredicted_responses' = unpredicted_responses + 1
                /\ UNCHANGED decerr_responses
      <4>1. CASE r.resp = "DECERR" BY <2>1, <4>1 DEF check_completion
      <4>2. CASE r.resp # "DECERR"
        <5>1. s \notin Stream BY <2>2, <2>5, <3>1, <4>2 DEF VerdictInv
        <5>2. pending[s] = <<>> BY <2>2, <5>1, NothingPredicted
        <5> QED BY <2>1, <4>2, <5>2 DEF check_completion
      <4> QED BY <4>1, <4>2
    <3>3. /\ PendingInv'
          /\ Cardinality(LocalNumbers') = Cardinality(LocalNumbers) - 1
      BY <1>1, <2>2, <2>5, <3>1, <3>2, PendingPassed DEF r
    <3>9. /\ unpredicted_responses \in Nat /\ decerr_responses \in Nat
      BY <2>2
    <3>4. /\ unpredicted_responses' + decerr_responses' =
               unpredicted_responses + decerr_responses + 1
          /\ unpredicted_responses' \in Nat /\ decerr_responses' \in Nat
      BY ONLY <3>2, <3>9
    <3>5. unpredicted_responses + decerr_responses + Cardinality(LocalNumbers)
            = Cardinality(rejected)
      BY <2>2 DEF VerdictInv
    <3>6. unpredicted_responses' + decerr_responses'
            + Cardinality(LocalNumbers') = Cardinality(rejected')
      <4> DEFINE c == Cardinality(LocalNumbers)
                 u == unpredicted_responses
                 d == decerr_responses
                 v == unpredicted_responses'
                 w == decerr_responses'
                 j == Cardinality(rejected)
      <4>1. Cardinality(rejected') = Cardinality(rejected) BY <1>1
      <4>2. c \in Nat BY <2>3
      <4>3. u + d + c = j /\ Cardinality(LocalNumbers') = c - 1
        BY <3>3, <3>5
      <4>4. /\ u \in Nat /\ d \in Nat /\ v \in Nat /\ w \in Nat
            /\ v + w = u + d + 1
        BY <3>4, <3>9
      <4> HIDE DEF c, u, d, v, w, j
      <4>5. v + w + (c - 1) = j
        BY ONLY <4>2, <4>3, <4>4, AnswerAccounted
      <4> QED BY <4>1, <4>3, <4>5 DEF u, d, v, w, j
    <3>7. VerdictInv' BY <1>1, <2>2, <3>3, <3>6 DEF VerdictInv
    <3> QED BY <1>1, <1>4, <2>2, <3>2, <3>4, <3>7 DEF ScoreboardInv
  <2> QED BY <1>2, <2>4, <2>5 DEF IsResponse, RespondsTo
<1> QED BY <1>3, <1>4

(* What leaves the scoreboard, the buses and the device's commands alone.  *)
Unmoved ==
  /\ UNCHANGED <<sbVars, enabled, rejected>>
  /\ enabled => UNCHANGED <<bus, inflight, merged_writes>>

LEMMA ScoreboardKept ==
  ASSUME ScoreboardInv, Unmoved
  PROVE  ScoreboardInv'
<1>0. /\ UNCHANGED <<sbVars, enabled, rejected>>
      /\ enabled => UNCHANGED <<bus, inflight, merged_writes>>
  BY DEF Unmoved
<1>1. UNCHANGED <<pending, unpredicted_responses, decerr_responses, matched>>
  BY <1>0 DEF sbVars
<1>2. ASSUME enabled PROVE VerdictInv'
  <2>1. VerdictInv BY <1>2 DEF ScoreboardInv
  <2>2. PendingInv' BY <1>0, <1>1, <1>2, <2>1, PendingKept DEF VerdictInv
  <2>3. UNCHANGED bus BY <1>0, <1>2
  <2>4. \A s : OnBus(s)' = OnBus(s) BY <2>3 DEF OnBus
  <2>5. LocalNumbers' = LocalNumbers BY <2>4 DEF LocalNumbers, BusNumbers
  <2> QED BY <1>0, <1>1, <1>2, <2>1, <2>2, <2>5 DEF VerdictInv
<1> QED BY <1>0, <1>1, <1>2 DEF ScoreboardInv

(* What the tests that enable the scoreboard do not do.                    *)
Tested ==
  enabled => /\ UNCHANGED <<epoch, merged_writes>>
             /\ \A l \in rejected' : \/ l.resp = "DECERR"
                                     \/ stream_key(l) \notin Stream

LEMMA ScoreboardGrant ==
  ASSUME BackendHolds, BusInv, ScoreboardInv, Tested,
         NEW c \in queued, GrantCommand(c)
  PROVE  ScoreboardInv'
<1>1. /\ RunIssue(c) /\ ~c.pre /\ write(c)
      /\ UNCHANGED <<bus, rejected, enabled, decerr_responses,
                     unpredicted_responses, matched>>
  BY DEF GrantCommand
<1>2. /\ inflight' = inflight \cup {c} /\ c \notin inflight
      /\ c \in Cmd /\ c \notin served
  BY <1>1, GrantFacts
<1>3. CASE ~enabled
  <2>1. UNCHANGED pending BY <1>1, <1>3 DEF write
  <2> QED BY <1>1, <1>3, <2>1 DEF ScoreboardInv
<1>4. CASE enabled
  <2>1. pending' = [pending EXCEPT ![stream_key(c)] = Append(@, c.n)]
    BY <1>1, <1>4 DEF write
  <2>2. VerdictInv /\ PendingInv /\ pending \in [BusStream -> Seq(Nat)]
    BY <1>4 DEF ScoreboardInv, VerdictInv
  <2>3. PendingInv' /\ pending' \in [BusStream -> Seq(Nat)]
    BY <1>1, <1>2, <2>1, <2>2, PendingGrant
  <2>4. UNCHANGED merged_writes BY <1>4 DEF Tested
  <2>5. \A s : OnBus(s)' = OnBus(s) BY <1>1 DEF OnBus
  <2>6. LocalNumbers' = LocalNumbers BY <2>5 DEF LocalNumbers, BusNumbers
  <2>7. VerdictInv' BY <1>1, <2>2, <2>3, <2>4, <2>6 DEF VerdictInv
  <2> QED BY <1>1, <1>4, <2>3, <2>7 DEF ScoreboardInv
<1> QED BY <1>3, <1>4

LEMMA ScoreboardHanded ==
  ASSUME BackendHolds, BusInv, ScoreboardInv, Tested,
         UNCHANGED <<sbVars, enabled, rejected>>, NEW c, NEW e, Handed(c, e)
  PROVE  ScoreboardInv'
<1>1. UNCHANGED <<pending, unpredicted_responses, decerr_responses, matched>>
  BY DEF sbVars
<1>2. ASSUME enabled PROVE VerdictInv'
  <2>1. VerdictInv /\ PendingInv /\ pending \in [BusStream -> Seq(Nat)]
    BY <1>2 DEF ScoreboardInv, VerdictInv
  <2>2. c \in inflight /\ c \in Cmd BY PartsOfBackend DEF Handed
  <2>3. merged_writes[c] = {} BY <2>1, <2>2 DEF VerdictInv
  <2>4. PendingInv' BY <1>1, <2>1, <2>3, PendingHanded
  <2>5. UNCHANGED merged_writes BY <1>2 DEF Tested
  <2>6. BusNumbers' = BusNumbers \cup {c.n}
    <3>1. Group(c) = {c} BY <2>3 DEF Group
    <3> QED BY <3>1, BusHanded DEF NumbersOf
  <2>7. c.n \notin {l.n : l \in LocalCmd} BY <2>2, NumbersTell, LocalsApart
  <2>8. LocalNumbers' = LocalNumbers BY <2>6, <2>7 DEF LocalNumbers
  <2> QED BY <1>1, <2>1, <2>4, <2>5, <2>8 DEF VerdictInv
<1> QED BY <1>1, <1>2 DEF ScoreboardInv

LEMMA ScoreboardLocal ==
  ASSUME BackendHolds, BusInv, ScoreboardInv, Tested,
         NEW l \in LocalCmd, Local(l)
  PROVE  ScoreboardInv'
<1>1. /\ l \notin rejected /\ rejected' = rejected \cup {l}
      /\ UNCHANGED <<pending, unpredicted_responses, decerr_responses,
                     matched, enabled>>
  BY DEF Local, sbVars
<1>2. ASSUME enabled PROVE VerdictInv'
  <2>1. VerdictInv /\ PendingInv /\ pending \in [BusStream -> Seq(Nat)]
    BY <1>2 DEF ScoreboardInv, VerdictInv
  <2>2. PendingInv' BY <2>1, PendingLocal
  <2>3. /\ UNCHANGED merged_writes
        /\ \A m \in rejected' : \/ m.resp = "DECERR"
                                \/ stream_key(m) \notin Stream
    BY <1>2 DEF Tested
  <2>4. BusNumbers' = BusNumbers \cup {l.n} /\ l.n \notin BusNumbers
    BY BusLocal
  <2>5. LocalNumbers' = LocalNumbers \cup {l.n} /\ l.n \notin LocalNumbers
    BY <2>4 DEF LocalNumbers
  <2>6. Cardinality(LocalNumbers') = Cardinality(LocalNumbers) + 1
    BY <2>5, LocalsFinite, FS_AddElement
  <2>7. IsFiniteSet(rejected) BY DEF BusInv
  <2>8. Cardinality(rejected') = Cardinality(rejected) + 1
    BY <1>1, <2>7, FS_AddElement
  <2>9. /\ unpredicted_responses \in Nat /\ decerr_responses \in Nat
        /\ Cardinality(LocalNumbers) \in Nat /\ Cardinality(rejected) \in Nat
    BY <2>7, LocalsFinite, FS_CardinalityType DEF ScoreboardInv
  <2>10. unpredicted_responses + decerr_responses + Cardinality(LocalNumbers)
           = Cardinality(rejected)
    BY <2>1 DEF VerdictInv
  <2>11. unpredicted_responses + decerr_responses + Cardinality(LocalNumbers')
           = Cardinality(rejected')
    BY ONLY <2>6, <2>8, <2>9, <2>10
  <2> QED BY <1>1, <2>1, <2>2, <2>3, <2>11 DEF VerdictInv
<1> QED BY <1>1, <1>2 DEF ScoreboardInv

-----------------------------------------------------------------------------
(* What the verdict of the scoreboard rests on.                            *)
TestInv == CollectorInv /\ ScoreboardInv

LEMMA TestStarts == ObsInit => TestInv
BY CollectorStarts, PendingStarts DEF TestInv

LEMMA TestStep ==
  ASSUME TestInv, [TestNext]_allVars
  PROVE  TestInv'
<1> USE DEF TestInv
<1>0. BackendHolds /\ BusInv /\ RefreshTagsInv BY DEF CollectorInv
<1>1. [ObsNext]_allVars BY DEF TestNext
<1>2. CollectorInv' BY <1>1, CollectorStep
<1>3. Tested
  <2>1. CASE TestNext BY <2>1 DEF TestNext, Tested
  <2>2. CASE UNCHANGED allVars
    <3>1. UNCHANGED <<epoch, rejected, enabled>> /\ UNCHANGED merged_writes
      BY <2>2 DEF allVars, vars, obsVars, resetVars, queueState, mergeVars
    <3> QED BY <3>1 DEF Tested, ScoreboardInv, VerdictInv
  <2> QED BY <2>1, <2>2
<1>4. ASSUME NEW c \in queued, GrantCommand(c) PROVE ScoreboardInv'
  BY <1>0, <1>3, <1>4, ScoreboardGrant
<1>5. ASSUME GrantRefresh PROVE ScoreboardInv'
  <2>1. RunRefresh /\ UNCHANGED <<bus, rejected, enabled, sbVars>>
    BY <1>5 DEF GrantRefresh
  <2>2. UNCHANGED <<inflight, merged_writes>> BY <1>0, <2>1, GrantRefreshFacts
  <2>3. Unmoved BY <2>1, <2>2 DEF Unmoved
  <2> QED BY <2>3, ScoreboardKept
<1>6. ASSUME NEW t \in dev, DeviceAnswer(t) PROVE ScoreboardInv'
  <2>1. Respond(t) /\ UNCHANGED <<rejected, enabled, sbVars>>
    BY <1>6 DEF DeviceAnswer
  <2>2. UNCHANGED merged_writes BY <1>0, <2>1, AnswerFacts
  <2>3. CASE UNCHANGED <<bus, served, inflight, Outstanding>>
    <3>1. Unmoved BY <2>1, <2>2, <2>3 DEF Unmoved
    <3> QED BY <3>1, ScoreboardKept
  <2>4. ASSUME NEW c, NEW e, Handed(c, e) PROVE ScoreboardInv'
    BY <1>0, <1>3, <2>1, <2>4, ScoreboardHanded
  <2> QED BY <1>0, <1>6, <2>3, <2>4, AnswerOnBus
<1>7. ASSUME NEW l \in LocalCmd, Local(l) PROVE ScoreboardInv'
  BY <1>0, <1>3, <1>7, ScoreboardLocal
<1>8. ASSUME NEW s \in BusStream, Observe(s) PROVE ScoreboardInv'
  BY <1>0, <1>8, ScoreboardObserve
<1>9. ASSUME Reset PROVE ScoreboardInv'
  <2>1. AssertReset /\ UNCHANGED <<rejected, enabled, sbVars>>
    BY <1>9 DEF Reset
  <2>2. epoch' = epoch + 1 BY <1>0, <2>1, ResetFacts
  <2>3. epoch' # epoch BY <1>0, <2>2 DEF RefreshTagsInv
  <2>4. ~enabled BY <1>3, <2>3 DEF Tested
  <2>5. Unmoved BY <2>1, <2>4 DEF Unmoved
  <2> QED BY <2>5, ScoreboardKept
<1>10. ASSUME Unobserved \/ UNCHANGED allVars PROVE ScoreboardInv'
  <2>1. UNCHANGED obsVars /\ (Unobserved \/ UNCHANGED vars)
    BY <1>10 DEF Unobserved, allVars
  <2>2. UNCHANGED <<bus, rejected, enabled, sbVars>> BY <2>1 DEF obsVars
  <2>3. UNCHANGED inflight BY <1>0, <2>1, UnseenSteps DEF Unseen
  <2>4. enabled => UNCHANGED merged_writes BY <1>3 DEF Tested
  <2>5. Unmoved BY <2>2, <2>3, <2>4 DEF Unmoved
  <2> QED BY <2>5, ScoreboardKept
<1>11. ScoreboardInv'
  BY <1>1, <1>4, <1>5, <1>6, <1>7, <1>8, <1>9, <1>10 DEF ObsNext
<1> QED BY <1>2, <1>11

LEMMA TestHolds == TestSpec => []TestInv
<1>1. TestInv /\ [TestNext]_allVars => TestInv' BY TestStep
<1> QED BY <1>1, TestStarts, PTL DEF TestSpec

LEMMA VerdictRight ==
  ASSUME TestInv
  PROVE  ScoreboardExact
<1>0. BackendHolds /\ BusInv /\ ScoreboardInv BY DEF TestInv, CollectorInv
<1>1. MatchedOwn
  <2>1. IsFiniteSet(rejected) BY <1>0 DEF BusInv
  <2>2. /\ Cardinality(rejected) \in Nat /\ Cardinality(LocalNumbers) \in Nat
        /\ unpredicted_responses \in Nat /\ decerr_responses \in Nat
    BY <1>0, <2>1, LocalsFinite, FS_CardinalityType DEF ScoreboardInv
  <2>3. unpredicted_responses + decerr_responses <= Cardinality(rejected)
    <3>1. CASE enabled
      <4>1. unpredicted_responses + decerr_responses
              + Cardinality(LocalNumbers) = Cardinality(rejected)
        BY <1>0, <3>1 DEF ScoreboardInv, VerdictInv
      <4> QED BY ONLY <2>2, <4>1
    <3>2. CASE ~enabled
      <4>1. unpredicted_responses = 0 /\ decerr_responses = 0
        BY <1>0, <3>2 DEF ScoreboardInv
      <4> QED BY ONLY <2>2, <4>1
    <3> QED BY <3>1, <3>2
  <2> QED BY <1>0, <2>3 DEF ScoreboardInv, MatchedOwn
<1>2. ASSUME Quiet, enabled, NEW s \in BusStream PROVE pending[s] = <<>>
  <2>1. Outstanding = {} /\ bus[s] = <<>> BY <1>2 DEF Quiet
  <2>2. OnBus(s) = {} BY <2>1 DEF OnBus
  <2>3. inflight = {}
    <3>1. allPending = {} BY <2>1, OutstandingParts
    <3> QED BY <1>0, <3>1, PartsOfBackend
  <2>4. Owed(s) = {} BY <2>2, <2>3 DEF Owed
  <2>5. Predicts(pending[s], bus[s], {})
    BY <1>0, <1>2, <2>4 DEF ScoreboardInv, VerdictInv, PendingInv
  <2>6. {pending[s][k] : k \in DOMAIN pending[s]} = {}
    BY <2>5 DEF Predicts
  <2>7. DOMAIN pending[s] = {} BY <2>6
  <2>8. pending[s] \in Seq(Nat) BY <1>0 DEF ScoreboardInv
  <2> QED BY <2>7, <2>8, NoPrediction
<1>3. EndsClean BY <1>2 DEF EndsClean, check_phase
<1> QED BY <1>1, <1>3 DEF ScoreboardExact

(* The scoreboard's verdict, for every workload and every mix of rejected  *)
(* commands, in the tests that enable it: _check_completion takes a        *)
(* prediction only for the response of the command that it was made for,   *)
(* nothing but a frontend's own answer finds none, and check_phase never   *)
(* fails once every command was answered and seen.                         *)
THEOREM ScoreboardIsExact == TestSpec => []ScoreboardExact
<1>1. TestInv => ScoreboardExact BY VerdictRight
<1> QED BY <1>1, TestHolds, PTL
=============================================================================
