-------------------------- MODULE ConcurrencySlots --------------------------
(***************************************************************************)
(* Concurrency limits kept in Redis.  A request counts itself in its       *)
(* user's wait counter, takes one of the user's slots, then one of the     *)
(* account's (counting itself in the account's wait counter if it has to   *)
(* wait), runs, and gives both back.  When its client leaves, callbacks    *)
(* give both back at once, in any order, while the request may go on       *)
(* reading its upstream answer.  A key's slots are a sorted set of         *)
(* request ids, from which members older than the TTL are removed before   *)
(* every count; a member whose request no longer knows of it is leaked.    *)
(* A process that starts removes the slots that are not its own.           *)
(***************************************************************************)
EXTENDS Naturals, FiniteSets

CONSTANTS Requests, Processes,
          Process,    \* the process that serves each request
          Users, Accounts,
          User, Account,  \* of each request
          Limit,      \* concurrency of each user and account
          MaxWait,    \* bound of its wait counter
          MaxFaults   \* bound: failures of Redis or a process, clients that leave, requests and
                      \* waits that outlast a TTL, restarts

Keys == Users \cup Accounts

ASSUME SlotAssumption ==
  /\ Process \in [Requests -> Processes] /\ User \in [Requests -> Users]
  /\ Account \in [Requests -> Accounts] /\ Users \cap Accounts = {}
  /\ Limit \in [Keys -> Nat \ {0}] /\ MaxWait \in [Keys -> Nat] /\ MaxFaults \in Nat
  /\ IsFiniteSet(Requests)

VARIABLES
  slots,    \* of each key: requests whose member is in the sorted set
  leaked,   \* of each key: how many other members it has
  wait,     \* of each key: the wait counter
  pc,       \* of each request: where it is
  key,      \* of each request: the key it works on
  counted,  \* of each request: waitCounted
  holds,    \* of each request: keys whose release functions were not called yet
  gone,     \* requests whose client has left: their context is cancelled
  faults,
  excused,  \* history: request and key whose slot was removed under it
  drifted   \* history: keys whose counter missed an increment or a decrement, or
            \* expired under a request that is counted

vars == <<slots, leaked, wait, pc, key, counted, holds, gone, faults, excused, drifted>>

(* Slots, counters and requests keep their types, and no sorted set grows  *)
(* beyond its key's limit.                                                 *)
TypeOK ==
  /\ slots \in [Keys -> SUBSET Requests] /\ leaked \in [Keys -> Nat]
  /\ \A k \in Keys : Cardinality(slots[k]) + leaked[k] <= Limit[k]
  /\ wait \in [Keys -> Nat] /\ \A k \in Keys : wait[k] <= MaxWait[k]
  /\ pc \in [Requests -> {"idle", "count", "wait", "uncount", "try", "run", "leave", "release"}]
  /\ key \in [Requests -> Keys] /\ counted \in [Requests -> BOOLEAN]
  /\ holds \in [Requests -> SUBSET Keys] /\ gone \in SUBSET Requests /\ faults \in 0..MaxFaults
  /\ excused \in SUBSET (Requests \X Keys) /\ drifted \in SUBSET Keys

Init ==
  /\ slots = [k \in Keys |-> {}] /\ leaked = [k \in Keys |-> 0] /\ wait = [k \in Keys |-> 0]
  /\ pc = [r \in Requests |-> "idle"] /\ key = [r \in Requests |-> User[r]]
  /\ counted = [r \in Requests |-> FALSE] /\ holds = [r \in Requests |-> {}]
  /\ gone = {} /\ faults = 0 /\ excused = {} /\ drifted = {}

Goto(r, label) == pc' = [pc EXCEPT ![r] = label]
Fault == faults < MaxFaults /\ faults' = faults + 1
Fails(r) == (r \in gone /\ UNCHANGED faults) \/ Fault
Counted(k) == {r \in Requests : counted[r] /\ key[r] = k}
KeysOf(r) == {User[r], Account[r]}

-----------------------------------------------------------------------------
Arrive(r) ==
  /\ pc[r] = "idle" /\ Goto(r, "count")
  /\ UNCHANGED <<slots, leaked, wait, key, counted, holds, gone, faults, excused, drifted>>

(* The request's context is cancelled. *)
ClientLeaves(r) ==
  /\ pc[r] # "idle" /\ r \notin gone /\ Fault /\ gone' = gone \cup {r}
  /\ UNCHANGED <<slots, leaked, wait, pc, key, counted, holds, excused, drifted>>

(* IncrementWaitCount: a full queue refuses the request; an error of Redis  *)
(* or a cancelled context lets it pass as if it was counted.                *)
IncrementWaitCount(r) ==
  /\ pc[r] = "count"
  /\ LET k == key[r] IN
       \/ /\ r \notin gone /\ wait[k] < MaxWait[k] /\ wait' = [wait EXCEPT ![k] = @ + 1]
          /\ counted' = [counted EXCEPT ![r] = TRUE] /\ Goto(r, "wait")
          /\ UNCHANGED <<faults, drifted>>
       \/ /\ r \notin gone /\ wait[k] >= MaxWait[k] /\ Goto(r, "release")
          /\ UNCHANGED <<wait, counted, faults, drifted>>
       \/ /\ Fails(r) /\ counted' = [counted EXCEPT ![r] = TRUE] /\ Goto(r, "wait")
          /\ drifted' = drifted \cup {k} /\ UNCHANGED wait
  /\ UNCHANGED <<slots, leaked, key, holds, gone, excused>>

(* Mutant: the members are counted after the new one is added. *)
RoomTooLate(k) == Cardinality(slots[k]) + leaked[k] <= Limit[k]

(* acquireScript: ZCARD < maxConcurrency. *)
Room(k) == Cardinality(slots[k]) + leaked[k] < Limit[k]

(* The script adds the member, or finds no room (the request goes to full), *)
(* or fails: then it may have added a member that nobody will remove.  With *)
(* a cancelled context it is not sent.                                      *)
Acquire(r, then, full, failed) ==
  LET k == key[r] IN
    \/ /\ r \notin gone /\ Room(k) /\ slots' = [slots EXCEPT ![k] = @ \cup {r}]
       /\ holds' = [holds EXCEPT ![r] = @ \cup {k}] /\ Goto(r, then)
       /\ UNCHANGED <<leaked, faults>>
    \/ r \notin gone /\ ~Room(k) /\ Goto(r, full) /\ UNCHANGED <<slots, leaked, holds, faults>>
    \/ /\ Fails(r) /\ Goto(r, failed) /\ UNCHANGED <<slots, holds>>
       /\ \/ UNCHANGED leaked
          \/ r \notin gone /\ Room(k) /\ leaked' = [leaked EXCEPT ![k] = @ + 1]

(* waitForSlotWithPingTimeout: one attempt, repeated with back-off. *)
WaitForSlot(r) ==
  /\ pc[r] = "wait" /\ Acquire(r, "uncount", "wait", "leave")
  /\ UNCHANGED <<wait, key, counted, gone, excused, drifted>>

(* Mutant: a request waits as long as it takes. *)
WaitForever(r) == pc[r] = "wait" /\ FALSE /\ UNCHANGED vars

(* The wait ends without a slot: time-out, or the client has gone. *)
WaitTimesOut(r) ==
  /\ pc[r] = "wait" /\ Goto(r, "leave")
  /\ UNCHANGED <<slots, leaked, wait, key, counted, holds, gone, faults, excused, drifted>>

(* Mutant: waitCounted stays set after the slot was acquired. *)
DecrementAgain(r) ==
  /\ counted[r] /\ wait' = [wait EXCEPT ![key[r]] = IF @ > 0 THEN @ - 1 ELSE 0]
  /\ UNCHANGED <<counted, faults, drifted>>

(* DecrementWaitCount, once: never below 0, and its error is only logged.   *)
DecrementWaitCount(r) ==
  \/ ~counted[r] /\ UNCHANGED <<wait, counted, faults, drifted>>
  \/ /\ counted[r] /\ counted' = [counted EXCEPT ![r] = FALSE]
     /\ \/ wait' = [wait EXCEPT ![key[r]] = IF @ > 0 THEN @ - 1 ELSE 0] /\ UNCHANGED <<faults, drifted>>
        \/ Fault /\ drifted' = drifted \cup {key[r]} /\ UNCHANGED wait

(* The slot is acquired: the request leaves the queue and, with its user's  *)
(* slot, selects the account.                                               *)
LeaveQueue(r) ==
  /\ pc[r] = "uncount" /\ DecrementWaitCount(r)
  /\ \/ key[r] \in Users /\ Goto(r, "try") /\ key' = [key EXCEPT ![r] = Account[r]]
     \/ key[r] \in Accounts /\ Goto(r, "run") /\ UNCHANGED key
  /\ UNCHANGED <<slots, leaked, holds, gone, excused>>

(* Selecting the account tries its slot at once, without being counted; a  *)
(* full or failing one leads to the wait plan, and no account to an error. *)
TryAccount(r) ==
  /\ pc[r] = "try"
  /\ \/ Acquire(r, "run", "count", "count")
     \/ Goto(r, "release") /\ UNCHANGED <<slots, leaked, holds, faults>>
  /\ UNCHANGED <<wait, key, counted, gone, excused, drifted>>

(* A request that gives up leaves the queue. *)
GiveUp(r) ==
  /\ pc[r] = "leave" /\ DecrementWaitCount(r) /\ Goto(r, "release")
  /\ UNCHANGED <<slots, leaked, key, holds, gone, excused>>

(* Forward returns.  When the client has left, it does so at once or after *)
(* draining the upstream answer on a detached context.                     *)
Finish(r) ==
  /\ pc[r] = "run" /\ Goto(r, "release")
  /\ UNCHANGED <<slots, leaked, wait, key, counted, holds, gone, faults, excused, drifted>>

(* Mutant: some member is removed, not the request's own. *)
RemovedAny(k, r) == slots[k] \ {CHOOSE q \in Requests : q \in slots[k] \cup {r}}

(* ZREM of the request's own id. *)
Removed(k, r) == slots[k] \ {r}

(* The handler releases the account's slot before the user's.  Once the     *)
(* client has left, the callbacks of wrapReleaseOnDone release in any order *)
(* what is registered with them: not yet the slot just acquired.            *)
MayRelease(r, k) ==
  \/ pc[r] = "release" /\ (k \in Users => holds[r] \subseteq Users)
  \/ r \in gone /\ (pc[r] = "uncount" => k # key[r])

(* Releasing a slot, once; an error leaks the member.                       *)
ReleaseSlot(r, k) ==
  /\ k \in holds[r] /\ MayRelease(r, k)
  /\ slots' = [slots EXCEPT ![k] = Removed(k, r)]
  /\ \/ UNCHANGED <<leaked, faults>>
     \/ r \in slots[k] /\ Fault /\ leaked' = [leaked EXCEPT ![k] = @ + 1]
  /\ holds' = [holds EXCEPT ![r] = @ \ {k}]
  /\ UNCHANGED <<wait, pc, key, counted, gone, excused, drifted>>

Answer(r) ==
  /\ pc[r] = "release" /\ holds[r] = {} /\ Goto(r, "idle") /\ gone' = gone \ {r}
  /\ key' = [key EXCEPT ![r] = User[r]] /\ excused' = {e \in excused : e[1] # r}
  /\ UNCHANGED <<slots, leaked, wait, counted, holds, faults, drifted>>

-----------------------------------------------------------------------------
(* A leaked member becomes older than the TTL. *)
LeakExpires(k) ==
  /\ leaked[k] > 0 /\ leaked' = [leaked EXCEPT ![k] = @ - 1]
  /\ UNCHANGED <<slots, wait, pc, key, counted, holds, gone, faults, excused, drifted>>

(* So does the member of a request that is still running: nothing renews it. *)
SlotExpires(r, k) ==
  /\ r \in slots[k] /\ Fault
  /\ slots' = [slots EXCEPT ![k] = @ \ {r}] /\ excused' = excused \cup {<<r, k>>}
  /\ UNCHANGED <<leaked, wait, pc, key, counted, holds, gone, drifted>>

(* The counter's TTL, restarted by each increment, ends.  It is as long as  *)
(* the longest wait for an account in whole seconds (and may be shorter     *)
(* than that for a user), so that somebody may still be counted.            *)
WaitExpires(k) ==
  /\ wait[k] > 0 \/ k \in drifted
  /\ wait' = [wait EXCEPT ![k] = 0]
  /\ \/ Counted(k) = {} /\ drifted' = drifted \ {k} /\ UNCHANGED faults
     \/ Counted(k) # {} /\ drifted' = drifted \cup {k} /\ Fault
  /\ UNCHANGED <<slots, leaked, pc, key, counted, holds, gone, excused>>

(* A process dies: its members and its share of the counters stay. *)
Crash(p) ==
  /\ Fault
  /\ LET dead == {r \in Requests : Process[r] = p} IN
       /\ slots' = [k \in Keys |-> slots[k] \ dead]
       /\ leaked' = [k \in Keys |-> leaked[k] + Cardinality(slots[k] \cap dead)]
       /\ drifted' = drifted \cup {k \in Keys : Counted(k) \cap dead # {}}
       /\ pc' = [r \in Requests |-> IF r \in dead THEN "idle" ELSE pc[r]]
       /\ counted' = [r \in Requests |-> r \notin dead /\ counted[r]]
       /\ holds' = [r \in Requests |-> IF r \in dead THEN {} ELSE holds[r]]
       /\ key' = [r \in Requests |-> IF r \in dead THEN User[r] ELSE key[r]]
       /\ gone' = gone \ dead /\ excused' = {e \in excused : e[1] \notin dead}
  /\ UNCHANGED wait

(* CleanupStaleProcessSlots of a process that starts: every member without  *)
(* its own, new prefix is removed, and the wait counter deleted - of all    *)
(* keys in the active index, which is kept by best effort and may lack k.   *)
CleanupStaleProcessSlots(p, k) ==
  /\ \A r \in Requests : Process[r] = p => pc[r] = "idle"
  /\ Fault
  /\ slots' = [slots EXCEPT ![k] = {}] /\ leaked' = [leaked EXCEPT ![k] = 0]
  /\ wait' = [wait EXCEPT ![k] = 0]
  /\ excused' = excused \cup (slots[k] \X {k})
  /\ drifted' = IF Counted(k) = {} THEN drifted \ {k} ELSE drifted \cup {k}
  /\ UNCHANGED <<pc, key, counted, holds, gone>>

-----------------------------------------------------------------------------
RequestStep(r) ==
  \/ IncrementWaitCount(r) \/ WaitForSlot(r) \/ LeaveQueue(r) \/ TryAccount(r)
  \/ GiveUp(r) \/ Finish(r) \/ Answer(r) \/ \E k \in Keys : ReleaseSlot(r, k)

Next ==
  \/ \E r \in Requests : Arrive(r) \/ ClientLeaves(r) \/ RequestStep(r) \/ WaitTimesOut(r)
  \/ \E k \in Keys : LeakExpires(k) \/ WaitExpires(k)
  \/ \E r \in Requests, k \in Keys : SlotExpires(r, k)
  \/ \E p \in Processes : Crash(p) \/ \E k \in Keys : CleanupStaleProcessSlots(p, k)

Spec == Init /\ [][Next]_vars

(* A request goes on, its wait is limited by a timer, and upstream calls    *)
(* have time-outs.                                                          *)
Fairness ==
  \A r \in Requests : WF_vars(RequestStep(r)) /\ WF_vars(WaitTimesOut(r))

FairSpec == Spec /\ Fairness

-----------------------------------------------------------------------------
(* No more requests occupy a user or account than it is allowed: those who  *)
(* hold its slot, and those whose upstream call runs while their client     *)
(* waits for it.  Excepted are members that outlived the TTL or were        *)
(* removed by a process that started, and calls that are drained after the  *)
(* client has left, whose slots are free.  Leaks, lost answers, crashes and *)
(* releases in any order free no other slot.                                *)
LimitHolds ==
  \A k \in Keys :
    Cardinality({r \in Requests : /\ <<r, k>> \notin excused
                                 /\ \/ k \in holds[r]
                                    \/ pc[r] = "run" /\ r \notin gone /\ k \in KeysOf(r)})
      <= Limit[k]

(* A counter is the number of requests in the queue, each way out           *)
(* decrements once - unless a call failed, a process died, a client left    *)
(* before it was counted, or the counter's TTL ended under a waiting        *)
(* request; and then only until it ends with nobody in the queue.           *)
WaitIsExact == \A k \in Keys \ drifted : wait[k] = Cardinality(Counted(k))

(* Every request ends, although it waits for the account's slot while it    *)
(* holds the user's, and although slots may be leaked.                      *)
RequestEnds == \A r \in Requests : pc[r] # "idle" ~> pc[r] = "idle"
=============================================================================
