---------------------------- MODULE UsageBilling ----------------------------
(***************************************************************************)
(* Charging requests at most once: usageBillingRepository.Apply claims a   *)
(* deduplication key and applies the charge in one transaction, and a job  *)
(* of every instance moves old keys from usage_billing_dedup to an archive *)
(* table in three statements of their own.  A row of usage_billing_dedup   *)
(* is named by the request whose Apply inserted it (its auto-increment     *)
(* id).  What a charge does to the wallet and its cache is BalanceCache.   *)
(***************************************************************************)
CONSTANTS Requests,      \* calls of applyUsageBilling, retries included
          Keys,          \* (request_id, api_key_id)
          Fingerprints,  \* request_fingerprint
          Cleaners,      \* instances that run the retention job
          None           \* no row

ASSUME NoneAssumption == None \notin Requests \cup Fingerprints

VARIABLES live,     \* usage_billing_dedup: the row of each key
          archive,  \* usage_billing_dedup_archive: the fingerprint of each key
          pc,       \* where each request is
          job,      \* CleanupUsageBillingDedup of each cleaner
          victims,  \* ids it has selected
          key, fp,  \* the input: key and fingerprint of each request
          charged   \* history: requests whose charge is committed, per key

input == <<key, fp>>
jobVars == <<job, victims>>
vars == <<live, archive, pc, jobVars, input, charged>>

(* The transaction holds the row it inserted from "archive" to its end. *)
TxPcs == {"archive", "effects", "commit"}
Pcs == {"idle", "fingerprint", "applied", "duplicate", "conflict", "failed"} \cup TxPcs

(* Tables, requests and jobs keep their types, and a row of               *)
(* usage_billing_dedup is the claim of its own key by an open transaction *)
(* or by a committed charge: no failed Apply leaves one behind.           *)
TypeOK ==
  /\ live \in [Keys -> Requests \cup {None}]
  /\ archive \in [Keys -> Fingerprints \cup {None}]
  /\ pc \in [Requests -> Pcs]
  /\ job \in [Cleaners -> {"idle", "archive", "delete"}]
  /\ victims \in [Cleaners -> SUBSET Requests]
  /\ key \in [Requests -> Keys] /\ fp \in [Requests -> Fingerprints]
  /\ charged \in [Keys -> SUBSET Requests]
  /\ \A k \in Keys : live[k] # None =>
       /\ key[live[k]] = k
       /\ pc[live[k]] \in TxPcs \/ live[k] \in charged[k]

Init ==
  /\ live = [k \in Keys |-> None] /\ archive = [k \in Keys |-> None]
  /\ pc = [r \in Requests |-> "idle"]
  /\ job = [c \in Cleaners |-> "idle"] /\ victims = [c \in Cleaners |-> {}]
  /\ key \in [Requests -> Keys] /\ fp \in [Requests -> Fingerprints]
  /\ charged = [k \in Keys |-> {}]

Goto(r, label) == pc' = [pc EXCEPT ![r] = label]
Committed(k) == live[k] # None /\ pc[live[k]] \notin TxPcs
Without(r) == [k \in Keys |-> IF live[k] = r THEN None ELSE live[k]]

-----------------------------------------------------------------------------
(* claimUsageBillingKey: INSERT IGNORE waits for an uncommitted row. *)
InsertIgnore(r) ==
  /\ pc[r] = "idle"
  /\ \/ live[key[r]] = None /\ live' = [live EXCEPT ![key[r]] = r] /\ Goto(r, "archive")
     \/ Committed(key[r]) /\ Goto(r, "fingerprint") /\ UNCHANGED live
  /\ UNCHANGED <<archive, jobVars, input, charged>>

(* Mutant: the key alone makes a duplicate. *)
VerdictByKey(stored, r) == "duplicate"

(* The stored fingerprint tells a retry from a reused request id. *)
Verdict(stored, r) == IF stored = fp[r] THEN "duplicate" ELSE "conflict"

(* The existing row is read for its fingerprint; by now it may be gone, *)
(* which is an error.                                                   *)
ReadFingerprint(r) ==
  /\ pc[r] = "fingerprint"
  /\ \/ Committed(key[r]) /\ Goto(r, Verdict(fp[live[key[r]]], r))
     \/ ~Committed(key[r]) /\ Goto(r, "failed")
  /\ UNCHANGED <<live, archive, jobVars, input, charged>>

(* The archive is consulted after the insert; a hit rolls the insert back. *)
CheckArchive(r) ==
  /\ pc[r] = "archive"
  /\ \/ archive[key[r]] = None /\ Goto(r, "effects") /\ UNCHANGED live
     \/ archive[key[r]] # None /\ Goto(r, Verdict(archive[key[r]], r)) /\ live' = Without(r)
  /\ UNCHANGED <<archive, jobVars, input, charged>>

(* applyUsageBillingEffects: usage log, wallet, quotas and shares, all in *)
(* the same transaction.                                                  *)
applyUsageBillingEffects(r) ==
  /\ pc[r] = "effects"
  /\ Goto(r, "commit")
  /\ UNCHANGED <<live, archive, jobVars, input, charged>>

(* tx.Commit; when its answer is lost, Apply reports an error. *)
Commit(r) ==
  /\ pc[r] = "commit"
  /\ charged' = [charged EXCEPT ![key[r]] = @ \cup {r}]
  /\ Goto(r, "applied") \/ Goto(r, "failed")
  /\ UNCHANGED <<live, archive, jobVars, input>>

(* Mutant: the claim is inserted outside the transaction. *)
RollbackKeepsClaim(r) ==
  /\ pc[r] \in {"idle", "fingerprint"} \cup TxPcs
  /\ Goto(r, "failed")
  /\ UNCHANGED <<live, archive, jobVars, input, charged>>

(* An error, or the death of the process, rolls the transaction back. *)
Rollback(r) ==
  /\ pc[r] \in {"idle", "fingerprint"} \cup TxPcs
  /\ live' = Without(r)
  /\ Goto(r, "failed")
  /\ UNCHANGED <<archive, jobVars, input, charged>>

-----------------------------------------------------------------------------
(* CleanupUsageBillingDedup selects a batch of old rows; any committed row *)
(* may be old enough.                                                      *)
SelectVictims(c) ==
  /\ job[c] = "idle"
  /\ \E V \in SUBSET {live[k] : k \in {k \in Keys : Committed(k)}} :
       V # {} /\ victims' = [victims EXCEPT ![c] = V]
  /\ job' = [job EXCEPT ![c] = "archive"]
  /\ UNCHANGED <<live, archive, pc, input, charged>>

(* INSERT IGNORE ... SELECT of the victims that still exist. *)
ArchiveVictims(c) ==
  /\ job[c] = "archive"
  /\ archive' = [k \in Keys |-> IF live[k] \in victims[c] /\ archive[k] = None
                                 THEN fp[live[k]] ELSE archive[k]]
  /\ job' = [job EXCEPT ![c] = "delete"]
  /\ UNCHANGED <<live, pc, victims, input, charged>>

JobEnds(c) ==
  /\ job' = [job EXCEPT ![c] = "idle"]
  /\ victims' = [victims EXCEPT ![c] = {}]

(* Mutant: the rows are deleted by age, as they were selected. *)
DeleteByAge(c) ==
  /\ job[c] = "delete"
  /\ live' = [k \in Keys |-> IF Committed(k) THEN None ELSE live[k]]
  /\ JobEnds(c)
  /\ UNCHANGED <<archive, pc, input, charged>>

(* DELETE of the selected ids. *)
DeleteVictims(c) ==
  /\ job[c] = "delete"
  /\ live' = [k \in Keys |-> IF live[k] \in victims[c] THEN None ELSE live[k]]
  /\ JobEnds(c)
  /\ UNCHANGED <<archive, pc, input, charged>>

(* A statement fails, or the instance dies: the job starts over later. *)
JobStops(c) ==
  /\ job[c] # "idle"
  /\ JobEnds(c)
  /\ UNCHANGED <<live, archive, pc, input, charged>>

-----------------------------------------------------------------------------
RequestStep(r) ==
  \/ InsertIgnore(r) \/ ReadFingerprint(r) \/ CheckArchive(r)
  \/ applyUsageBillingEffects(r) \/ Commit(r) \/ Rollback(r)

CleanerStep(c) == SelectVictims(c) \/ ArchiveVictims(c) \/ DeleteVictims(c) \/ JobStops(c)

Next == (\E r \in Requests : RequestStep(r)) \/ (\E c \in Cleaners : CleanerStep(c))

Spec == Init /\ [][Next]_vars

-----------------------------------------------------------------------------
(* At most one request of a (request_id, api_key_id) is ever charged, no  *)
(* matter how Apply interleaves with the jobs that move the key from      *)
(* usage_billing_dedup to the archive: UsageBillingCommand "must be       *)
(* applied at most once".                                                 *)
ChargedOnce == \A k \in Keys : \A a, b \in charged[k] : a = b

(* What Apply answers is true of the database: "applied" was charged for  *)
(* this request, and duplicate or conflict is only answered when a        *)
(* request with the same, or another, fingerprint was really charged -    *)
(* also when the first holder of the key rolled back and when the key has *)
(* been archived meanwhile.                                               *)
AnswerIsTrue ==
  \A r \in Requests :
    /\ pc[r] = "applied" => r \in charged[key[r]]
    /\ pc[r] = "duplicate" => \E o \in charged[key[r]] : o # r /\ fp[o] = fp[r]
    /\ pc[r] = "conflict" => \E o \in charged[key[r]] : fp[o] # fp[r]
=============================================================================
