------------------------- MODULE ReconExecutorProofs -------------------------
(***************************************************************************)
(* Proofs about the reconciliation executor, for any number of items, runs, *)
(* overlapping kicks and crashes.                                           *)
(***************************************************************************)
EXTENDS ReconExecutor, TLAPS

USE ConstantsAssumption

-----------------------------------------------------------------------------
(* Types.                                                                  *)

(* The owner-guarded row updates keep the columns well typed.               *)
LEMMA RowUpdatesTyped ==
    ASSUME TypeOK, NEW w \in Workers, NEW i \in Items, NEW st \in Statuses,
           \/ finalize(w, i, st)
           \/ releaseToRetry(w, i)
           \/ markApplied(w, i, st)
    PROVE  /\ status' \in [Items -> Statuses]
           /\ owner' \in [Items -> Workers \cup {NoOwner}]
           /\ leased' \in SUBSET Items
           /\ attempts' \in [Items -> 0..MaxAttempts]
           /\ beforeImage' \in [Items -> BeforeImages]
           /\ due' \in SUBSET Items
           /\ appliedAt' \in [Items -> {"never", "recent", "past"}]
<1> USE DEF TypeOK, Release, rowVars, Statuses
<1>1. CASE finalize(w, i, st)
  BY <1>1 DEF finalize
<1>2. CASE releaseToRetry(w, i)
  BY <1>2 DEF releaseToRetry, finalize
<1>3. CASE markApplied(w, i, st)
  BY <1>3 DEF markApplied
<1> QED BY <1>1, <1>2, <1>3

(* So do the resets of a kick's local state.                                *)
LEMMA KickUpdatesTyped ==
    ASSUME TypeOK, NEW w \in Workers,
           \/ ResetKick(w)
           \/ BackToLoop(w)
           \/ \E i \in Items : DropFromTodo(w, i)
    PROVE  /\ pc' \in [Workers -> PCs]
           /\ kickRun' \in [Workers -> Runs \cup {NoRun}]
           /\ todo' \in [Workers -> SUBSET Items]
           /\ item' \in [Workers -> Items \cup {NoItem}]
           /\ throttled' \in [Workers -> SUBSET Systems]
           /\ answer' \in [Workers -> Answers]
<1> USE DEF TypeOK, PCs, Answers
<1>1. CASE ResetKick(w)
  BY <1>1 DEF ResetKick
<1>2. CASE BackToLoop(w)
  BY <1>2 DEF BackToLoop
<1>3. CASE \E i \in Items : DropFromTodo(w, i)
  BY <1>3 DEF DropFromTodo
<1> QED BY <1>1, <1>2, <1>3

(* Every step of the executor preserves the types, given that a kick past   *)
(* W1 works on an item of the table.                                        *)
LEMMA TypeStep ==
    ASSUME TypeOK, KickShape, [Next]_execVars
    PROVE  TypeOK'
<1> USE DEF TypeOK
<1>1. ASSUME NEW w \in Workers, NEW r \in Runs, StartKick(w, r) PROVE TypeOK'
  BY <1>1 DEF StartKick, reapStuckApplying, Stuck, runVars, PCs, Statuses
<1>2. ASSUME NEW w \in Workers, NothingToLease(w) \/ KickDone(w) PROVE TypeOK'
  BY <1>2, KickUpdatesTyped DEF NothingToLease, KickDone, runVars, rowVars
<1>3. ASSUME NEW w \in Workers, NEW S \in SUBSET Items, leaseBatch(w, S) PROVE TypeOK'
  BY <1>3 DEF leaseBatch, runVars, PCs, Statuses, BeforeImages
<1>4. ASSUME NEW w \in Workers, NEW i \in Items, ReleaseThrottled(w, i) PROVE TypeOK'
  BY <1>4, RowUpdatesTyped, KickUpdatesTyped DEF ReleaseThrottled, runVars
<1>5. ASSUME NEW w \in Workers, NEW i \in Items, NEW v, ReconfirmItem(w, i, v)
      PROVE  TypeOK'
  <2>1. CASE Proceed(w, i)
    BY <1>5, <2>1 DEF ReconfirmItem, Proceed, runVars, rowVars, PCs
  <2>2. CASE DropFromTodo(w, i)
    <3>1. contested' \in SUBSET Trucks
      BY <1>5, <2>2 DEF ReconfirmItem, Proceed
    <3>2. finalize(w, i, "held") \/ finalize(w, i, "skipped") \/ releaseToRetry(w, i)
          \/ UNCHANGED rowVars
      BY <1>5, <2>2 DEF ReconfirmItem, Proceed
    <3> QED BY <1>5, <2>2, <3>1, <3>2, RowUpdatesTyped, KickUpdatesTyped
            DEF ReconfirmItem, runVars, rowVars, Statuses
  <2> QED BY <1>5, <2>1, <2>2 DEF ReconfirmItem
<1>6. ASSUME NEW w \in Workers, renewLeaseOrAbort(w) PROVE TypeOK'
  BY <1>6, KickUpdatesTyped
     DEF renewLeaseOrAbort, LostLease, KickShape, runVars, rowVars, PCs
<1>7. ASSUME NEW w \in Workers, StampBeforeImage(w) PROVE TypeOK'
  BY <1>7, KickUpdatesTyped
     DEF StampBeforeImage, LostLease, runVars, rowVars, PCs, WritePCs, BeforeImages
<1>8. ASSUME NEW w \in Workers, pc[w] \in {"stamp"} \cup WritePCs PROVE item[w] \in Items
  BY <1>8 DEF KickShape
<1>9. ASSUME NEW w \in Workers, StampFails(w) \/ SettleAuth(w) PROVE TypeOK'
  BY <1>9, <1>8, RowUpdatesTyped, KickUpdatesTyped DEF StampFails, SettleAuth, runVars, WritePCs
<1>10. ASSUME NEW w \in Workers, NEW a \in Answers, NEW n \in {0, 1}, executeReconWrite(w, a, n)
       PROVE  TypeOK'
  <2>1. accepted' \in [Items -> Nat]
    BY <1>8, <1>10 DEF executeReconWrite, WritePCs
  <2>2. mirror' \in [Surfaces -> Items \cup {NoItem}]
    BY <1>10 DEF executeReconWrite, PreCheck
  <2>3. /\ pc' \in [Workers -> PCs]
        /\ answer' \in [Workers -> Answers]
    BY <1>10 DEF executeReconWrite, PCs, WritePCs
  <2> QED BY <1>10, <2>1, <2>2, <2>3 DEF executeReconWrite, runVars, rowVars
<1>11. ASSUME NEW w \in Workers, SettleError(w) \/ SettleSkipped(w) PROVE TypeOK'
  BY <1>11, <1>8, RowUpdatesTyped, KickUpdatesTyped
     DEF SettleError, SettleSkipped, runVars, Statuses, WritePCs
<1>12. ASSUME NEW w \in Workers, SettleThrottle(w) PROVE TypeOK'
  BY <1>12, <1>8, RowUpdatesTyped DEF SettleThrottle, runVars, PCs, Answers, WritePCs
<1>13. ASSUME NEW w \in Workers, CommitApplied(w) \/ persistCachePending(w) PROVE TypeOK'
  <2>1. item[w] \in Items
    BY <1>8, <1>13 DEF CommitApplied, persistCachePending, WritePCs
  <2>2. /\ fence' \in [Surfaces -> Items \cup {NoItem}]
        /\ mirror' \in [Surfaces -> Items \cup {NoItem}]
    BY <1>13, <2>1 DEF CommitApplied, persistCachePending, MirrorAndFence
  <2> QED BY <1>13, <2>1, <2>2, RowUpdatesTyped, KickUpdatesTyped
          DEF CommitApplied, persistCachePending, runVars, Statuses
<1>14. ASSUME NEW w \in Workers, CommitFails(w) \/ PersistGivesUp(w) PROVE TypeOK'
  BY <1>14, KickUpdatesTyped DEF CommitFails, PersistGivesUp, runVars, rowVars, PCs, WritePCs
<1>15. ASSUME NEW w \in Workers, NEW n \in {0, 1}, Crash(w, n) PROVE TypeOK'
  <2>1. accepted' \in [Items -> Nat]
    BY <1>8, <1>15 DEF Crash, WritePCs
  <2> QED BY <1>15, <2>1, KickUpdatesTyped DEF Crash, runVars, rowVars
<1>16. ASSUME NEW i \in Items, LeaseExpires(i) \/ RetryTimeComes(i) PROVE TypeOK'
  <2>1. CASE LeaseExpires(i)
    BY <2>1 DEF LeaseExpires, runVars, kickVars
  <2>2. CASE RetryTimeComes(i)
    BY <2>2 DEF RetryTimeComes, runVars, kickVars
  <2> QED BY <1>16, <2>1, <2>2
<1>17. ASSUME NEW r \in Runs, EngageKillSwitch(r) PROVE TypeOK'
  BY <1>17 DEF EngageKillSwitch, rowVars, kickVars
<1>18. ASSUME UNCHANGED execVars PROVE TypeOK'
  BY <1>18 DEF execVars, runVars, rowVars, kickVars
<1> HIDE DEF TypeOK
<1>19. ASSUME NEW w \in Workers, WorkerStep(w) PROVE TypeOK'
  BY <1>2, <1>3, <1>4, <1>5, <1>6, <1>7, <1>9, <1>10, <1>11, <1>12, <1>13, <1>14, <1>19
     DEF WorkerStep, LeaseStep, ItemStep, WriteStep, SettleStep
<1> QED BY <1>1, <1>15, <1>16, <1>17, <1>18, <1>19 DEF Next

-----------------------------------------------------------------------------
(* The lease discipline.                                                   *)

(* A worker is finished with item i: its owner-guarded update moved the row *)
(* to st or matched nothing, and the worker is back in its loop.            *)
DoneWith(w, i, st) ==
    /\ \/ owner[i] = w /\ Release(i, st)
       \/ owner[i] # w /\ UNCHANGED <<status, owner>>
       \/ UNCHANGED <<status, owner>>
    /\ UNCHANGED <<beforeImage, accepted>>
    /\ pc' = [pc EXCEPT ![w] = "loop"]
    /\ todo'[w] \subseteq todo[w]
    /\ \A v \in Workers \ {w} :
          todo'[v] = todo[v] /\ item'[v] = item[v] /\ answer'[v] = answer[v]

(* Being done with an item keeps the discipline, provided a row whose write *)
(* was taken is not put back among the unwritten ones.                      *)
LEMMA DoneWithStep ==
    ASSUME TypeOK, TypeOK', LeaseDiscipline, NEW w \in Workers, NEW i \in Items,
           NEW st \in Statuses \ {"applying"}, DoneWith(w, i, st),
           (owner[i] = w /\ accepted[i] # 0) => st \in WrittenStatuses
    PROVE  LeaseDiscipline'
<1> USE DEF TypeOK
<1>1. \A j \in Items : \/ status'[j] = status[j] /\ owner'[j] = owner[j]
                       \/ /\ j = i /\ owner[i] = w /\ status[i] = "applying"
                          /\ status'[i] = st /\ owner'[i] = NoOwner
  BY DEF DoneWith, Release, LeaseDiscipline, OwnedIffApplying
<1>2. pc'[w] = "loop" /\ \A v \in Workers \ {w} : pc'[v] = pc[v]
  BY DEF DoneWith
<1>3. OwnedIffApplying'
  BY <1>1 DEF LeaseDiscipline, OwnedIffApplying
<1>4. KickShape'
  BY <1>2 DEF LeaseDiscipline, KickShape, DoneWith, WritePCs
<1>5. WriterHoldsRow'
  <2> SUFFICES ASSUME NEW v \in Workers \ {w}, pc[v] \in WritePCs
               PROVE  /\ beforeImage'[item[v]] # "none"
                      /\ owner'[item[v]] = v \/ status'[item[v]] \in Rescued
    BY <1>2 DEF WriterHoldsRow, DoneWith, WritePCs
  <2>1. item[v] \in Items
    BY DEF LeaseDiscipline, KickShape
  <2>2. owner[item[v]] = v \/ status[item[v]] \in Rescued
    BY DEF LeaseDiscipline, WriterHoldsRow
  <2>3. status'[item[v]] = status[item[v]] /\ owner'[item[v]] = owner[item[v]]
    BY <1>1, <2>1, <2>2 DEF Rescued
  <2> QED BY <2>2, <2>3 DEF LeaseDiscipline, WriterHoldsRow, DoneWith
<1>6. OneWriterPerItem'
  BY <1>2 DEF LeaseDiscipline, OneWriterPerItem, DoneWith, WritePCs
<1>7. NothingTakenYet'
  BY <1>2 DEF LeaseDiscipline, NothingTakenYet, DoneWith
<1>8. WrittenOutOfReach'
  <2> SUFFICES ASSUME NEW j \in Items, accepted[j] # 0
               PROVE  /\ beforeImage[j] # "none"
                      /\ \/ status'[j] \in WrittenStatuses
                         \/ /\ status'[j] = "applying"
                            /\ \A v \in Workers : owner'[j] = v => ~Reaches(v, j)'
    BY DEF WrittenOutOfReach, DoneWith
  <2>1. \A v \in Workers : Reaches(v, j)' => Reaches(v, j)
    BY <1>2 DEF Reaches, DoneWith
  <2>2. WrittenOutOfReach
    BY DEF LeaseDiscipline
  <2>3. CASE status'[j] = status[j] /\ owner'[j] = owner[j]
    BY <2>1, <2>2, <2>3 DEF WrittenOutOfReach
  <2>4. CASE j = i /\ owner[i] = w /\ status'[i] = st
    BY <2>2, <2>4 DEF WrittenOutOfReach
  <2> QED BY <1>1, <2>3, <2>4
<1>9. AtMostOnce'
  BY DEF LeaseDiscipline, AtMostOnce, DoneWith
<1> QED BY <1>3, <1>4, <1>5, <1>6, <1>7, <1>8, <1>9 DEF LeaseDiscipline

(* A worker that forgets everything (the kick ended or died) reaches no row *)
(* any more; n writes of its current item were still taken.                 *)
LEMMA ForgetStep ==
    ASSUME TypeOK, TypeOK', LeaseDiscipline, NEW w \in Workers,
           ResetKick(w), UNCHANGED rowVars,
           \/ accepted' = accepted
           \/ /\ pc[w] = "write"
              /\ accepted' = [accepted EXCEPT ![item[w]] = @ + 1]
    PROVE  LeaseDiscipline'
<1> USE DEF TypeOK
<1>1. /\ pc'[w] = "idle" /\ todo'[w] = {} /\ item'[w] = NoItem
      /\ \A v \in Workers \ {w} : /\ pc'[v] = pc[v] /\ todo'[v] = todo[v]
                                  /\ item'[v] = item[v] /\ answer'[v] = answer[v]
  BY DEF ResetKick
<1>2. \A j \in Items : \/ accepted'[j] = accepted[j]
                       \/ /\ pc[w] = "write" /\ j = item[w]
                          /\ accepted[j] = 0 /\ accepted'[j] = 1
  BY DEF LeaseDiscipline, NothingTakenYet
<1>3. /\ status' = status /\ owner' = owner /\ beforeImage' = beforeImage
  BY DEF rowVars
<1>4. OwnedIffApplying' /\ KickShape' /\ WriterHoldsRow' /\ OneWriterPerItem'
  <2>1. OwnedIffApplying'
    BY <1>3 DEF LeaseDiscipline, OwnedIffApplying
  <2>2. KickShape'
    BY <1>1 DEF LeaseDiscipline, KickShape, WritePCs
  <2>3. WriterHoldsRow'
    BY <1>1, <1>3 DEF LeaseDiscipline, WriterHoldsRow, WritePCs
  <2>4. OneWriterPerItem'
    <3>1. \A v \in Workers : pc'[v] \in WritePCs =>
             pc[v] \in WritePCs /\ item'[v] = item[v]
      BY <1>1 DEF WritePCs
    <3> QED BY <3>1 DEF LeaseDiscipline, OneWriterPerItem
  <2> QED BY <2>1, <2>2, <2>3, <2>4
<1>5. NothingTakenYet'
  <2> SUFFICES ASSUME NEW v \in Workers \ {w},
                      pc[v] = "write" \/ (pc[v] = "settle" /\ answer[v] \in Refusals)
               PROVE  accepted'[item[v]] = 0
    BY <1>1 DEF NothingTakenYet
  <2>1. item[v] \in Items /\ accepted[item[v]] = 0
    BY DEF LeaseDiscipline, KickShape, NothingTakenYet, WritePCs
  <2>2. pc[w] = "write" => item[v] # item[w]
    BY DEF LeaseDiscipline, OneWriterPerItem, WritePCs
  <2> QED BY <1>2, <2>1, <2>2
<1>6. WrittenOutOfReach'
  <2> SUFFICES ASSUME NEW j \in Items, accepted'[j] # 0
               PROVE  /\ beforeImage[j] # "none"
                      /\ \/ status[j] \in WrittenStatuses
                         \/ /\ status[j] = "applying"
                            /\ \A v \in Workers : owner[j] = v => ~Reaches(v, j)'
    BY <1>3 DEF WrittenOutOfReach
  <2>1. \A v \in Workers : Reaches(v, j)' => v # w /\ Reaches(v, j)
    BY <1>1 DEF Reaches
  <2>2. CASE accepted[j] # 0
    BY <2>1, <2>2 DEF LeaseDiscipline, WrittenOutOfReach
  <2>3. CASE pc[w] = "write" /\ j = item[w]
    <3>1. beforeImage[j] # "none" /\ (owner[j] = w \/ status[j] \in Rescued)
      BY <2>3 DEF LeaseDiscipline, WriterHoldsRow, WritePCs
    <3>2. owner[j] = w => status[j] = "applying"
      BY DEF LeaseDiscipline, OwnedIffApplying
    <3> QED BY <2>1, <3>1, <3>2 DEF WrittenStatuses
  <2> QED BY <1>2, <2>2, <2>3
<1>7. AtMostOnce'
  BY <1>2 DEF LeaseDiscipline, AtMostOnce
<1> QED BY <1>4, <1>5, <1>6, <1>7 DEF LeaseDiscipline

(* A step that leaves rows and downstream alone, and gives no kick a wider  *)
(* reach nor a new write, keeps the discipline.                             *)
LEMMA QuietStep ==
    ASSUME TypeOK, LeaseDiscipline, KickShape',
           UNCHANGED <<status, owner, beforeImage, accepted>>,
           \A w \in Workers :
              /\ pc'[w] \in WritePCs => pc[w] \in WritePCs /\ item'[w] = item[w]
              /\ (pc'[w] = "write" \/ (pc'[w] = "settle" /\ answer'[w] \in Refusals))
                   => (pc[w] = "write" \/ (pc[w] = "settle" /\ answer[w] \in Refusals)),
           \A w \in Workers, i \in Items : Reaches(w, i)' => Reaches(w, i)
    PROVE  LeaseDiscipline'
<1>1. OwnedIffApplying'
  BY DEF LeaseDiscipline, OwnedIffApplying
<1>2. WriterHoldsRow'
  BY DEF LeaseDiscipline, WriterHoldsRow
<1>3. OneWriterPerItem'
  BY DEF LeaseDiscipline, OneWriterPerItem
<1>4. NothingTakenYet'
  <2>1. "write" \in WritePCs /\ "settle" \in WritePCs
    BY DEF WritePCs
  <2> QED BY <2>1 DEF LeaseDiscipline, NothingTakenYet
<1>5. WrittenOutOfReach'
  <2>1. WrittenOutOfReach
    BY DEF LeaseDiscipline
  <2> QED BY <2>1 DEF WrittenOutOfReach
<1>6. AtMostOnce'
  BY DEF LeaseDiscipline, AtMostOnce
<1> QED BY <1>1, <1>2, <1>3, <1>4, <1>5, <1>6 DEF LeaseDiscipline

(* A row that a kick owns and can still write has not been written.         *)
LEMMA ReachableUnwritten ==
    ASSUME TypeOK, LeaseDiscipline, NEW w \in Workers, NEW i \in Items,
           owner[i] = w, Reaches(w, i)
    PROVE  accepted[i] = 0
<1>1. status[i] = "applying"
  BY DEF LeaseDiscipline, OwnedIffApplying
<1> QED BY <1>1 DEF LeaseDiscipline, WrittenOutOfReach, WrittenStatuses, Rescued

(* Releasing a row to a retry is being done with it.                        *)
LEMMA RetryDoneWith ==
    ASSUME TypeOK, LeaseDiscipline, NEW w \in Workers, NEW i \in Items,
           releaseToRetry(w, i), UNCHANGED accepted,
           pc' = [pc EXCEPT ![w] = "loop"],
           todo'[w] \subseteq todo[w],
           \A v \in Workers \ {w} :
              todo'[v] = todo[v] /\ item'[v] = item[v] /\ answer'[v] = answer[v]
    PROVE  DoneWith(w, i, "exhausted") \/ DoneWith(w, i, "retry_scheduled")
BY DEF releaseToRetry, finalize, DoneWith, Owns, rowVars

(* Rows may be taken from their kicks, or moved on from a pending status,   *)
(* to a status that admits the write; an unwritten one may be skipped.      *)
LEMMA RescueStep ==
    ASSUME TypeOK, TypeOK', LeaseDiscipline,
           UNCHANGED <<beforeImage, accepted, todo, item, answer>>,
           \A v \in Workers : pc'[v] = pc[v] \/ (pc[v] = "idle" /\ pc'[v] = "lease"),
           \A j \in Items :
              \/ status'[j] = status[j] /\ owner'[j] = owner[j]
              \/ /\ status[j] = "applying" /\ owner'[j] = NoOwner
                 /\ status'[j] \in Rescued
              \/ /\ status[j] \in {"verification_pending", "external_applied_cache_pending",
                                   "awaiting_batch"}
                 /\ owner'[j] = owner[j]
                 /\ \/ status'[j] \in Rescued
                    \/ status[j] = "awaiting_batch" /\ status'[j] = "skipped"
    PROVE  LeaseDiscipline'
<1> USE DEF TypeOK
<1>1. OwnedIffApplying'
  BY DEF LeaseDiscipline, OwnedIffApplying, Rescued
<1>2. KickShape'
  BY DEF LeaseDiscipline, KickShape, WritePCs
<1>3. \A v \in Workers : pc'[v] \in WritePCs => pc[v] \in WritePCs /\ item[v] \in Items
  BY DEF LeaseDiscipline, KickShape, WritePCs
<1>4. WriterHoldsRow'
  <2> SUFFICES ASSUME NEW v \in Workers, pc'[v] \in WritePCs
               PROVE  /\ beforeImage[item[v]] # "none"
                      /\ owner'[item[v]] = v \/ status'[item[v]] \in Rescued
    BY DEF WriterHoldsRow
  <2>1. item[v] \in Items /\ WriterHoldsRow /\ pc[v] \in WritePCs
    BY <1>3 DEF LeaseDiscipline
  <2> QED BY <2>1 DEF WriterHoldsRow, Rescued
<1>5. OneWriterPerItem'
  BY <1>3 DEF LeaseDiscipline, OneWriterPerItem
<1>6. NothingTakenYet'
  BY DEF LeaseDiscipline, NothingTakenYet
<1>7. WrittenOutOfReach'
  <2>1. \A v \in Workers, j \in Items : Reaches(v, j)' => Reaches(v, j)
    BY DEF Reaches
  <2>2. WrittenOutOfReach
    BY DEF LeaseDiscipline
  <2> QED BY <2>1, <2>2 DEF WrittenOutOfReach, WrittenStatuses, Rescued
<1>8. AtMostOnce'
  BY DEF LeaseDiscipline, AtMostOnce
<1> QED BY <1>1, <1>2, <1>4, <1>5, <1>6, <1>7, <1>8 DEF LeaseDiscipline

(* Reaping moves expired, stamped rows out of reach, to a written status.   *)
LEMMA ReapMoves ==
    ASSUME TypeOK, NEW r \in Runs, reapStuckApplying(r)
    PROVE  /\ \A j \in Items :
                 \/ status'[j] = status[j] /\ owner'[j] = owner[j]
                 \/ /\ status[j] = "applying" /\ owner'[j] = NoOwner
                    /\ status'[j] \in Rescued
           /\ beforeImage' = beforeImage
BY DEF TypeOK, reapStuckApplying, Stuck, Rescued

(* A kick starts with a reap.                                               *)
LEMMA StartKickStep ==
    ASSUME TypeOK, TypeOK', LeaseDiscipline, NEW w \in Workers, NEW r \in Runs, StartKick(w, r)
    PROVE  LeaseDiscipline'
<1>1. \A j \in Items : \/ status'[j] = status[j] /\ owner'[j] = owner[j]
                       \/ /\ status[j] = "applying" /\ owner'[j] = NoOwner
                          /\ status'[j] \in Rescued
  BY ReapMoves DEF StartKick
<1>2. /\ UNCHANGED <<beforeImage, accepted, todo, item, answer>>
      /\ \A v \in Workers : pc'[v] = pc[v] \/ (pc[v] = "idle" /\ pc'[v] = "lease")
  BY ReapMoves DEF StartKick, TypeOK
<1> QED BY <1>1, <1>2, RescueStep

(* A lease is only taken on rows that have not been written and that no     *)
(* kick is writing.                                                         *)
LEMMA LeaseBatchStep ==
    ASSUME TypeOK, TypeOK', LeaseDiscipline, NEW w \in Workers, NEW S \in SUBSET Items,
           leaseBatch(w, S)
    PROVE  LeaseDiscipline'
<1> USE DEF TypeOK
<1>1. \A j \in Items \ S : /\ status'[j] = status[j] /\ owner'[j] = owner[j]
                           /\ beforeImage'[j] = beforeImage[j]
  BY DEF leaseBatch
<1>2. \A j \in S : /\ status'[j] = "applying" /\ owner'[j] = w
                   /\ \/ status[j] \in {"queued", "retry_scheduled"}
                      \/ status[j] = "applying" /\ beforeImage[j] = "none"
  BY DEF leaseBatch, Leasable
<1>3. /\ UNCHANGED <<accepted, item, answer>>
      /\ pc[w] = "lease" /\ pc'[w] = "loop" /\ todo'[w] = S
      /\ \A v \in Workers \ {w} : pc'[v] = pc[v] /\ todo'[v] = todo[v]
  BY DEF leaseBatch
<1>4. OwnedIffApplying'
  BY <1>1, <1>2 DEF LeaseDiscipline, OwnedIffApplying
<1>5. KickShape'
  BY <1>3 DEF LeaseDiscipline, KickShape, WritePCs
<1>6. \A v \in Workers : pc'[v] \in WritePCs => v # w /\ pc[v] \in WritePCs /\ item[v] \in Items
  BY <1>3 DEF LeaseDiscipline, KickShape, WritePCs
<1>7. WriterHoldsRow'
  <2> SUFFICES ASSUME NEW v \in Workers, pc'[v] \in WritePCs
               PROVE  /\ beforeImage'[item[v]] # "none"
                      /\ owner'[item[v]] = v \/ status'[item[v]] \in Rescued
    BY <1>3 DEF WriterHoldsRow
  <2>1. /\ beforeImage[item[v]] # "none"
        /\ owner[item[v]] = v \/ status[item[v]] \in Rescued
    BY <1>6 DEF LeaseDiscipline, WriterHoldsRow
  <2>2. item[v] \notin S
    BY <1>2, <1>6, <2>1 DEF LeaseDiscipline, OwnedIffApplying, Rescued
  <2> QED BY <1>1, <1>6, <2>1, <2>2
<1>8. OneWriterPerItem'
  BY <1>3, <1>6 DEF LeaseDiscipline, OneWriterPerItem
<1>9. NothingTakenYet'
  BY <1>3 DEF LeaseDiscipline, NothingTakenYet
<1>10. WrittenOutOfReach'
  <2> SUFFICES ASSUME NEW j \in Items, accepted[j] # 0
               PROVE  /\ beforeImage'[j] # "none"
                      /\ \/ status'[j] \in WrittenStatuses
                         \/ /\ status'[j] = "applying"
                            /\ \A v \in Workers : owner'[j] = v => ~Reaches(v, j)'
    BY <1>3 DEF WrittenOutOfReach
  <2>1. /\ beforeImage[j] # "none"
        /\ \/ status[j] \in WrittenStatuses
           \/ status[j] = "applying" /\ \A v \in Workers : owner[j] = v => ~Reaches(v, j)
    BY DEF LeaseDiscipline, WrittenOutOfReach
  <2>2. j \notin S
    BY <1>2, <2>1 DEF WrittenStatuses, Rescued
  <2>3. \A v \in Workers : Reaches(v, j)' => Reaches(v, j)
    BY <1>3, <2>2 DEF Reaches
  <2> QED BY <1>1, <2>1, <2>2, <2>3
<1>11. AtMostOnce'
  BY <1>3 DEF LeaseDiscipline, AtMostOnce
<1> QED BY <1>4, <1>5, <1>7, <1>8, <1>9, <1>10, <1>11 DEF LeaseDiscipline

(* A kick that stamps its row still owns it, so nobody else is writing it   *)
(* and nothing has been written.                                            *)
LEMMA StampStep ==
    ASSUME TypeOK, TypeOK', LeaseDiscipline, NEW w \in Workers,
           StampBeforeImage(w), ~LostLease(w)
    PROVE  LeaseDiscipline'
<1> USE DEF TypeOK
<1> DEFINE i == item[w]
<1>1. /\ UNCHANGED <<status, owner, accepted, todo, item, answer>>
      /\ pc[w] = "stamp" /\ pc'[w] = "write" /\ \A v \in Workers \ {w} : pc'[v] = pc[v]
      /\ owner[i] = w /\ status[i] = "applying"
  BY DEF StampBeforeImage, Holds
<1>2. i \in Items /\ i \notin todo[w]
  BY <1>1 DEF LeaseDiscipline, KickShape
<1>3. beforeImage'[i] # "none" /\ \A j \in Items \ {i} : beforeImage'[j] = beforeImage[j]
  BY <1>1, <1>2 DEF StampBeforeImage
<1>4. accepted[i] = 0
  BY <1>1, <1>2, ReachableUnwritten DEF Reaches
<1>5. OwnedIffApplying'
  BY <1>1 DEF LeaseDiscipline, OwnedIffApplying
<1>6. KickShape'
  BY <1>1 DEF LeaseDiscipline, KickShape, WritePCs
<1>7. \A v \in Workers \ {w} : pc'[v] \in WritePCs =>
         /\ item[v] \in Items /\ item[v] # i
         /\ beforeImage'[item[v]] # "none"
         /\ owner[item[v]] = v \/ status[item[v]] \in Rescued
  <2> SUFFICES ASSUME NEW v \in Workers \ {w}, pc[v] \in WritePCs
               PROVE  /\ item[v] \in Items /\ item[v] # i
                      /\ beforeImage'[item[v]] # "none"
                      /\ owner[item[v]] = v \/ status[item[v]] \in Rescued
    BY <1>1
  <2>1. item[v] \in Items
    BY DEF LeaseDiscipline, KickShape
  <2>2. beforeImage[item[v]] # "none" /\ (owner[item[v]] = v \/ status[item[v]] \in Rescued)
    BY DEF LeaseDiscipline, WriterHoldsRow
  <2>3. item[v] # i
    BY <1>1, <2>2 DEF Rescued
  <2> QED BY <1>3, <2>1, <2>2, <2>3
<1>8. WriterHoldsRow'
  BY <1>1, <1>3, <1>7 DEF WriterHoldsRow
<1>9. OneWriterPerItem'
  <2>1. \A v \in Workers \ {w} : pc'[v] \in WritePCs => pc[v] \in WritePCs
    BY <1>1
  <2> QED BY <1>1, <1>7, <2>1 DEF LeaseDiscipline, OneWriterPerItem
<1>10. NothingTakenYet'
  BY <1>1, <1>4 DEF LeaseDiscipline, NothingTakenYet
<1>11. WrittenOutOfReach'
  <2>1. \A v \in Workers, j \in Items : Reaches(v, j)' => Reaches(v, j)
    BY <1>1 DEF Reaches
  <2>2. WrittenOutOfReach
    BY DEF LeaseDiscipline
  <2> QED BY <1>1, <1>3, <1>4, <2>1, <2>2 DEF WrittenOutOfReach
<1>12. AtMostOnce'
  BY <1>1 DEF LeaseDiscipline, AtMostOnce
<1> QED BY <1>5, <1>6, <1>8, <1>9, <1>10, <1>11, <1>12 DEF LeaseDiscipline

(* The write is the first one of its item, and ends its kick's reach.       *)
LEMMA WriteStepKeeps ==
    ASSUME TypeOK, TypeOK', LeaseDiscipline, NEW w \in Workers, NEW a, NEW n \in {0, 1},
           executeReconWrite(w, a, n)
    PROVE  LeaseDiscipline'
<1> USE DEF TypeOK
<1> DEFINE i == item[w]
<1>1. /\ UNCHANGED <<status, owner, beforeImage, todo, item>>
      /\ pc[w] = "write" /\ pc'[w] = "settle" /\ answer'[w] = a
      /\ \A v \in Workers \ {w} : pc'[v] = pc[v] /\ answer'[v] = answer[v]
  BY DEF executeReconWrite, rowVars
<1>2. i \in Items /\ i \notin todo[w] /\ accepted[i] = 0
  BY <1>1 DEF LeaseDiscipline, KickShape, NothingTakenYet, WritePCs
<1>3. accepted'[i] = n /\ \A j \in Items \ {i} : accepted'[j] = accepted[j]
  BY <1>2 DEF executeReconWrite
<1>4. a \in Refusals => n = 0
  <2>1. ASSUME a \in Refusals PROVE Taken(a) = {0}
    BY <2>1 DEF Taken, Refusals
  <2> QED BY <2>1 DEF executeReconWrite
<1>5. OwnedIffApplying'
  BY <1>1 DEF LeaseDiscipline, OwnedIffApplying
<1>6. KickShape'
  BY <1>1 DEF LeaseDiscipline, KickShape, WritePCs
<1>7. \A v \in Workers : pc'[v] \in WritePCs => pc[v] \in WritePCs
  BY <1>1 DEF WritePCs
<1>8. WriterHoldsRow' /\ OneWriterPerItem'
  BY <1>1, <1>7 DEF LeaseDiscipline, WriterHoldsRow, OneWriterPerItem
<1>9. NothingTakenYet'
  <2> SUFFICES ASSUME NEW v \in Workers,
                      pc'[v] = "write" \/ (pc'[v] = "settle" /\ answer'[v] \in Refusals)
               PROVE  accepted'[item[v]] = 0
    BY <1>1 DEF NothingTakenYet
  <2>1. CASE v = w
    BY <1>1, <1>3, <1>4, <2>1
  <2>2. CASE v # w
    <3>1. item[v] # i /\ item[v] \in Items
      BY <1>1, <2>2 DEF LeaseDiscipline, OneWriterPerItem, KickShape, WritePCs
    <3> QED BY <1>1, <1>3, <2>2, <3>1 DEF LeaseDiscipline, NothingTakenYet
  <2> QED BY <2>1, <2>2
<1>10. WrittenOutOfReach'
  <2> SUFFICES ASSUME NEW j \in Items, accepted'[j] # 0
               PROVE  /\ beforeImage[j] # "none"
                      /\ \/ status[j] \in WrittenStatuses
                         \/ /\ status[j] = "applying"
                            /\ \A v \in Workers : owner[j] = v => ~Reaches(v, j)'
    BY <1>1 DEF WrittenOutOfReach
  <2>1. CASE j # i
    <3>1. \A v \in Workers : Reaches(v, j)' => Reaches(v, j)
      BY <1>1 DEF Reaches
    <3> QED BY <1>3, <2>1, <3>1 DEF LeaseDiscipline, WrittenOutOfReach
  <2>2. CASE j = i
    <3>1. beforeImage[j] # "none" /\ (owner[j] = w \/ status[j] \in Rescued)
      BY <1>1, <2>2 DEF LeaseDiscipline, WriterHoldsRow, WritePCs
    <3>2. owner[j] = w => status[j] = "applying"
      BY DEF LeaseDiscipline, OwnedIffApplying
    <3>3. ~Reaches(w, j)'
      BY <1>1, <1>2, <2>2 DEF Reaches
    <3> QED BY <3>1, <3>2, <3>3 DEF WrittenStatuses
  <2> QED BY <2>1, <2>2
<1>11. AtMostOnce'
  <2>1. \A j \in Items : accepted'[j] = n \/ accepted'[j] = accepted[j]
    BY <1>3
  <2>2. n <= 1
    OBVIOUS
  <2> QED BY <2>1, <2>2 DEF LeaseDiscipline, AtMostOnce
<1> QED BY <1>5, <1>6, <1>8, <1>9, <1>10, <1>11 DEF LeaseDiscipline

(* Every step of the executor keeps the lease discipline.                   *)
LEMMA DisciplineStep ==
    ASSUME TypeOK, LeaseDiscipline, [Next]_execVars
    PROVE  LeaseDiscipline'
<1> USE DEF TypeOK
<1>0. TypeOK'
  BY TypeStep DEF LeaseDiscipline
<1>1. ASSUME NEW w \in Workers, NothingToLease(w) \/ KickDone(w)
      PROVE  LeaseDiscipline'
  BY <1>0, <1>1, ForgetStep DEF NothingToLease, KickDone
<1>2. ASSUME NEW w \in Workers, NEW n \in {0, 1}, Crash(w, n)
      PROVE  LeaseDiscipline'
  BY <1>0, <1>2, ForgetStep DEF Crash
<1>3. ASSUME NEW w \in Workers, NEW i \in Items, ReleaseThrottled(w, i)
      PROVE  LeaseDiscipline'
  <2>1. DoneWith(w, i, "exhausted") \/ DoneWith(w, i, "retry_scheduled")
    BY <1>3, RetryDoneWith DEF ReleaseThrottled, DropFromTodo
  <2>2. owner[i] = w => accepted[i] = 0
    BY <1>3, ReachableUnwritten DEF ReleaseThrottled, Reaches
  <2> QED BY <1>0, <2>1, <2>2, DoneWithStep DEF Statuses
<1>4. ASSUME NEW w \in Workers, NEW i \in Items, NEW v, ReconfirmItem(w, i, v), DropFromTodo(w, i)
      PROVE  LeaseDiscipline'
  <2>1. \E st \in {"exhausted", "retry_scheduled", "held", "skipped"} : DoneWith(w, i, st)
    <3>1. CASE releaseToRetry(w, i)
      BY <1>4, <3>1, RetryDoneWith DEF ReconfirmItem, DropFromTodo
    <3>2. CASE finalize(w, i, "held")
      BY <1>4, <3>2 DEF ReconfirmItem, DropFromTodo, finalize, DoneWith, Owns, rowVars
    <3>3. CASE finalize(w, i, "skipped")
      BY <1>4, <3>3 DEF ReconfirmItem, DropFromTodo, finalize, DoneWith, Owns, rowVars
    <3>4. CASE Proceed(w, i)
      BY <1>4, <3>4 DEF ReconfirmItem, DropFromTodo, Proceed
    <3> QED BY <1>4, <3>1, <3>2, <3>3, <3>4 DEF ReconfirmItem
  <2>2. owner[i] = w => accepted[i] = 0
    BY <1>4, ReachableUnwritten DEF ReconfirmItem, Reaches
  <2> QED BY <1>0, <2>1, <2>2, DoneWithStep DEF Statuses
<1>5. ASSUME NEW w \in Workers, NEW i \in Items, NEW v, ReconfirmItem(w, i, v), Proceed(w, i)
      PROVE  LeaseDiscipline'
  <2>1. UNCHANGED <<status, owner, beforeImage, accepted, answer>>
    BY <1>5 DEF ReconfirmItem, Proceed, rowVars
  <2>2. /\ pc[w] = "loop" /\ i \in todo[w] /\ pc'[w] = "renew"
        /\ item'[w] = i /\ todo'[w] = todo[w] \ {i}
        /\ \A u \in Workers \ {w} : pc'[u] = pc[u] /\ item'[u] = item[u] /\ todo'[u] = todo[u]
    BY <1>5 DEF ReconfirmItem, Proceed
  <2>3. KickShape'
    BY <2>2 DEF LeaseDiscipline, KickShape, WritePCs
  <2>4. \A u \in Workers, j \in Items : Reaches(u, j)' => Reaches(u, j)
    BY <2>2 DEF Reaches
  <2> QED BY <2>1, <2>2, <2>3, <2>4, QuietStep DEF WritePCs
<1>6. ASSUME NEW w \in Workers, LostLease(w) \/ PersistGivesUp(w), UNCHANGED accepted,
             item[w] \in Items
      PROVE  LeaseDiscipline'
  <2>1. DoneWith(w, item[w], "failed")
    BY <1>6 DEF LostLease, PersistGivesUp, BackToLoop, DoneWith, rowVars
  <2> QED BY <1>0, <1>6, <2>1, DoneWithStep DEF WrittenStatuses, Statuses
<1>7. ASSUME NEW w \in Workers, pc[w] = "renew", Holds(w, item[w]), pc' = [pc EXCEPT ![w] = "stamp"],
             UNCHANGED <<status, owner, beforeImage, accepted, todo, item, answer>>
      PROVE  LeaseDiscipline'
  <2>1. pc'[w] = "stamp" /\ \A u \in Workers \ {w} : pc'[u] = pc[u]
    BY <1>7
  <2>2. KickShape'
    BY <1>7, <2>1 DEF LeaseDiscipline, KickShape
  <2>3. \A u \in Workers, j \in Items : Reaches(u, j)' => Reaches(u, j)
    BY <1>7, <2>1 DEF Reaches
  <2> QED BY <1>7, <2>1, <2>2, <2>3, QuietStep DEF WritePCs
<1>8. ASSUME NEW w \in Workers, CommitFails(w) PROVE LeaseDiscipline'
  <2>1. /\ pc[w] = "settle" /\ pc'[w] = "persist" /\ \A u \in Workers \ {w} : pc'[u] = pc[u]
        /\ UNCHANGED <<status, owner, beforeImage, accepted, todo, item, answer>>
    BY <1>8 DEF CommitFails, rowVars
  <2>2. KickShape'
    BY <2>1 DEF LeaseDiscipline, KickShape, WritePCs
  <2>3. \A u \in Workers, j \in Items : Reaches(u, j)' => Reaches(u, j)
    BY <2>1 DEF Reaches
  <2> QED BY <2>1, <2>2, <2>3, QuietStep DEF WritePCs
<1>9. ASSUME UNCHANGED <<status, owner, beforeImage, accepted, pc, todo, item, answer>>
      PROVE  LeaseDiscipline'
  <2>1. KickShape'
    BY <1>9 DEF LeaseDiscipline, KickShape
  <2>2. \A u \in Workers, j \in Items : Reaches(u, j)' => Reaches(u, j)
    BY <1>9 DEF Reaches
  <2> QED BY <1>9, <2>1, <2>2, QuietStep
<1>10. ASSUME NEW w \in Workers, pc[w] \in {"stamp"} \cup WritePCs
       PROVE  item[w] \in Items
  BY <1>10 DEF LeaseDiscipline, KickShape
<1>11. ASSUME NEW w \in Workers, StampFails(w) \/ SettleAuth(w) \/ SettleThrottle(w)
       PROVE  LeaseDiscipline'
  <2>1. item[w] \in Items
    BY <1>10, <1>11 DEF StampFails, SettleAuth, SettleThrottle, WritePCs
  <2>2. DoneWith(w, item[w], "exhausted") \/ DoneWith(w, item[w], "retry_scheduled")
    BY <1>11, <2>1, RetryDoneWith DEF StampFails, SettleAuth, SettleThrottle, BackToLoop
  <2>3. owner[item[w]] = w => accepted[item[w]] = 0
    <3>1. CASE StampFails(w)
      BY <2>1, <3>1, ReachableUnwritten DEF StampFails, Reaches
    <3>2. CASE SettleAuth(w) \/ SettleThrottle(w)
      BY <3>2 DEF SettleAuth, SettleThrottle, LeaseDiscipline, NothingTakenYet, Refusals
    <3> QED BY <1>11, <3>1, <3>2
  <2> QED BY <1>0, <2>1, <2>2, <2>3, DoneWithStep DEF Statuses
<1>12. ASSUME NEW w \in Workers, SettleSkipped(w) PROVE LeaseDiscipline'
  <2>1. item[w] \in Items /\ accepted[item[w]] = 0
    BY <1>10, <1>12 DEF SettleSkipped, WritePCs, LeaseDiscipline, NothingTakenYet, Refusals
  <2>2. DoneWith(w, item[w], "skipped")
    BY <1>12 DEF SettleSkipped, finalize, BackToLoop, DoneWith, Owns, rowVars
  <2> QED BY <1>0, <2>1, <2>2, DoneWithStep DEF Statuses
<1>13. ASSUME NEW w \in Workers, SettleError(w) \/ CommitApplied(w) \/ persistCachePending(w)
       PROVE  LeaseDiscipline'
  <2>1. item[w] \in Items
    BY <1>10, <1>13 DEF SettleError, CommitApplied, persistCachePending, WritePCs
  <2>2. \E st \in {"failed", "verification_pending", "external_applied_cache_pending"} :
           DoneWith(w, item[w], st)
    BY <1>13 DEF SettleError, CommitApplied, persistCachePending, finalize, markApplied,
                 BackToLoop, DoneWith, Owns, rowVars
  <2> QED BY <1>0, <2>1, <2>2, DoneWithStep DEF Statuses, WrittenStatuses, Rescued
<1>14. ASSUME NEW w \in Workers, NEW r \in Runs, StartKick(w, r) PROVE LeaseDiscipline'
  BY <1>0, <1>14, StartKickStep
<1>15. ASSUME NEW w \in Workers, NEW S \in SUBSET Items, leaseBatch(w, S)
       PROVE  LeaseDiscipline'
  BY <1>0, <1>15, LeaseBatchStep
<1>16. ASSUME NEW w \in Workers, StampBeforeImage(w), ~LostLease(w) PROVE LeaseDiscipline'
  BY <1>0, <1>16, StampStep
<1>17. ASSUME NEW w \in Workers, NEW a, NEW n \in {0, 1}, executeReconWrite(w, a, n)
       PROVE  LeaseDiscipline'
  BY <1>0, <1>17, WriteStepKeeps
<1>18. ASSUME NEW w \in Workers, renewLeaseOrAbort(w) \/ StampBeforeImage(w)
       PROVE  LeaseDiscipline'
  <2>1. item[w] \in Items /\ UNCHANGED accepted
    BY <1>18 DEF renewLeaseOrAbort, StampBeforeImage, LeaseDiscipline, KickShape
  <2> QED BY <1>6, <1>7, <1>16, <1>18, <2>1 DEF renewLeaseOrAbort
<1>19. ASSUME NEW w \in Workers, PersistGivesUp(w) PROVE LeaseDiscipline'
  BY <1>6, <1>10, <1>19 DEF PersistGivesUp, WritePCs
<1>20. ASSUME NEW w \in Workers, NEW i \in Items, NEW v, ReconfirmItem(w, i, v)
       PROVE  LeaseDiscipline'
  BY <1>4, <1>5, <1>20 DEF ReconfirmItem
<1>21. ASSUME \/ \E i \in Items : LeaseExpires(i) \/ RetryTimeComes(i)
              \/ \E r \in Runs : EngageKillSwitch(r)
              \/ UNCHANGED execVars
       PROVE  LeaseDiscipline'
  BY <1>9, <1>21 DEF LeaseExpires, RetryTimeComes, EngageKillSwitch, execVars, rowVars, kickVars
<1> QED
  BY <1>1, <1>2, <1>3, <1>8, <1>11, <1>12, <1>13, <1>14, <1>15, <1>17, <1>18, <1>19,
     <1>20, <1>21
     DEF Next, WorkerStep, LeaseStep, ItemStep, WriteStep, SettleStep

-----------------------------------------------------------------------------
(* The theorems.                                                           *)

(* The discipline holds before the first kick.                              *)
LEMMA DisciplineInit == Init => TypeOK /\ LeaseDiscipline
<1> SUFFICES ASSUME Init PROVE TypeOK /\ LeaseDiscipline
  OBVIOUS
<1>1. TypeOK
  BY DEF Init, ExecInit, TypeOK, RunStatuses, Statuses, BeforeImages, PCs, Answers
<1>2. OwnedIffApplying /\ WrittenOutOfReach /\ AtMostOnce
  BY DEF Init, ExecInit, OwnedIffApplying, WrittenOutOfReach, AtMostOnce
<1>3. KickShape /\ WriterHoldsRow /\ OneWriterPerItem /\ NothingTakenYet
  BY DEF Init, ExecInit, KickShape, WriterHoldsRow, OneWriterPerItem, NothingTakenYet, WritePCs
<1> QED BY <1>1, <1>2, <1>3 DEF LeaseDiscipline

(* The tables keep their types and every kick keeps the lease discipline,   *)
(* however many kicks overlap, stall or die.                                *)
THEOREM DisciplineHolds == Spec => [](TypeOK /\ LeaseDiscipline)
<1>1. TypeOK /\ LeaseDiscipline /\ [Next]_execVars => (TypeOK /\ LeaseDiscipline)'
  BY TypeStep, DisciplineStep DEF LeaseDiscipline
<1> QED BY <1>1, DisciplineInit, PTL DEF Spec

(* The columns, and the local state of kicks, stay within their types.      *)
THEOREM TypeCorrect == Spec => []TypeOK
<1> QED BY DisciplineHolds, PTL

(* No correction is taken twice by its downstream system.                   *)
THEOREM NeverAppliedTwice == Spec => []AtMostOnce
<1>1. LeaseDiscipline => AtMostOnce
  BY DEF LeaseDiscipline
<1> QED BY <1>1, DisciplineHolds, PTL

(* No two kicks are ever inside the write window of one item.               *)
THEOREM WriteWindowExclusive == Spec => []OneWriterPerItem
<1>1. LeaseDiscipline => OneWriterPerItem
  BY DEF LeaseDiscipline
<1> QED BY <1>1, DisciplineHolds, PTL

(* A row that claims nothing was written is right about downstream.         *)
THEOREM UnwrittenStatusIsTrue == Spec => []NothingWrittenUnrecorded
<1>1. TypeOK /\ LeaseDiscipline => NothingWrittenUnrecorded
  BY DEF LeaseDiscipline, WrittenOutOfReach, NothingWrittenUnrecorded, NotWrittenStatuses,
         WrittenStatuses, Rescued
<1> QED BY <1>1, DisciplineHolds, PTL

(* Only the lease owner moves a row, so what left the executor stays put.   *)
LEMMA OnlyOwnerMoves ==
    ASSUME TypeOK, NEW w \in Workers, NEW i \in Items, NEW st \in Statuses,
           finalize(w, i, st) \/ releaseToRetry(w, i) \/ markApplied(w, i, st)
    PROVE  \A j \in Items : status'[j] = status[j] \/ owner[j] = w
BY DEF TypeOK, finalize, releaseToRetry, markApplied, Release, Owns, rowVars

(* The statuses that no step of the executor moves a row out of.            *)
Settled ==
    Terminal \cup {"absent", "awaiting_batch", "verification_pending",
                   "external_applied_cache_pending"}

(* No step of a kick, however late, moves a row that has settled.           *)
LEMMA SettledStep ==
    ASSUME TypeOK, LeaseDiscipline, Next
    PROVE  \A i \in Items : status[i] \in Settled => status'[i] = status[i]
<1> DEFINE Stays == \A i \in Items : status[i] \in Settled => status'[i] = status[i]
<1> SUFFICES Stays
  OBVIOUS
<1>0. \A i \in Items : status[i] \in Settled =>
         status[i] \notin {"queued", "retry_scheduled", "applying"} /\ owner[i] = NoOwner
  BY DEF Settled, Terminal, LeaseDiscipline, OwnedIffApplying
<1>1. ASSUME NEW w \in Workers, NEW i \in Items, NEW st \in Statuses,
             finalize(w, i, st) \/ releaseToRetry(w, i) \/ markApplied(w, i, st)
      PROVE  Stays
  BY <1>0, <1>1, OnlyOwnerMoves
<1>2. ASSUME status' = status PROVE Stays
  BY <1>2
<1>3. ASSUME NEW w \in Workers, NEW r \in Runs, StartKick(w, r) PROVE Stays
  BY <1>0, <1>3 DEF StartKick, reapStuckApplying, Stuck, TypeOK
<1>4. ASSUME NEW w \in Workers, NEW S \in SUBSET Items, leaseBatch(w, S) PROVE Stays
  BY <1>0, <1>4 DEF leaseBatch, Leasable, TypeOK
<1>5. ASSUME NEW w \in Workers, NEW i \in Items, NEW v, ReconfirmItem(w, i, v) PROVE Stays
  BY <1>1, <1>2, <1>5 DEF ReconfirmItem, Proceed, Statuses, rowVars
<1>6. ASSUME NEW w \in Workers, pc[w] \in {"stamp"} \cup WritePCs PROVE item[w] \in Items
  BY <1>6 DEF LeaseDiscipline, KickShape
<1>7. ASSUME NEW w \in Workers, StampFails(w) \/ SettleStep(w) PROVE Stays
  <2>1. item[w] \in Items
    BY <1>6, <1>7 DEF StampFails, SettleStep, SettleError, SettleSkipped, SettleAuth,
       SettleThrottle, CommitApplied, CommitFails, persistCachePending, PersistGivesUp, WritePCs
  <2> QED BY <1>1, <1>2, <1>7, <2>1
       DEF StampFails, SettleStep, SettleError, SettleSkipped, SettleAuth, SettleThrottle,
       CommitApplied, CommitFails, persistCachePending, PersistGivesUp, Statuses, rowVars
<1>8. ASSUME NEW w \in Workers, WorkerStep(w) PROVE Stays
  BY <1>1, <1>2, <1>4, <1>5, <1>7, <1>8
     DEF WorkerStep, LeaseStep, NothingToLease, KickDone, ItemStep, ReleaseThrottled,
     renewLeaseOrAbort, StampBeforeImage, LostLease, WriteStep, executeReconWrite,
     Statuses, rowVars
<1>9. ASSUME \/ \E w \in Workers, n \in {0, 1} : Crash(w, n)
             \/ \E i \in Items : LeaseExpires(i) \/ RetryTimeComes(i)
             \/ \E r \in Runs : EngageKillSwitch(r)
      PROVE  Stays
  BY <1>2, <1>9 DEF Crash, LeaseExpires, RetryTimeComes, EngageKillSwitch, rowVars
<1> QED BY <1>3, <1>8, <1>9 DEF Next

(* No late step of a stalled kick moves a row that has settled.             *)
THEOREM SettledStays == Spec => SettledRowsStay
<1> DEFINE Stays == \A i \in Items : status[i] \in Settled => status'[i] = status[i]
<1>1. TypeOK /\ LeaseDiscipline /\ [Next]_execVars => [Stays]_execVars
  BY SettledStep
<1> DEFINE Kept ==
      \A i \in Items :
         status[i] \in Terminal \cup {"verification_pending", "external_applied_cache_pending"}
            => status'[i] = status[i]
<1>2. [Stays]_execVars => [Kept]_execVars
  BY DEF Settled
<1> QED BY <1>1, <1>2, DisciplineHolds, PTL DEF Spec, SettledRowsStay
-----------------------------------------------------------------------------
(* Rows live the life that CorrectionLifecycle promises.                    *)

LEMMA OutcomesAre ==
    /\ Outcome("absent") = "absent"
    /\ Outcome("queued") = "open"
    /\ Outcome("retry_scheduled") = "open"
    /\ Outcome("applying") = "claimed"
    /\ Outcome("awaiting_batch") = "awaiting"
    /\ Outcome("external_applied_cache_pending") = "suspected"
    /\ Outcome("verification_pending") = "landed"
    /\ Outcome("verified") = "verified"
    /\ Outcome("flagged") = "flagged"
    /\ Outcome("skipped") = "dropped"
    /\ Outcome("held") = "dropped"
    /\ Outcome("exhausted") = "dropped"
    /\ Outcome("failed") = "failed"
BY DEF Outcome

(* A success that waits to be settled was taken.                            *)
SuccessTaken ==
    \A w \in Workers : pc[w] = "settle" /\ answer[w] = "success" => accepted[item[w]] # 0

LEMMA SuccessTakenStep ==
    ASSUME TypeOK, LeaseDiscipline, SuccessTaken, [Next]_execVars
    PROVE  SuccessTaken'
<1> SUFFICES ASSUME NEW w \in Workers, pc'[w] = "settle", answer'[w] = "success"
             PROVE  accepted'[item'[w]] # 0
  BY DEF SuccessTaken
<1> USE DEF TypeOK
<1>1. ASSUME pc[w] = "settle", answer[w] = "success", item'[w] = item[w],
             UNCHANGED accepted
      PROVE  accepted'[item'[w]] # 0
  BY <1>1 DEF SuccessTaken
<1>2. ASSUME NEW v \in Workers, NEW n \in {0, 1}, pc[v] = "write",
             accepted' = [accepted EXCEPT ![item[v]] = @ + n],
             pc[w] = "settle", answer[w] = "success", item'[w] = item[w]
      PROVE  accepted'[item'[w]] # 0
  <2>1. item[w] \in Items /\ accepted[item[w]] # 0
    BY <1>2 DEF SuccessTaken, LeaseDiscipline, KickShape, WritePCs
  <2> QED BY <1>2, <2>1
<1>3. ASSUME NEW v \in Workers, NEW a \in Answers, NEW n \in {0, 1}, executeReconWrite(v, a, n)
      PROVE  accepted'[item'[w]] # 0
  <2>1. CASE v = w
    <3>1. item[w] \in Items /\ a = "success" /\ item' = item
      BY <1>3, <2>1 DEF executeReconWrite, LeaseDiscipline, KickShape, WritePCs
    <3>2. n = 1
      BY <1>3, <3>1 DEF executeReconWrite, Taken
    <3> QED BY <1>3, <2>1, <3>1, <3>2 DEF executeReconWrite
  <2>2. CASE v # w
    BY <1>2, <1>3, <2>2 DEF executeReconWrite
  <2> QED BY <2>1, <2>2
<1>4. ASSUME NEW v \in Workers, NEW n \in {0, 1}, Crash(v, n)
      PROVE  accepted'[item'[w]] # 0
  <2>1. pc[w] = "settle" /\ answer[w] = "success" /\ item'[w] = item[w]
    BY <1>4 DEF Crash, ResetKick
  <2> QED BY <1>1, <1>2, <1>4, <2>1 DEF Crash
<1>5. ASSUME NEW v \in Workers, ResetKick(v) \/ BackToLoop(v), UNCHANGED accepted
      PROVE  accepted'[item'[w]] # 0
  BY <1>1, <1>5 DEF ResetKick, BackToLoop
<1>6. ASSUME NEW v \in Workers, ItemStep(v)
      PROVE  accepted'[item'[w]] # 0
  BY <1>1, <1>6 DEF ItemStep, ReleaseThrottled, ReconfirmItem, DropFromTodo, Proceed
<1>7. ASSUME NEW v \in Workers, WorkerStep(v)
      PROVE  accepted'[item'[w]] # 0
  BY <1>1, <1>3, <1>5, <1>6, <1>7
     DEF WorkerStep, LeaseStep, NothingToLease, leaseBatch, KickDone, renewLeaseOrAbort,
     LostLease, StampBeforeImage, StampFails, WriteStep, SettleStep, SettleError, SettleSkipped,
     SettleAuth, SettleThrottle, CommitApplied, CommitFails, persistCachePending, PersistGivesUp
<1>8. ASSUME UNCHANGED <<pc, item, answer, accepted>> PROVE accepted'[item'[w]] # 0
  BY <1>1, <1>8
<1>9. ASSUME NEW v \in Workers, NEW r \in Runs, StartKick(v, r) PROVE accepted'[item'[w]] # 0
  BY <1>1, <1>9 DEF StartKick
<1> QED
  BY <1>4, <1>7, <1>8, <1>9
     DEF Next, LeaseExpires, RetryTimeComes, EngageKillSwitch, execVars, kickVars

(* A step that changes no outcome and takes no write is a stutter.          *)
LEMMA LifeQuiet ==
    ASSUME UNCHANGED accepted, \A j \in Items : Outcome(status'[j]) = Outcome(status[j])
    PROVE  UNCHANGED Lifecycle!vars
BY DEF Lifecycle!vars

(* Moving rows is an abstract move of their outcomes.                       *)
LEMMA LifeMoves ==
    ASSUME UNCHANGED accepted, NEW S \in SUBSET Items, NEW from, NEW to,
           \A j \in Items \ S : Outcome(status'[j]) = Outcome(status[j]),
           \A j \in S : Outcome(status[j]) \in from /\ Outcome(status'[j]) = to
    PROVE  Lifecycle!Become(S, from, to)
BY DEF Lifecycle!Become

(* A kick that is done with a row in its lease gave it back, gave it up or  *)
(* landed it.                                                               *)
LEMMA LifeDoneWith ==
    ASSUME TypeOK, LeaseDiscipline, NEW w \in Workers, NEW i \in Items, NEW st,
           DoneWith(w, i, st),
           \/ /\ st \in {"exhausted", "retry_scheduled", "held", "skipped"}
              /\ owner[i] = w => accepted[i] = 0
           \/ st \in {"failed", "external_applied_cache_pending"}
           \/ st = "verification_pending" /\ accepted[i] # 0
    PROVE  [Lifecycle!Next]_(Lifecycle!vars)
<1>1. CASE UNCHANGED status
  BY <1>1, LifeQuiet DEF DoneWith
<1>2. CASE owner[i] = w /\ Release(i, st)
  <2>1. /\ status[i] = "applying" /\ status'[i] = st
        /\ \A j \in Items \ {i} : status'[j] = status[j]
    BY <1>2 DEF Release, LeaseDiscipline, OwnedIffApplying, TypeOK
  <2>2. UNCHANGED accepted
    BY DEF DoneWith
  <2>3. Lifecycle!Become({i}, {"claimed"}, Outcome(st))
    BY <2>1, <2>2, OutcomesAre, LifeMoves
  <2>4. accepted[i] = 0 \/ accepted[i] = 1
    BY DEF TypeOK, LeaseDiscipline, AtMostOnce
  <2>5. CASE st \in {"exhausted", "held", "skipped"} /\ accepted[i] = 0
    <3>1. Lifecycle!Become({i}, {"claimed", "awaiting"}, "dropped")
      BY <2>1, <2>2, <2>5, OutcomesAre, LifeMoves
    <3> QED BY <2>5, <3>1 DEF Lifecycle!Next, Lifecycle!Drop
  <2>6. CASE st = "retry_scheduled" /\ accepted[i] = 0
    BY <2>3, <2>6, OutcomesAre DEF Lifecycle!Next, Lifecycle!Release
  <2>7. CASE st = "failed"
    BY <2>3, <2>7, OutcomesAre DEF Lifecycle!Next, Lifecycle!Fail
  <2>8. CASE st = "external_applied_cache_pending"
    BY <2>3, <2>8, OutcomesAre DEF Lifecycle!Next, Lifecycle!Rescue
  <2>9. CASE st = "verification_pending" /\ accepted[i] # 0
    BY <2>3, <2>4, <2>9, OutcomesAre DEF Lifecycle!Next, Lifecycle!Land
  <2> QED BY <1>2, <2>5, <2>6, <2>7, <2>8, <2>9
<1> QED BY <1>1, <1>2 DEF DoneWith

(* A reap rescues rows.                                                     *)
LEMMA LifeReap ==
    ASSUME TypeOK, NEW r \in Runs, reapStuckApplying(r), UNCHANGED accepted
    PROVE  Lifecycle!Next
<1>1. /\ \A j \in Items \ Stuck(r) : status'[j] = status[j]
      /\ \A j \in Stuck(r) : /\ status[j] = "applying"
                             /\ status'[j] = "external_applied_cache_pending"
  BY DEF TypeOK, reapStuckApplying, Stuck
<1>2. Stuck(r) \in SUBSET Items
  BY DEF Stuck
<1>3. Lifecycle!Become(Stuck(r), {"claimed"}, "suspected")
  BY <1>1, <1>2, OutcomesAre, LifeMoves
<1> QED BY <1>2, <1>3 DEF Lifecycle!Next, Lifecycle!Rescue

(* A lease claims rows; those an earlier kick left unstamped stay claimed.  *)
LEMMA LifeLease ==
    ASSUME TypeOK, NEW w \in Workers, NEW S \in SUBSET Items, leaseBatch(w, S)
    PROVE  Lifecycle!Next
<1> DEFINE T == {i \in S : status[i] \in {"queued", "retry_scheduled"}}
<1>1. UNCHANGED accepted
  BY DEF leaseBatch
<1>2. \A j \in T : Outcome(status[j]) = "open" /\ Outcome(status'[j]) = "claimed"
  BY OutcomesAre DEF TypeOK, leaseBatch
<1>3. \A j \in Items \ T : Outcome(status'[j]) = Outcome(status[j])
  <2> SUFFICES ASSUME NEW j \in Items \ T PROVE Outcome(status'[j]) = Outcome(status[j])
    OBVIOUS
  <2>1. CASE j \notin S
    BY <2>1 DEF TypeOK, leaseBatch
  <2>2. CASE j \in S
    BY <2>2 DEF TypeOK, leaseBatch, Leasable
  <2> QED BY <2>1, <2>2
<1>4. T \in SUBSET Items
  OBVIOUS
<1> HIDE DEF T
<1>5. Lifecycle!Become(T, {"open"}, "claimed")
  BY <1>1, <1>2, <1>3, <1>4, LifeMoves
<1> QED BY <1>4, <1>5 DEF Lifecycle!Next, Lifecycle!Lease

(* A write is taken of a row its writer owns, or lost to the reaper.        *)
LEMMA LifeTake ==
    ASSUME TypeOK, LeaseDiscipline, NEW w \in Workers, NEW n \in {0, 1}, pc[w] = "write",
           accepted' = [accepted EXCEPT ![item[w]] = @ + n], UNCHANGED status
    PROVE  [Lifecycle!Next]_(Lifecycle!vars)
<1>1. CASE n = 0
  <2>1. UNCHANGED accepted
    BY <1>1 DEF TypeOK
  <2> QED BY <2>1, LifeQuiet
<1>2. CASE n = 1
  <2>1. PICK i \in Items : i = item[w]
    BY DEF LeaseDiscipline, KickShape, WritePCs
  <2>2. accepted[i] = 0
    BY <2>1 DEF LeaseDiscipline, NothingTakenYet
  <2>3. accepted' = [accepted EXCEPT ![i] = 1]
    BY <1>2, <2>1, <2>2 DEF TypeOK
  <2>4. status[i] = "applying" \/ status[i] \in Rescued
    BY <2>1 DEF LeaseDiscipline, WriterHoldsRow, OwnedIffApplying, WritePCs, TypeOK
  <2>5. Outcome(status[i]) \in {"claimed", "suspected", "verified", "flagged"}
    BY <2>4, OutcomesAre DEF Rescued
  <2>6. Lifecycle!Take(i)
    BY <2>2, <2>3, <2>5 DEF Lifecycle!Take
  <2> QED BY <2>6 DEF Lifecycle!Next
<1> QED BY <1>1, <1>2

(* Every step of the executor is a step, or none, of the lifecycle.         *)
LEMMA LifecycleStep ==
    ASSUME TypeOK, LeaseDiscipline, SuccessTaken, [Next]_execVars
    PROVE  [Lifecycle!Next]_(Lifecycle!vars)
<1> USE DEF TypeOK
<1>1. ASSUME UNCHANGED <<status, accepted>> PROVE [Lifecycle!Next]_(Lifecycle!vars)
  BY <1>1, LifeQuiet
<1>2. ASSUME NEW w \in Workers, NEW i \in Items, ReleaseThrottled(w, i)
      PROVE  [Lifecycle!Next]_(Lifecycle!vars)
  <2>1. DoneWith(w, i, "exhausted") \/ DoneWith(w, i, "retry_scheduled")
    BY <1>2, RetryDoneWith DEF ReleaseThrottled, DropFromTodo
  <2>2. owner[i] = w => accepted[i] = 0
    BY <1>2, ReachableUnwritten DEF ReleaseThrottled, Reaches
  <2> QED BY <2>1, <2>2, LifeDoneWith
<1>3. ASSUME NEW w \in Workers, NEW i \in Items, NEW v, ReconfirmItem(w, i, v)
      PROVE  [Lifecycle!Next]_(Lifecycle!vars)
  <2>1. CASE Proceed(w, i)
    BY <1>1, <1>3, <2>1 DEF ReconfirmItem, Proceed, rowVars
  <2>2. CASE ~Proceed(w, i)
    <3>1. \E st \in {"exhausted", "retry_scheduled", "held", "skipped"} : DoneWith(w, i, st)
      <4>1. CASE releaseToRetry(w, i)
        BY <1>3, <2>2, <4>1, RetryDoneWith DEF ReconfirmItem, DropFromTodo
      <4>2. CASE finalize(w, i, "held")
        BY <1>3, <2>2, <4>2 DEF ReconfirmItem, DropFromTodo, finalize, DoneWith, Owns, rowVars
      <4>3. CASE finalize(w, i, "skipped")
        BY <1>3, <2>2, <4>3 DEF ReconfirmItem, DropFromTodo, finalize, DoneWith, Owns, rowVars
      <4> QED BY <1>3, <2>2, <4>1, <4>2, <4>3 DEF ReconfirmItem
    <3>2. owner[i] = w => accepted[i] = 0
      BY <1>3, ReachableUnwritten DEF ReconfirmItem, Reaches
    <3> QED BY <3>1, <3>2, LifeDoneWith
  <2> QED BY <2>1, <2>2
<1>4. ASSUME NEW w \in Workers, pc[w] \in {"stamp"} \cup WritePCs PROVE item[w] \in Items
  BY <1>4 DEF LeaseDiscipline, KickShape
<1>5. ASSUME NEW w \in Workers, StampFails(w) \/ SettleAuth(w) \/ SettleThrottle(w)
      PROVE  [Lifecycle!Next]_(Lifecycle!vars)
  <2>1. item[w] \in Items
    BY <1>4, <1>5 DEF StampFails, SettleAuth, SettleThrottle, WritePCs
  <2>2. DoneWith(w, item[w], "exhausted") \/ DoneWith(w, item[w], "retry_scheduled")
    BY <1>5, <2>1, RetryDoneWith DEF StampFails, SettleAuth, SettleThrottle, BackToLoop
  <2>3. owner[item[w]] = w => accepted[item[w]] = 0
    <3>1. CASE StampFails(w)
      BY <2>1, <3>1, ReachableUnwritten DEF StampFails, Reaches
    <3>2. CASE SettleAuth(w) \/ SettleThrottle(w)
      BY <3>2 DEF SettleAuth, SettleThrottle, LeaseDiscipline, NothingTakenYet, Refusals
    <3> QED BY <1>5, <3>1, <3>2
  <2> QED BY <2>1, <2>2, <2>3, LifeDoneWith
<1>6. ASSUME NEW w \in Workers, SettleSkipped(w) PROVE [Lifecycle!Next]_(Lifecycle!vars)
  <2>1. item[w] \in Items /\ accepted[item[w]] = 0
    BY <1>4, <1>6 DEF SettleSkipped, WritePCs, LeaseDiscipline, NothingTakenYet, Refusals
  <2>2. DoneWith(w, item[w], "skipped")
    BY <1>6 DEF SettleSkipped, finalize, BackToLoop, DoneWith, Owns, rowVars
  <2> QED BY <2>1, <2>2, LifeDoneWith
<1>7. ASSUME NEW w \in Workers, SettleError(w) \/ persistCachePending(w)
      PROVE  [Lifecycle!Next]_(Lifecycle!vars)
  <2>1. item[w] \in Items
    BY <1>4, <1>7 DEF SettleError, persistCachePending, WritePCs
  <2>2. \E st \in {"failed", "external_applied_cache_pending"} : DoneWith(w, item[w], st)
    BY <1>7 DEF SettleError, persistCachePending, finalize, markApplied, BackToLoop, DoneWith,
                Owns, rowVars
  <2> QED BY <2>1, <2>2, LifeDoneWith
<1>8. ASSUME NEW w \in Workers, CommitApplied(w) PROVE [Lifecycle!Next]_(Lifecycle!vars)
  <2>1. item[w] \in Items /\ accepted[item[w]] # 0
    BY <1>4, <1>8 DEF CommitApplied, WritePCs, SuccessTaken
  <2>2. DoneWith(w, item[w], "verification_pending")
    BY <1>8 DEF CommitApplied, markApplied, BackToLoop, DoneWith, Owns, rowVars
  <2> QED BY <2>1, <2>2, LifeDoneWith
<1>9. ASSUME NEW w \in Workers, NEW a \in Answers, NEW n \in {0, 1}, executeReconWrite(w, a, n)
      PROVE  [Lifecycle!Next]_(Lifecycle!vars)
  BY <1>9, LifeTake DEF executeReconWrite, rowVars
<1>10. ASSUME NEW w \in Workers, NEW n \in {0, 1}, Crash(w, n)
       PROVE  [Lifecycle!Next]_(Lifecycle!vars)
  BY <1>1, <1>10, LifeTake DEF Crash, rowVars
<1>11. ASSUME NEW w \in Workers, NEW r \in Runs, StartKick(w, r)
       PROVE  [Lifecycle!Next]_(Lifecycle!vars)
  BY <1>11, LifeReap DEF StartKick
<1>12. ASSUME NEW w \in Workers, WorkerStep(w) PROVE [Lifecycle!Next]_(Lifecycle!vars)
  BY <1>1, <1>2, <1>3, <1>5, <1>6, <1>7, <1>8, <1>9, <1>12, LifeLease
     DEF WorkerStep, LeaseStep, NothingToLease, KickDone, ItemStep, renewLeaseOrAbort, LostLease,
     StampBeforeImage, WriteStep, SettleStep, CommitFails, PersistGivesUp, rowVars
<1> QED
  BY <1>1, <1>10, <1>11, <1>12
     DEF Next, LeaseExpires, RetryTimeComes, EngageKillSwitch, execVars, rowVars

(* The executor implements the lifecycle of a correction.                   *)
THEOREM ExecutorImplementsLifecycle == Spec => RowsFollowLifecycle
<1>1. Init => SuccessTaken /\ Lifecycle!Init
  BY OutcomesAre DEF Init, ExecInit, SuccessTaken, Lifecycle!Init
<1>2. TypeOK /\ LeaseDiscipline /\ SuccessTaken /\ [Next]_execVars
         => SuccessTaken' /\ [Lifecycle!Next]_(Lifecycle!vars)
  BY SuccessTakenStep, LifecycleStep
<1> QED BY <1>1, <1>2, DisciplineHolds, PTL DEF Spec, RowsFollowLifecycle, Lifecycle!Spec
=============================================================================
