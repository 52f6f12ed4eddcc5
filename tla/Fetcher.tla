------------------------------ MODULE Fetcher ------------------------------
(***************************************************************************)
(* scanner.Fetcher (scanner/fetcher.go): Run calls Prepare, starts the     *)
(* genRanges goroutine, which sends fetchRange values on an unbuffered     *)
(* channel, and ParallelFetch runWorker goroutines, which fetch each range *)
(* with GetRawEntries (possibly in several shorter responses) and pass     *)
(* every response to the callback fn.  In Continuous mode the generator   *)
(* calls updateSTH whenever it reaches EndIndex.  Stop cancels only the    *)
(* generator's context cctx; cancelling the caller's ctx stops everyone.   *)
(*                                                                         *)
(* The log is the environment: its tree grows up to MaxTree, GetSTH        *)
(* returns its current size, GetRawEntries returns between one entry and   *)
(* the whole requested range.  A failed GetSTH or GetRawEntries inside a   *)
(* backoff.Retry loop leaves the state as it was and is not a step.  Time  *)
(* is the single fact that updateSTH's quick deadline has passed.          *)
(***************************************************************************)
EXTENDS Integers, FiniteSets

CONSTANTS
    Workers,        \* the runWorker goroutines (ParallelFetch of them)
    BatchSize,      \* opts.BatchSize
    StartIndex,     \* opts.StartIndex
    EndIndexOpt,    \* opts.EndIndex as given (0: the tree size)
    ContinuousOpts, \* the values of opts.Continuous a caller may pass
    InitTree,       \* the log's tree size when Run starts
    MaxTree         \* bound on the log's growth

ASSUME FetcherAssumption ==
    /\ Workers # {}
    /\ BatchSize \in Nat \ {0}
    /\ {StartIndex, EndIndexOpt, InitTree} \subseteq Nat
    /\ ContinuousOpts \subseteq BOOLEAN /\ ContinuousOpts # {}
    /\ MaxTree \in Nat /\ InitTree <= MaxTree

VARIABLES
    continuous,     \* f.opts.Continuous, fixed by NewFetcher
    treeSize,       \* the log's tree size
    endIndex,       \* f.opts.EndIndex
    runPc,          \* Run: "init" (in Prepare), "prepared", "running" (f.cancel
                    \* installed, generator and workers started), "returned"
                    \* or "failed"
    genPc,          \* genRanges: "loop", "sth", "send" or "closed"
    start, end,     \* genRanges' locals
    next,           \* the fetchRange genRanges is sending
    lastSize, targetSize, quick,  \* updateSTH's locals; quick: before quickDeadline
    stopCalled,     \* the caller has called Stop
    stopped,        \* cctx cancelled by Stop
    cancelled,      \* ctx cancelled by the caller
    wpc,            \* wpc[w]: "recv" (ranging over the channel), "fetch", "exit"
    wr,             \* wr[w]: the range worker w is fetching
    delivered       \* delivered[i]: how many EntryBatches passed to fn held entry i

vars == <<continuous, treeSize, endIndex, runPc, genPc, start, end, next, lastSize,
          targetSize, quick, stopCalled, stopped, cancelled, wpc, wr, delivered>>

Index == 0..(MaxTree - 1)
Range == [start : Int, end : Int]
NoRange == [start |-> 0, end |-> -1]

MinOf(a, b) == IF a < b THEN a ELSE b

TypeOK ==
    /\ continuous \in BOOLEAN
    /\ treeSize \in InitTree..MaxTree
    /\ endIndex \in Nat
    /\ runPc \in {"prepared", "running", "returned"} => endIndex <= treeSize
    /\ runPc \in {"init", "prepared", "running", "returned", "failed"}
    /\ genPc \in {"loop", "sth", "send", "closed"}
    /\ {start, end, lastSize, targetSize} \subseteq Int
    /\ next \in Range
    /\ {quick, stopCalled, stopped, cancelled} \subseteq BOOLEAN
    /\ wpc \in [Workers -> {"recv", "fetch", "exit"}]
    /\ wr \in [Workers -> Range]
    /\ delivered \in [Index -> Nat]

Init ==
    /\ continuous \in ContinuousOpts
    /\ treeSize = InitTree
    /\ endIndex = EndIndexOpt
    /\ runPc = "init"
    /\ genPc = "loop"
    /\ start = StartIndex /\ end = 0
    /\ next = NoRange
    /\ lastSize = 0 /\ targetSize = 0 /\ quick = TRUE
    /\ stopCalled = FALSE /\ stopped = FALSE /\ cancelled = FALSE
    /\ wpc = [w \in Workers |-> "recv"]
    /\ wr = [w \in Workers |-> NoRange]
    /\ delivered = [i \in Index |-> 0]

-----------------------------------------------------------------------------
(* Run -> Prepare: GetSTH fails and Run returns the error ...              *)
PrepareFailed ==
    /\ runPc = "init"
    /\ runPc' = "failed"
    /\ UNCHANGED <<continuous, treeSize, endIndex, genPc, start, end, next, lastSize,
                   targetSize, quick, stopCalled, stopped, cancelled, wpc, wr, delivered>>

(* Variant of Prepare that takes EndIndex only when it is 0, without      *)
(* clipping a larger one to the tree size.                                 *)
PrepareNoClip ==
    /\ runPc = "init"
    /\ LET newEnd == IF EndIndexOpt = 0 THEN treeSize ELSE EndIndexOpt
       IN /\ endIndex' = newEnd
          /\ end' = newEnd
    /\ runPc' = "prepared"
    /\ UNCHANGED <<continuous, treeSize, genPc, start, next, lastSize, targetSize, quick,
                   stopCalled, stopped, cancelled, wpc, wr, delivered>>

(* ... or it succeeds and EndIndex is clipped to the tree size.           *)
Prepare ==
    /\ runPc = "init"
    /\ LET size == treeSize
           newEnd == IF EndIndexOpt = 0 \/ EndIndexOpt > size THEN size
                     ELSE EndIndexOpt
       IN /\ endIndex' = newEnd
          /\ end' = newEnd
    /\ runPc' = "prepared"
    /\ UNCHANGED <<continuous, treeSize, genPc, start, next, lastSize, targetSize, quick,
                   stopCalled, stopped, cancelled, wpc, wr, delivered>>

(* Run, after Prepare: cctx and its cancel are made, f.cancel = cancel     *)
(* under f.mu, and genRanges (start, end := StartIndex, EndIndex) and the  *)
(* workers start.                                                          *)
RunStart ==
    /\ runPc = "prepared"
    /\ runPc' = "running"
    /\ UNCHANGED <<continuous, treeSize, endIndex, genPc, start, end, next, lastSize,
                   targetSize, quick, stopCalled, stopped, cancelled, wpc, wr, delivered>>

(* Stop, called by the caller at any time after Run: f.cancel() under      *)
(* f.mu.  Only once Run has installed cctx's cancel does this cancel the   *)
(* generator's context; before, f.cancel is NewFetcher's no-op (and after  *)
(* Run returned, its deferred cancel has already run).                     *)
Stop ==
    /\ ~stopCalled
    /\ stopCalled' = TRUE
    /\ stopped' = (stopped \/ runPc = "running")
    /\ UNCHANGED <<continuous, treeSize, endIndex, runPc, genPc, start, end, next,
                   lastSize, targetSize, quick, cancelled, wpc, wr, delivered>>

(* The caller cancels ctx (and with it cctx).                              *)
Cancel ==
    /\ runPc = "running"
    /\ ~cancelled
    /\ cancelled' = TRUE
    /\ UNCHANGED <<continuous, treeSize, endIndex, runPc, genPc, start, end, next,
                   lastSize, targetSize, quick, stopCalled, stopped, wpc, wr, delivered>>

CctxDone == stopped \/ cancelled

-----------------------------------------------------------------------------
(* Variant of GenLoop with the loop condition start <= end.              *)
GenLoopLe ==
    /\ runPc = "running"
    /\ genPc = "loop"
    /\ IF ~(start <= end \/ continuous)
       THEN /\ genPc' = "closed"
            /\ UNCHANGED <<next, lastSize, targetSize, quick>>
       ELSE IF start = end
       THEN /\ genPc' = "sth"
            /\ lastSize' = endIndex
            /\ targetSize' = endIndex + BatchSize
            /\ quick' = TRUE
            /\ UNCHANGED next
       ELSE /\ genPc' = "send"
            /\ next' = [start |-> start, end |-> start + MinOf(end - start, BatchSize) - 1]
            /\ UNCHANGED <<lastSize, targetSize, quick>>
    /\ UNCHANGED <<continuous, treeSize, endIndex, runPc, start, end, stopCalled, stopped, cancelled,
                   wpc, wr, delivered>>

(* One iteration of genRanges' loop up to the select: leave the loop, or   *)
(* at start = end enter updateSTH, or compute the next batch.              *)
GenLoop ==
    /\ runPc = "running"
    /\ genPc = "loop"
    /\ IF ~(start < end \/ continuous)
       THEN /\ genPc' = "closed"
            /\ UNCHANGED <<next, lastSize, targetSize, quick>>
       ELSE IF start = end
       THEN /\ genPc' = "sth"
            /\ lastSize' = endIndex
            /\ targetSize' = endIndex + BatchSize
            /\ quick' = TRUE
            /\ UNCHANGED next
       ELSE /\ genPc' = "send"
            /\ next' = [start |-> start, end |-> start + MinOf(end - start, BatchSize) - 1]
            /\ UNCHANGED <<lastSize, targetSize, quick>>
    /\ UNCHANGED <<continuous, treeSize, endIndex, runPc, start, end, stopCalled, stopped, cancelled,
                   wpc, wr, delivered>>

(* Variant of UpdateSTH that always waits for a full batch of growth      *)
(* (no fallback once the quick deadline has passed).                       *)
UpdateSTHNoFallback ==
    /\ genPc = "sth"
    /\ LET size == treeSize
       IN /\ ~(size <= lastSize \/ size < targetSize)
          /\ endIndex' = size
          /\ end' = size
          /\ next' = [start |-> start, end |-> start + MinOf(size - start, BatchSize) - 1]
    /\ genPc' = "send"
    /\ UNCHANGED <<continuous, treeSize, runPc, start, lastSize, targetSize, quick,
                   stopCalled, stopped, cancelled, wpc, wr, delivered>>

(* updateSTH: a GetSTH answer big enough ends the backoff.Retry loop;      *)
(* f.opts.EndIndex and the generator's end take the new size and the       *)
(* generator goes on to compute and send the next batch.                   *)
UpdateSTH ==
    /\ genPc = "sth"
    /\ LET size == treeSize
       IN /\ ~(size <= lastSize \/ (quick /\ size < targetSize))
          /\ endIndex' = size
          /\ end' = size
          /\ next' = [start |-> start, end |-> start + MinOf(size - start, BatchSize) - 1]
    /\ genPc' = "send"
    /\ UNCHANGED <<continuous, treeSize, runPc, start, lastSize, targetSize, quick,
                   stopCalled, stopped, cancelled, wpc, wr, delivered>>

(* backoff.Retry observes cctx cancelled: updateSTH fails, genRanges       *)
(* returns and closes the channel.                                         *)
UpdateSTHCancelled ==
    /\ genPc = "sth"
    /\ CctxDone
    /\ genPc' = "closed"
    /\ UNCHANGED <<continuous, treeSize, endIndex, runPc, start, end, next, lastSize,
                   targetSize, quick, stopCalled, stopped, cancelled, wpc, wr, delivered>>

(* The quick deadline of updateSTH (45 s) passes.                          *)
QuickDeadline ==
    /\ genPc = "sth"
    /\ quick
    /\ quick' = FALSE
    /\ UNCHANGED <<continuous, treeSize, endIndex, runPc, genPc, start, end, next,
                   lastSize, targetSize, stopCalled, stopped, cancelled, wpc, wr, delivered>>

(* Variant of SendRange that moves start to the range's last index        *)
(* instead of one past it.                                                 *)
SendRangeOverlap(w) ==
    /\ genPc = "send"
    /\ wpc[w] = "recv"
    /\ wr' = [wr EXCEPT ![w] = next]
    /\ wpc' = [wpc EXCEPT ![w] = "fetch"]
    /\ start' = next.end
    /\ genPc' = "loop"
    /\ UNCHANGED <<continuous, treeSize, endIndex, runPc, end, next, lastSize, targetSize,
                   quick, stopCalled, stopped, cancelled, delivered>>

(* The select's send case: the range meets an idle worker's receive and    *)
(* the generator moves start to batchEnd.  Go picks either ready case of a *)
(* select, so this may happen after cctx is cancelled too.                 *)
SendRange(w) ==
    /\ genPc = "send"
    /\ wpc[w] = "recv"
    /\ wr' = [wr EXCEPT ![w] = next]
    /\ wpc' = [wpc EXCEPT ![w] = "fetch"]
    /\ start' = next.end + 1
    /\ genPc' = "loop"
    /\ UNCHANGED <<continuous, treeSize, endIndex, runPc, end, next, lastSize, targetSize,
                   quick, stopCalled, stopped, cancelled, delivered>>

(* Variant of SendCancelled in which genRanges returns without closing    *)
(* the channel (no deferred close).                                        *)
SendCancelledNoClose ==
    /\ genPc = "send"
    /\ CctxDone
    /\ genPc' = "returned"
    /\ UNCHANGED <<continuous, treeSize, endIndex, runPc, start, end, next, lastSize,
                   targetSize, quick, stopCalled, stopped, cancelled, wpc, wr, delivered>>

(* The select's ctx.Done() case: genRanges returns and closes the channel. *)
SendCancelled ==
    /\ genPc = "send"
    /\ CctxDone
    /\ genPc' = "closed"
    /\ UNCHANGED <<continuous, treeSize, endIndex, runPc, start, end, next, lastSize,
                   targetSize, quick, stopCalled, stopped, cancelled, wpc, wr, delivered>>

-----------------------------------------------------------------------------
(* runWorker: GetRawEntries(r.start, r.end) answers with k >= 1 entries,   *)
(* fn gets EntryBatch{r.start, entries} and r.start advances by k.         *)
FetchEntries(w) ==
    /\ wpc[w] = "fetch"
    /\ wr[w].start <= wr[w].end
    /\ ~cancelled
    /\ \E k \in 1..(wr[w].end - wr[w].start + 1) :
        /\ wr[w].start + k <= treeSize
        /\ delivered' = [i \in Index |->
                          IF wr[w].start <= i /\ i < wr[w].start + k
                          THEN delivered[i] + 1 ELSE delivered[i]]
        /\ wr' = [wr EXCEPT ![w].start = @ + k]
    /\ UNCHANGED <<continuous, treeSize, endIndex, runPc, genPc, start, end, next,
                   lastSize, targetSize, quick, stopCalled, stopped, cancelled, wpc>>

(* Variant of FetchCancelled in which the workers run under cctx, so Stop  *)
(* aborts their ranges as well.                                            *)
FetchCancelledByStop(w) ==
    /\ wpc[w] = "fetch"
    /\ wr[w].start <= wr[w].end
    /\ CctxDone
    /\ wpc' = [wpc EXCEPT ![w] = "exit"]
    /\ UNCHANGED <<continuous, treeSize, endIndex, runPc, genPc, start, end, next,
                   lastSize, targetSize, quick, stopCalled, stopped, cancelled, wr, delivered>>

(* runWorker: ctx.Err() != nil at the top of the retry loop (or Retry      *)
(* returned the context error): the worker returns, abandoning the range.  *)
FetchCancelled(w) ==
    /\ wpc[w] = "fetch"
    /\ wr[w].start <= wr[w].end
    /\ cancelled
    /\ wpc' = [wpc EXCEPT ![w] = "exit"]
    /\ UNCHANGED <<continuous, treeSize, endIndex, runPc, genPc, start, end, next,
                   lastSize, targetSize, quick, stopCalled, stopped, cancelled, wr, delivered>>

(* The range is complete: back to `for r := range ranges`.                 *)
RangeDone(w) ==
    /\ wpc[w] = "fetch"
    /\ wr[w].start > wr[w].end
    /\ wpc' = [wpc EXCEPT ![w] = "recv"]
    /\ UNCHANGED <<continuous, treeSize, endIndex, runPc, genPc, start, end, next,
                   lastSize, targetSize, quick, stopCalled, stopped, cancelled, wr, delivered>>

(* The channel is closed and drained: the range loop ends, wg.Done().      *)
WorkerExit(w) ==
    /\ wpc[w] = "recv"
    /\ genPc = "closed"
    /\ wpc' = [wpc EXCEPT ![w] = "exit"]
    /\ UNCHANGED <<continuous, treeSize, endIndex, runPc, genPc, start, end, next,
                   lastSize, targetSize, quick, stopCalled, stopped, cancelled, wr, delivered>>

(* wg.Wait() in Run returns; Run returns nil.                              *)
RunReturns ==
    /\ runPc = "running"
    /\ \A w \in Workers : wpc[w] = "exit"
    /\ runPc' = "returned"
    /\ UNCHANGED <<continuous, treeSize, endIndex, genPc, start, end, next, lastSize,
                   targetSize, quick, stopCalled, stopped, cancelled, wpc, wr, delivered>>

(* The log appends an entry.                                               *)
Grow ==
    /\ treeSize < MaxTree
    /\ treeSize' = treeSize + 1
    /\ UNCHANGED <<continuous, endIndex, runPc, genPc, start, end, next, lastSize,
                   targetSize, quick, stopCalled, stopped, cancelled, wpc, wr, delivered>>

Terminated ==
    /\ runPc \in {"returned", "failed"}
    /\ UNCHANGED vars

Next ==
    \/ PrepareFailed \/ Prepare \/ RunStart \/ Stop \/ Cancel
    \/ GenLoop \/ UpdateSTH \/ UpdateSTHCancelled \/ QuickDeadline
    \/ SendCancelled
    \/ \E w \in Workers : \/ SendRange(w) \/ FetchEntries(w)
                          \/ FetchCancelled(w) \/ RangeDone(w) \/ WorkerExit(w)
    \/ RunReturns \/ Grow \/ Terminated

(* The generator and the workers are goroutines that run whenever they     *)
(* can; the log eventually answers a retried GetRawEntries or GetSTH, and  *)
(* the quick deadline eventually passes.  Stop, Cancel and Grow are the    *)
(* caller's and the log's choice and get no fairness.                      *)
Fairness ==
    /\ WF_vars(Prepare) /\ WF_vars(RunStart)
    /\ WF_vars(GenLoop) /\ WF_vars(UpdateSTH) /\ WF_vars(UpdateSTHCancelled)
    /\ WF_vars(QuickDeadline) /\ WF_vars(SendCancelled)
    /\ \A w \in Workers : /\ WF_vars(SendRange(w)) /\ WF_vars(FetchEntries(w))
                          /\ WF_vars(FetchCancelled(w)) /\ WF_vars(RangeDone(w))
                          /\ WF_vars(WorkerExit(w))
    /\ WF_vars(RunReturns)

Spec == Init /\ [][Next]_vars /\ Fairness

-----------------------------------------------------------------------------
Fetched == {i \in Index : delivered[i] > 0}

(* Every entry passed to fn lies in [StartIndex, EndIndex).                *)
FetchedWithinRange == Fetched \subseteq StartIndex..(endIndex - 1)

(* When Run returns without ctx being cancelled, Stop has drained: the     *)
(* entries passed to fn are exactly [StartIndex, start) for the position   *)
(* the generator reached, and without Stop in one-shot mode that position  *)
(* is EndIndex.                                                            *)
RunReturnsAfterDrain ==
    (runPc = "returned" /\ ~cancelled) =>
        /\ Fetched = StartIndex..(start - 1)
        /\ (~stopped /\ ~continuous /\ StartIndex <= endIndex) => start = endIndex

(* Run returns, unless in Continuous mode (where only Stop or Cancel,      *)
(* which get no fairness, end it).                                         *)
RunTerminates == ~continuous => <>(runPc \in {"returned", "failed"})

(* Once Stop has cancelled cctx, Run returns, in Continuous mode too: the  *)
(* generator leaves its select or updateSTH and closes the channel, every  *)
(* worker finishes the range it holds and leaves its range loop, and       *)
(* wg.Wait returns.                                                        *)
RunReturnsAfterStop == stopped ~> (runPc \in {"returned", "failed"})

(* The comment on Stop: "After this call Run will try to finish all the   *)
(* started fetches, and then return."  Stop may be called while Run is    *)
(* still in Prepare, before Run has stored cctx's cancel in f.cancel.      *)
StopEndsRun == stopCalled ~> (runPc \in {"returned", "failed"})

(* Continuous mode keeps up: every entry of the log from StartIndex on is  *)
(* eventually passed to fn, unless the fetcher is stopped.                 *)
KeepsUp ==
    \A i \in Index :
        (continuous /\ i >= StartIndex /\ i < treeSize /\ runPc = "running")
            ~> (delivered[i] > 0 \/ stopped \/ cancelled)

(* How often fn got each entry, EndIndex once Prepare has fixed it (0     *)
(* before, and if Prepare failed), and whether Run has returned, as        *)
(* FetchRange sees them.                                                   *)
Abs == INSTANCE FetchRange
           WITH Entries <- Index,
                got <- delivered,
                limit <- IF runPc \in {"init", "failed"} THEN 0 ELSE endIndex,
                done <- runPc \in {"returned", "failed"}

(* Fetcher implements FetchRange: every fn call gets a run of entries      *)
(* below EndIndex that no earlier call got (ranges from genRanges do not   *)
(* overlap, a short response is re-requested from where it stopped),      *)
(* EndIndex never moves back (Prepare's clipping happens before the first  *)
(* range, updateSTH only accepts a larger tree), and no worker calls fn    *)
(* after Run returned, although genRanges may outlive Run.                 *)
FetchesRange == Abs!Spec
=============================================================================
