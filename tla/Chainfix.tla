------------------------------ MODULE Chainfix ------------------------------
(***************************************************************************)
(* The chainfix command (fixchain/chainfix/chainfix.go) with the FixAndLog *)
(* it drives: main starts logStringErrors on the unbuffered errors        *)
(* channel, creates the log client and NewFixAndLog (whose NewLogger       *)
(* calls RootCerts), feeds every chain of the input file to               *)
(* QueueAllCertsInChain, then calls fl.Wait(), closes errors and waits for *)
(* logStringErrors.                                                        *)
(*                                                                         *)
(* FixAndLog and the Fixer are not in this repository and are modelled    *)
(* from the spec (4.5, 4.7): QueueAllCertsInChain hands one fix task per   *)
(* suffix of length >= 2 to the Fixer over an unbuffered channel; a fix    *)
(* worker ends a task by emitting verified chains (no one a prefix of      *)
(* another, each new hashChain once per Fixer) on the chains channel, or   *)
(* by sending FixErrors; a relay goroutine passes every chain on the       *)
(* chains channel to Logger.QueueChain.  X.509 verification and AIA        *)
(* fetching are a nondeterministic outcome per task.                       *)
(*                                                                         *)
(* The Logger is the module Logger, instantiated on the same variables: it *)
(* is driven by the relay instead of an arbitrary caller, and its error    *)
(* reports meet logStringErrors' receive.  A log.Fatalf anywhere, a panic  *)
(* and main's return each end the process.                                 *)
(***************************************************************************)
EXTENDS Naturals, Sequences, FiniteSets, SequencesExt, FixchainHash

CONSTANTS
    Workers,      \* the Logger's postServer goroutines
    Chains,       \* the chains the Fixer can verify, leaf first
    Nil,          \* the nil chain
    MaxQueue,     \* bound on Logger.QueueChain calls
    FixWorkers,   \* the Fixer's fixServer goroutines
    Records       \* the chains of the input file, in order

ASSUME ChainfixAssumption ==
    /\ FixWorkers # {}
    /\ Records \in Seq(Seq(Certs))
    /\ MaxQueue >= Cardinality(Chains)

VARIABLES
    \* the Logger's variables (module Logger)
    postCertCache, postChainCache, caller, pending, calls, wpc, wchain, wg,
    active, queued, posted, reposted, chainReposted, addChainLog, errs,
    \* main
    mainPc,       \* "start", "roots", "read", "queue", "fixerWait",
                  \* "loggerWait", "close", "errWait", or the end of the
                  \* process: "returned", "exited" (log.Fatalf), "panicked"
    rootTries,    \* RootCerts: failed getRoots calls so far
    rec,          \* processChains: records decoded so far
    toQueue,      \* QueueAllCertsInChain: leaves of the fix tasks still to send
    \* the Fixer
    fpc,          \* fpc[f]: "idle" (ranging over the task channel) or "fix"
    fout,         \* fout[f]: verified chains task f still has to emit
    ferr,         \* ferr[f]: FixErrors task f still has to send
    fwg,          \* the Fixer's wait group: tasks sent and not yet done
    emitted,      \* hashChain of every chain the Fixer has emitted
    \* FixAndLog's relay goroutine and the chains channel
    relayPc,      \* "recv", "queue" (holding relayChain) or "exit"
    relayChain,
    chainsClosed,
    \* the errors channel and logStringErrors
    errClosed,
    drainer,      \* "recv", "store" or "exit"
    fixErrs,      \* FixErrors sent by the Fixer
    stored        \* errors written by contentStore

L == INSTANCE Logger

loggerVars == <<postCertCache, postChainCache, caller, pending, calls, wpc,
                wchain, wg, active, queued, posted, reposted, chainReposted,
                addChainLog, errs>>
mainVars == <<mainPc, rootTries, rec, toQueue>>
fixerVars == <<fpc, fout, ferr, fwg, emitted>>
relayVars == <<relayPc, relayChain, chainsClosed>>
errVars == <<errClosed, drainer, fixErrs, stored>>
vars == <<loggerVars, mainVars, fixerVars, relayVars, errVars>>

NoChain == <<>>
Ended == {"returned", "exited", "panicked"}

(* RootCerts: for i := 0; i < 10; i++.                                     *)
RootTriesMax == 10

(* Verification outcomes of a task for leaf c (spec 4.5, steps 3-5):       *)
(* chains of c in which no chain is a strict prefix of another.            *)
Verified(c) ==
    {S \in SUBSET {ch \in Chains : ch[1] = c} :
        \A a, b \in S : a # b => ~IsPrefix(a, b)}

TypeOK ==
    /\ L!TypeOK
    /\ mainPc \in {"start", "roots", "read", "queue", "fixerWait",
                   "loggerWait", "close", "errWait"} \cup Ended
    /\ rootTries \in 0..RootTriesMax
    /\ rec \in 0..Len(Records)
    /\ toQueue \in Seq(Certs)
    /\ fpc \in [FixWorkers -> {"idle", "fix"}]
    /\ fout \in [FixWorkers -> SUBSET Chains]
    /\ ferr \in [FixWorkers -> 0..2]
    /\ fwg \in Nat
    /\ emitted \subseteq {HashChain(ch) : ch \in Chains}
    /\ relayPc \in {"recv", "queue", "exit"}
    /\ relayChain \in Chains \cup {NoChain}
    /\ {chainsClosed, errClosed} \subseteq BOOLEAN
    /\ drainer \in {"recv", "store", "exit"}
    /\ {fixErrs, stored} \subseteq Nat

Init ==
    /\ L!Init
    /\ mainPc = "start" /\ rootTries = 0 /\ rec = 0 /\ toQueue = <<>>
    /\ fpc = [f \in FixWorkers |-> "idle"]
    /\ fout = [f \in FixWorkers |-> {}]
    /\ ferr = [f \in FixWorkers |-> 0]
    /\ fwg = 0 /\ emitted = {}
    /\ relayPc = "recv" /\ relayChain = NoChain /\ chainsClosed = FALSE
    /\ errClosed = FALSE /\ drainer = "recv" /\ fixErrs = 0 /\ stored = 0

Alive == mainPc \notin Ended
-----------------------------------------------------------------------------
(* A send on the errors channel, which panics once main has closed it, or *)
(* else meets logStringErrors' receive.                                   *)
SendError ==
    IF errClosed
    THEN /\ mainPc' = "panicked"
         /\ UNCHANGED drainer
    ELSE /\ drainer = "recv"
         /\ drainer' = "store"
         /\ UNCHANGED mainPc

(* main up to NewFixAndLog: client.New fails (log.Fatalf), or main goes on *)
(* to NewLogger's RootCerts.                                              *)
MainStart ==
    /\ mainPc = "start"
    /\ mainPc' \in {"exited", "roots"}
    /\ UNCHANGED <<loggerVars, rootTries, rec, toQueue, fixerVars, relayVars,
                   errVars>>

(* Variant of GetRoots whose loop runs while i <= 10.                      *)
GetRootsInclusive ==
    /\ mainPc = "roots"
    /\ \/ mainPc' = "read" /\ UNCHANGED rootTries
       \/ /\ rootTries' = rootTries + 1
          /\ mainPc' = IF rootTries' > RootTriesMax THEN "exited" ELSE "roots"
    /\ UNCHANGED <<loggerVars, rec, toQueue, fixerVars, relayVars, errVars>>

(* One iteration of RootCerts' loop: getRoots succeeds (GetAcceptedRoots  *)
(* and every root parses) and NewLogger starts the postServers, or it     *)
(* fails, and after the tenth failure log.Fatalf ends the process.        *)
GetRoots ==
    /\ mainPc = "roots"
    /\ \/ mainPc' = "read" /\ UNCHANGED rootTries
       \/ /\ rootTries' = rootTries + 1
          /\ mainPc' = IF rootTries' = RootTriesMax THEN "exited" ELSE "roots"
    /\ UNCHANGED <<loggerVars, rec, toQueue, fixerVars, relayVars, errVars>>

(* One iteration of processChains: at EOF the deferred Close (fatal on    *)
(* error) and on to fl.Wait(); otherwise the next record is decoded and   *)
(* parsed (fatal on error) and QueueAllCertsInChain makes one fix task    *)
(* for the leaf of every suffix of length >= 2.                           *)
ReadRecord ==
    /\ mainPc = "read"
    /\ IF rec = Len(Records)
       THEN /\ mainPc' \in {"exited", "fixerWait"}
            /\ UNCHANGED <<rec, toQueue>>
       ELSE \/ mainPc' = "exited" /\ UNCHANGED <<rec, toQueue>>
            \/ LET r == Records[rec + 1]
                   leaves == IF Len(r) < 2 THEN <<>> ELSE SubSeq(r, 1, Len(r) - 1)
               IN /\ rec' = rec + 1
                  /\ toQueue' = leaves
                  /\ mainPc' = IF leaves = <<>> THEN "read" ELSE "queue"
    /\ UNCHANGED <<loggerVars, rootTries, fixerVars, relayVars, errVars>>

(* Fixer.QueueChain: wg.Add(1) and the send of the task on the unbuffered *)
(* task channel, received by an idle fixServer, which verifies the chain  *)
(* (spec 4.5): its outcome is a non-empty set of chains to emit, or one   *)
(* or two FixErrors (VerifyFailed; CannotFetchURL and FixFailed).         *)
SendTask(f) ==
    /\ mainPc = "queue"
    /\ fpc[f] = "idle"
    /\ fpc' = [fpc EXCEPT ![f] = "fix"]
    /\ fwg' = fwg + 1
    /\ \E S \in Verified(Head(toQueue)) :
        /\ fout' = [fout EXCEPT ![f] = S]
        /\ IF S = {} THEN ferr' \in {[ferr EXCEPT ![f] = n] : n \in 1..2}
           ELSE UNCHANGED ferr
    /\ toQueue' = Tail(toQueue)
    /\ mainPc' = IF Tail(toQueue) = <<>> THEN "read" ELSE "queue"
    /\ UNCHANGED <<loggerVars, rootTries, rec, emitted, relayVars, errVars>>

(* The fix worker emits chain ch: one whose hashChain the Fixer already   *)
(* emitted is dropped; otherwise it is sent on the chains channel (a      *)
(* panic once closed), where the relay goroutine receives it when it is   *)
(* back at its range loop.                                                *)
FixerEmit(f, ch) ==
    /\ fpc[f] = "fix"
    /\ ch \in fout[f]
    /\ fout' = [fout EXCEPT ![f] = @ \ {ch}]
    /\ IF HashChain(ch) \in emitted
       THEN UNCHANGED <<mainPc, emitted, relayPc, relayChain>>
       ELSE IF chainsClosed
       THEN /\ mainPc' = "panicked"
            /\ UNCHANGED <<emitted, relayPc, relayChain>>
       ELSE /\ relayPc = "recv"
            /\ caller = "queue"
            /\ relayPc' = "queue"
            /\ relayChain' = ch
            /\ emitted' = emitted \cup {HashChain(ch)}
            /\ UNCHANGED mainPc
    /\ UNCHANGED <<loggerVars, rootTries, rec, toQueue, fpc, ferr, fwg,
                   chainsClosed, errVars>>

(* The fix worker sends a FixError of its task on the errors channel.     *)
FixerError(f) ==
    /\ fpc[f] = "fix"
    /\ fout[f] = {}
    /\ ferr[f] > 0
    /\ ferr' = [ferr EXCEPT ![f] = @ - 1]
    /\ fixErrs' = fixErrs + 1
    /\ SendError
    /\ UNCHANGED <<loggerVars, rootTries, rec, toQueue, fpc, fout, fwg,
                   emitted, relayVars, errClosed, stored>>

(* The task is done: wg.Done() and back to the task channel.              *)
FixerDone(f) ==
    /\ fpc[f] = "fix"
    /\ fout[f] = {}
    /\ ferr[f] = 0
    /\ fpc' = [fpc EXCEPT ![f] = "idle"]
    /\ fwg' = fwg - 1
    /\ UNCHANGED <<loggerVars, mainVars, fout, ferr, emitted, relayVars,
                   errVars>>
-----------------------------------------------------------------------------
(* The relay goroutine of FixAndLog: fl.logger.QueueChain(chain) for the  *)
(* chain it received; it blocks in postToLog while the Logger's caller is *)
(* "send".                                                                *)
RelayQueue ==
    /\ relayPc = "queue"
    /\ L!QueueChainOf(relayChain)
    /\ relayPc' = "recv"
    /\ relayChain' = NoChain
    /\ UNCHANGED <<mainVars, fixerVars, chainsClosed, errVars>>

(* The chains channel is closed: the relay's range loop ends.             *)
RelayExit ==
    /\ relayPc = "recv"
    /\ caller = "queue"
    /\ chainsClosed
    /\ relayPc' = "exit"
    /\ UNCHANGED <<loggerVars, mainVars, fixerVars, relayChain, chainsClosed,
                   errVars>>

(* The postServers (module Logger); a LogPostFailed error is a send on    *)
(* the errors channel.                                                    *)
LoggerStep(w) ==
    /\ L!HandOver(w) \/ L!CheckPosted(w) \/ L!PostChain(w)
    /\ UNCHANGED <<mainVars, fixerVars, relayVars, errVars>>

LoggerError(w) ==
    /\ L!ReportError(w)
    /\ SendError
    /\ UNCHANGED <<rootTries, rec, toQueue, fixerVars, relayVars, errClosed,
                   fixErrs, stored>>

-----------------------------------------------------------------------------
(* Variant of FixerWait that closes the chains channel without waiting    *)
(* for the Fixer's tasks.                                                 *)
FixerWaitNoWait ==
    /\ mainPc = "fixerWait"
    /\ chainsClosed' = TRUE
    /\ mainPc' = "loggerWait"
    /\ UNCHANGED <<loggerVars, rootTries, rec, toQueue, fixerVars, relayPc,
                   relayChain, errVars>>

(* FixAndLog.Wait, first part: fixer.Wait() returns once every task is    *)
(* done, and the chains channel is closed.                                *)
FixerWait ==
    /\ mainPc = "fixerWait"
    /\ fwg = 0
    /\ chainsClosed' = TRUE
    /\ mainPc' = "loggerWait"
    /\ UNCHANGED <<loggerVars, rootTries, rec, toQueue, fixerVars, relayPc,
                   relayChain, errVars>>

(* Variant of LoggerWait in the order spec 4.7 gives: logger.Wait() right *)
(* after closing the chains channel, without waiting for the relay.       *)
LoggerWaitNoRelay ==
    /\ mainPc = "loggerWait"
    /\ wg = 0
    /\ mainPc' = "close"
    /\ UNCHANGED <<loggerVars, rootTries, rec, toQueue, fixerVars, relayVars,
                   errVars>>

(* FixAndLog.Wait, second part: once the relay has left its loop,         *)
(* logger.Wait(), that is l.wg.Wait(), returns when the Logger's wait     *)
(* group is zero.  It does not stop QueueChain from being called again.   *)
LoggerWait ==
    /\ mainPc = "loggerWait"
    /\ relayPc = "exit"
    /\ wg = 0
    /\ mainPc' = "close"
    /\ UNCHANGED <<loggerVars, rootTries, rec, toQueue, fixerVars, relayVars,
                   errVars>>

(* main: close(errors).                                                   *)
CloseErrors ==
    /\ mainPc = "close"
    /\ errClosed' = TRUE
    /\ mainPc' = "errWait"
    /\ UNCHANGED <<loggerVars, rootTries, rec, toQueue, fixerVars, relayVars,
                   drainer, fixErrs, stored>>

(* Variant of MainReturns that does not wait for logStringErrors.         *)
MainReturnsNoWait ==
    /\ mainPc = "errWait"
    /\ mainPc' = "returned"
    /\ UNCHANGED <<loggerVars, rootTries, rec, toQueue, fixerVars, relayVars,
                   errVars>>

(* main: wg.Wait() returns once logStringErrors is done, and main returns. *)
MainReturns ==
    /\ mainPc = "errWait"
    /\ drainer = "exit"
    /\ mainPc' = "returned"
    /\ UNCHANGED <<loggerVars, rootTries, rec, toQueue, fixerVars, relayVars,
                   errVars>>

-----------------------------------------------------------------------------
(* Variant of StoreError after which logStringErrors returns.             *)
StoreErrorReturn ==
    /\ drainer = "store"
    /\ \/ stored' = stored + 1 /\ drainer' = "exit" /\ UNCHANGED mainPc
       \/ mainPc' = "exited" /\ UNCHANGED <<stored, drainer>>
    /\ UNCHANGED <<loggerVars, rootTries, rec, toQueue, fixerVars, relayVars,
                   errClosed, fixErrs>>

(* logStringErrors: contentStore writes the error to a file, or           *)
(* log.Fatalf ends the process when MkdirAll, Create, Write or Close      *)
(* fails.                                                                 *)
StoreError ==
    /\ drainer = "store"
    /\ \/ stored' = stored + 1 /\ drainer' = "recv" /\ UNCHANGED mainPc
       \/ mainPc' = "exited" /\ UNCHANGED <<stored, drainer>>
    /\ UNCHANGED <<loggerVars, rootTries, rec, toQueue, fixerVars, relayVars,
                   errClosed, fixErrs>>

(* The errors channel is closed: the range loop ends, wg.Done().          *)
DrainerExit ==
    /\ drainer = "recv"
    /\ errClosed
    /\ drainer' = "exit"
    /\ UNCHANGED <<loggerVars, mainVars, fixerVars, relayVars, errClosed,
                   fixErrs, stored>>

(* The process has ended.                                                 *)
Terminated ==
    /\ ~Alive
    /\ UNCHANGED vars

Step ==
    \/ MainStart \/ GetRoots \/ ReadRecord
    \/ \E f \in FixWorkers : \/ SendTask(f) \/ FixerError(f) \/ FixerDone(f)
                             \/ \E ch \in Chains : FixerEmit(f, ch)
    \/ RelayQueue \/ RelayExit
    \/ \E w \in Workers : LoggerStep(w) \/ LoggerError(w)
    \/ FixerWait \/ LoggerWait \/ CloseErrors \/ MainReturns
    \/ StoreError \/ DrainerExit

Next == (Alive /\ Step) \/ Terminated

(* Every goroutine runs whenever it can, and the log, the file system and *)
(* the input file answer every call (errors included).  Every step moves  *)
(* a goroutine forward or grows a counter, so no behaviour loops, and weak *)
(* fairness of the whole step relation is what the Go scheduler gives.    *)
Fairness ==
    /\ WF_vars(Alive /\ Step)

Spec == Init /\ [][Next]_vars /\ Fairness
-----------------------------------------------------------------------------
(* No goroutine sends on a closed channel: no fix worker sends on the      *)
(* chains channel after FixAndLog closed it, and no FixError (from the     *)
(* Fixer or from postChain) is sent after main's close(errors).            *)
NoSendOnClosedChannel == mainPc # "panicked"

(* When main returns, every FixError sent has been written by contentStore *)
(* (main's wg.Wait() after close(errors)).                                 *)
ErrorsStoredBeforeExit ==
    mainPc = "returned" => stored = fixErrs + Len(errs)

(* When main returns, every chain the Fixer emitted has reached            *)
(* Logger.QueueChain, and every post it made has returned.                 *)
FixedChainsOffered ==
    mainPc = "returned" =>
        /\ calls = Cardinality(emitted)
        /\ \A w \in Workers : wpc[w] = "idle"

(* chainfix ends: main returns, or log.Fatalf ends the process.            *)
Terminates == <>(mainPc \in {"returned", "exited"})
====
