------------------------------- MODULE Logger -------------------------------
(***************************************************************************)
(* fixchain.Logger (fixchain/logger.go): QueueChain filters chains        *)
(* through postCertCache and postChainCache and hands each new chain over  *)
(* the unbuffered toPost channel to a pool of postServer goroutines, which *)
(* re-check postCertCache, wait on the rate limiter, call AddChain and     *)
(* report failures on the errors channel.  A sync.WaitGroup counts the     *)
(* handed-over requests; Wait blocks until it is zero.                     *)
(*                                                                         *)
(* The caller of QueueChain is one goroutine (in FixAndLog, the loop that  *)
(* drains the Fixer's chains channel); it queues up to MaxQueue chains     *)
(* taken from Chains and then calls Wait.  The errors channel is drained   *)
(* by its own goroutine (chainfix.logStringErrors), so a send on it always *)
(* completes.  The limiter's Wait error is only logged, so the limiter is  *)
(* a pause with no effect on the state.                                    *)
(***************************************************************************)
EXTENDS Naturals, Sequences, FiniteSets, FixchainHash

CONSTANTS
    Workers,    \* the postServer goroutines (workerCount of NewLogger)
    Chains,     \* chains the caller may queue, each a Seq(Certs), leaf first
    Nil,        \* the nil chain
    MaxQueue    \* bound on QueueChain calls

ASSUME LoggerAssumption ==
    /\ Workers # {}
    /\ \A ch \in Chains : ch \in Seq(Certs) /\ Len(ch) > 0
    /\ Nil \notin Chains
    /\ MaxQueue \in Nat

VARIABLES
    postCertCache,  \* keys set to true in l.postCertCache
    postChainCache, \* keys set to true in l.postChainCache
    caller,         \* the queueing goroutine: "queue", "send" or "done"
    pending,        \* the chain it is blocked sending on toPost
    calls,          \* QueueChain calls made so far
    wpc,            \* wpc[w]: "idle" (blocked on toPost), "check", "post", "error"
    wchain,         \* wchain[w]: the chain worker w is posting
    wg,             \* l.wg: requests handed over and not yet done
    active, queued, posted, reposted, chainReposted,   \* the counters
    addChainLog,    \* history: every AddChain call, [chain, ok]
    errs            \* history: the chains of the LogPostFailed errors sent

counters == <<active, queued, posted, reposted, chainReposted>>
vars == <<postCertCache, postChainCache, caller, pending, calls, wpc, wchain,
          wg, counters, addChainLog, errs>>

NoChain == <<>>

Leaf(ch) == ch[1]

TypeOK ==
    /\ postCertCache \subseteq {HashCert(c) : c \in Certs}
    /\ postChainCache \subseteq {HashChain(ch) : ch \in Chains}
    /\ caller \in {"queue", "send", "done"}
    /\ pending \in Chains \cup {NoChain}
    /\ calls \in 0..MaxQueue
    /\ wpc \in [Workers -> {"idle", "check", "post", "error"}]
    /\ wchain \in [Workers -> Chains \cup {NoChain}]
    /\ wg \in Nat
    /\ {active, queued, posted, reposted, chainReposted} \subseteq Nat
    /\ addChainLog \in Seq([chain : Chains, ok : BOOLEAN])
    /\ errs \in Seq(Chains)

Init ==
    /\ postCertCache = {}
    /\ postChainCache = {}
    /\ caller = "queue"
    /\ pending = NoChain
    /\ calls = 0
    /\ wpc = [w \in Workers |-> "idle"]
    /\ wchain = [w \in Workers |-> NoChain]
    /\ wg = 0
    /\ active = 0 /\ queued = 0 /\ posted = 0
    /\ reposted = 0 /\ chainReposted = 0
    /\ addChainLog = <<>>
    /\ errs = <<>>

-----------------------------------------------------------------------------
(* QueueChain: nil chains and chains whose leaf is in postCertCache or     *)
(* whose hash is in postChainCache are counted and dropped; otherwise the  *)
(* chain hash is marked and the chain handed to postToLog.                 *)
QueueChainOf(chain) ==
    /\ caller = "queue"
    /\ calls < MaxQueue
    /\ calls' = calls + 1
    /\ IF chain = Nil THEN UNCHANGED <<postChainCache, caller, pending, wg,
                                     queued, reposted, chainReposted>>
       ELSE
       /\ queued' = queued + 1
       /\ IF HashCert(Leaf(chain)) \in postCertCache
          THEN /\ reposted' = reposted + 1
               /\ UNCHANGED <<postChainCache, caller, pending, wg, chainReposted>>
          ELSE IF HashChain(chain) \in postChainCache
          THEN /\ chainReposted' = chainReposted + 1
               /\ UNCHANGED <<postChainCache, caller, pending, wg, reposted>>
          ELSE /\ postChainCache' = postChainCache \cup {HashChain(chain)}
               /\ wg' = wg + 1
               /\ caller' = "send"
               /\ pending' = chain
               /\ UNCHANGED <<reposted, chainReposted>>
    /\ UNCHANGED <<postCertCache, wpc, wchain, active, posted, addChainLog, errs>>

(* The caller queues any chain it may hold, or nil.                        *)
QueueChain == \E chain \in Chains \cup {Nil} : QueueChainOf(chain)

(* Variant of HandOver in which postServer does not count itself active.  *)
HandOverNoActive(w) ==
    /\ caller = "send"
    /\ wpc[w] = "idle"
    /\ wpc' = [wpc EXCEPT ![w] = "check"]
    /\ wchain' = [wchain EXCEPT ![w] = pending]
    /\ caller' = "queue"
    /\ pending' = NoChain
    /\ UNCHANGED <<postCertCache, postChainCache, calls, wg, active, queued,
                   posted, reposted, chainReposted, addChainLog, errs>>

(* The rendezvous on the unbuffered toPost channel: the caller's send in   *)
(* postToLog meets the receive of an idle postServer, which counts itself  *)
(* active.                                                                 *)
HandOver(w) ==
    /\ caller = "send"
    /\ wpc[w] = "idle"
    /\ wpc' = [wpc EXCEPT ![w] = "check"]
    /\ wchain' = [wchain EXCEPT ![w] = pending]
    /\ active' = active + 1
    /\ caller' = "queue"
    /\ pending' = NoChain
    /\ UNCHANGED <<postCertCache, postChainCache, calls, wg, queued, posted,
                   reposted, chainReposted, addChainLog, errs>>

(* Logger.Wait: l.wg.Wait() returns once every handed-over request is done. *)
Wait ==
    /\ caller = "queue"
    /\ wg = 0
    /\ caller' = "done"
    /\ UNCHANGED <<postCertCache, postChainCache, pending, calls, wpc, wchain,
                   wg, counters, addChainLog, errs>>

-----------------------------------------------------------------------------
(* Variant of Finish that leaves out wg.Done().                            *)
FinishNoDone(w) ==
    /\ wpc' = [wpc EXCEPT ![w] = "idle"]
    /\ wchain' = [wchain EXCEPT ![w] = NoChain]
    /\ active' = active - 1
    /\ wg' = wg

(* The end of one request in postServer: active decremented, wg.Done().    *)
Finish(w) ==
    /\ wpc' = [wpc EXCEPT ![w] = "idle"]
    /\ wchain' = [wchain EXCEPT ![w] = NoChain]
    /\ active' = active - 1
    /\ wg' = wg - 1

(* Variant of CheckPosted that returns without counting the repost.       *)
CheckPostedNoCount(w) ==
    /\ wpc[w] = "check"
    /\ IF HashCert(Leaf(wchain[w])) \in postCertCache
       THEN /\ Finish(w)
            /\ UNCHANGED reposted
       ELSE /\ wpc' = [wpc EXCEPT ![w] = "post"]
            /\ UNCHANGED <<wchain, active, wg, reposted>>
    /\ UNCHANGED <<postCertCache, postChainCache, caller, pending, calls,
                   queued, posted, chainReposted, addChainLog, errs>>

(* postChain: the re-check of postCertCache, since another worker may have *)
(* posted a chain for the same leaf meanwhile.                             *)
CheckPosted(w) ==
    /\ wpc[w] = "check"
    /\ IF HashCert(Leaf(wchain[w])) \in postCertCache
       THEN /\ reposted' = reposted + 1
            /\ Finish(w)
       ELSE /\ wpc' = [wpc EXCEPT ![w] = "post"]
            /\ UNCHANGED <<wchain, active, wg, reposted>>
    /\ UNCHANGED <<postCertCache, postChainCache, caller, pending, calls,
                   queued, posted, chainReposted, addChainLog, errs>>

(* postChain after limiter.Wait: posted is incremented, AddChain is called *)
(* and the log accepts or rejects the chain; on success the leaf's hash is *)
(* set in postCertCache and the request ends, on failure the worker goes   *)
(* on to send a LogPostFailed error.                                       *)
PostChain(w) ==
    /\ wpc[w] = "post"
    /\ posted' = posted + 1
    /\ \E ok \in BOOLEAN :
        /\ addChainLog' = Append(addChainLog, [chain |-> wchain[w], ok |-> ok])
        /\ IF ok
           THEN /\ postCertCache' = postCertCache \cup {HashCert(Leaf(wchain[w]))}
                /\ Finish(w)
           ELSE /\ wpc' = [wpc EXCEPT ![w] = "error"]
                /\ UNCHANGED <<postCertCache, wchain, active, wg>>
    /\ UNCHANGED <<postChainCache, caller, pending, calls, queued, reposted,
                   chainReposted, errs>>

(* postChain: l.errors <- &FixError{Type: LogPostFailed, Chain: p.chain}.  *)
ReportError(w) ==
    /\ wpc[w] = "error"
    /\ errs' = Append(errs, wchain[w])
    /\ Finish(w)
    /\ UNCHANGED <<postCertCache, postChainCache, caller, pending, calls,
                   queued, posted, reposted, chainReposted, addChainLog>>

-----------------------------------------------------------------------------
(* After Wait the caller goes on (FixAndLog closes the errors channel);    *)
(* the idle postServers stay blocked on toPost.                            *)
Terminated ==
    /\ caller = "done"
    /\ UNCHANGED vars

Next ==
    \/ QueueChain
    \/ Wait
    \/ \E w \in Workers : HandOver(w) \/ CheckPosted(w) \/ PostChain(w)
                          \/ ReportError(w)
    \/ Terminated

(* The caller goroutine and every postServer run whenever they can; a     *)
(* hand-over is a step of both, taken when both are blocked on toPost.     *)
Fairness ==
    /\ WF_vars(QueueChain \/ Wait)
    /\ \A w \in Workers :
        WF_vars(HandOver(w) \/ CheckPosted(w) \/ PostChain(w) \/ ReportError(w))

Spec == Init /\ [][Next]_vars /\ Fairness

-----------------------------------------------------------------------------
(* The chains accepted by the log, and those it rejected.                  *)
Accepted == {addChainLog[i].chain : i \in {j \in DOMAIN addChainLog : addChainLog[j].ok}}
Rejected == {i \in DOMAIN addChainLog : ~addChainLog[i].ok}

(* IsPosted(c), which reads postCertCache[hash(c)], says that a chain for  *)
(* c itself was accepted by the log.                                       *)
IsPostedMeansAccepted ==
    \A c \in Certs :
        HashCert(c) \in postCertCache => \E ch \in Accepted : Leaf(ch) = c

(* Once Wait has returned, every QueueChain call on a non-nil chain is     *)
(* accounted for exactly once: suppressed in QueueChain (reposted or       *)
(* chainReposted), suppressed by the re-check in postChain (reposted), or  *)
(* posted; and every rejected post has been reported on errors.            *)
WaitAccountsForEveryChain ==
    caller = "done" =>
        /\ queued = reposted + chainReposted + posted
        /\ Len(errs) = Cardinality(Rejected)
        /\ active = 0

(* Every QueueChain call returns and so does Wait: postToLog's send on    *)
(* the unbuffered toPost channel always meets a postServer's receive, and  *)
(* every handed-over request ends in wg.Done().  This fails with no        *)
(* postServer (NewLogger with workerCount 0) or a request path that skips  *)
(* wg.Done().                                                              *)
QueueAndWaitReturn == <>(caller = "done")

(* Spec 8.3: once a chain for leaf L has been accepted by the log, no      *)
(* further AddChain call is made for any chain for L.                      *)
NoPostAfterAccept ==
    \A i, j \in DOMAIN addChainLog :
        (i < j /\ addChainLog[i].ok) =>
            Leaf(addChainLog[i].chain) # Leaf(addChainLog[j].chain)
=============================================================================
