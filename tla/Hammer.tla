------------------------------- MODULE Hammer -------------------------------
(***************************************************************************)
(* The CT hammer (trillian/integration/hammer.go) driving one log.        *)
(*                                                                         *)
(* HammerCTLog runs retryOneOp Operations-1 times on one goroutine.  Each  *)
(* op is chosen by chooseOp (the nextOp queue of prerequisite ops first,   *)
(* else a biased random entrypoint) and run by performOp under s.mu, with  *)
(* retries until MaxRetryDuration when IgnoreErrors is set.  add-chain     *)
(* runs addMultiple: 1..MaxParallelChains goroutines, each doing getChain *)
(* (under chainMu), AddChain and pending.tryAppendCert (under pending.mu); *)
(* add-pre-chain does the same with the pre-chain fields.  An op chosen at *)
(* random may be made invalid (HammerBias.Invalid): performInvalidOp runs  *)
(* once, with no retry, and expects the log to reject the request.        *)
(*                                                                         *)
(* Time is a counter advanced by Tick.  The log is the environment: it    *)
(* may fail any request, issues an SCT stamped with the current time for a *)
(* new certificate and the original SCT's time for a duplicate, and        *)
(* integrates every accepted certificate within MMD of its SCT.           *)
(***************************************************************************)
EXTENDS Integers, Sequences, SequencesExt, FiniteSets

CONSTANTS
    Bias,                   \* cfg.EPBias.Bias: entrypoint -> weight
    MMD,                    \* cfg.MMD
    SctCount,               \* sctCount: size of pendingCerts.certs
    SthCount,               \* sthCount: size of hammerState.sth
    MaxParallelChains,      \* cfg.MaxParallelChains
    Operations,             \* cfg.Operations
    MaxRetryDuration,       \* cfg.MaxRetryDuration
    DuplicateChance,        \* cfg.DuplicateChance > 0
    IgnoreErrors,           \* cfg.IgnoreErrors
    StrictSTHConsistencySize, \* cfg.StrictSTHConsistencySize
    MaxCerts,               \* certificates the chain generator can make
    MaxLogErrors,           \* errors the log returns to one op's attempts
    MaxTime,                \* the last instant explored
    InvalidChance,          \* cfg.EPBias.InvalidChance > 0: entrypoint -> BOOLEAN
    IsMirror                \* cfg.LogCfg.IsMirror

AddChainName == "add-chain"
GetSTHName == "get-sth"
GetSTHConsistencyName == "get-sth-consistency"
GetProofByHashName == "get-proof-by-hash"
GetEntriesName == "get-entries"
AddPreChainName == "add-pre-chain"
GetRootsName == "get-roots"
GetEntryAndProofName == "get-entry-and-proof"
Entrypoints == {AddChainName, AddPreChainName, GetSTHName, GetSTHConsistencyName,
                GetProofByHashName, GetEntriesName, GetRootsName,
                GetEntryAndProofName}
ChainKinds == {AddChainName, AddPreChainName}   \* chain vs pre-chain fields
FirstCert == "FirstCert"
NewCert == "NewCert"

ASSUME HammerAssumption ==
    /\ Bias \in [Entrypoints -> Nat]
    /\ InvalidChance \in [Entrypoints -> BOOLEAN]
    /\ {MMD, MaxRetryDuration, MaxTime} \subseteq Nat
    /\ {SctCount, SthCount, MaxParallelChains, Operations, MaxCerts} \subseteq Nat \ {0}
    /\ MaxLogErrors \in Nat
    /\ {DuplicateChance, IgnoreErrors, StrictSTHConsistencySize, IsMirror}
          \subseteq BOOLEAN

Certs == 1..MaxCerts
NoCert == 0
NoSTH == -1                \* a nil *ct.SignedTreeHead
NoTime == -1
Time == 0..MaxTime
Adders == 1..MaxParallelChains
Submitted == [cert : Certs, ts : Time, integrateBy : Nat]   \* submittedCert

VARIABLES
    now,            \* time.Now()
    tree,           \* the log's integrated entries, in order
    sctTime,        \* sctTime[c]: timestamp of the log's SCT for c, or NoTime
    sth,            \* hammerState.sth: tree sizes, most recent first
    pending,        \* pendingCerts.certs: the non-nil prefix
    nextOp,         \* hammerState.nextOp
    firstChain, lastChain, firstChainIntegrated,  \* per kind: chain, pre-chain
    nextCert,       \* the next certificate the chain generator makes
    pc,             \* "choose", "perform", "invalid", "adding", "returned", "failed"
    ep,             \* the entrypoint retryOneOp is performing
    invalid,        \* chooseOp's second result
    deadline,       \* retryOneOp's deadline
    count,          \* HammerCTLog's loop counter
    attempts,       \* failed attempts of the current op
    adder, acert, asct, addErr,   \* addMultiple's goroutines and errs channel
    alarms,         \* certificates getProofByHash reported as not included
    consistencyReqs, \* <<first, second>> of every get-sth-consistency sent
    invertedReqs    \* <<first, second>> of every ParamsInverted one sent

vars == <<now, tree, sctTime, sth, pending, nextOp, firstChain, lastChain,
          firstChainIntegrated, nextCert, pc, ep, invalid, deadline, count,
          attempts, adder, acert, asct, addErr, alarms,
          consistencyReqs, invertedReqs>>
logVars == <<tree, sctTime>>
chainVars == <<firstChain, lastChain, firstChainIntegrated, nextCert>>
addVars == <<adder, acert, asct, addErr>>

\* newHammerState disables add-[pre-]chain for a mirror log.
EPBias == IF IsMirror THEN [Bias EXCEPT ![AddChainName] = 0, ![AddPreChainName] = 0]
          ELSE Bias

\* HammerBias.Choose: an entrypoint with positive bias (rand.Intn of the
\* total panics when every bias is 0, which the ASSUME below excludes).
BiasedOps == {e \in Entrypoints : EPBias[e] > 0}

\* HammerBias.Invalid: chance <= 0 never, else 1 in chance.
Invalid(e) == IF InvalidChance[e] THEN BOOLEAN ELSE {FALSE}

ASSUME BiasedOps # {}
TreeSizes == 0..MaxCerts

TypeOK ==
    /\ now \in Time
    /\ tree \in Seq(Certs) /\ Len(tree) <= MaxCerts
    /\ sctTime \in [Certs -> Time \cup {NoTime}]
    /\ sth \in [1..SthCount -> TreeSizes \cup {NoSTH}]
    /\ pending \in Seq(Submitted) /\ Len(pending) <= SctCount
    /\ nextOp \in Seq(Entrypoints)
    /\ firstChain \in [ChainKinds -> Certs \cup {NoCert}]
    /\ lastChain \in [ChainKinds -> Certs \cup {NoCert}]
    /\ nextCert \in 1..(MaxCerts + 1)
    /\ pc \in {"choose", "perform", "invalid", "adding", "returned", "failed"}
    /\ invalid \in BOOLEAN
    /\ count \in 1..Operations
    /\ adder \in [Adders -> {"idle", "get", "add", "append", "done"}]
    /\ alarms \subseteq Certs

\* newHammerState and HammerCTLog's first loop test (count := 1; count < Operations).
Init ==
    /\ now = 0
    /\ tree = <<>>
    /\ sctTime = [c \in Certs |-> NoTime]
    /\ sth = [i \in 1..SthCount |-> NoSTH]
    /\ pending = <<>>
    /\ nextOp = <<>>
    /\ firstChain = [k \in ChainKinds |-> NoCert]
    /\ lastChain = [k \in ChainKinds |-> NoCert]
    /\ firstChainIntegrated = [k \in ChainKinds |-> 0]
    /\ nextCert = 1
    /\ pc = IF 1 < Operations THEN "choose" ELSE "returned"
    /\ ep = AddChainName
    /\ invalid = FALSE
    /\ deadline = 0
    /\ count = 1
    /\ attempts = 0
    /\ adder = [a \in Adders |-> "idle"]
    /\ acert = [a \in Adders |-> NoCert]
    /\ asct = [a \in Adders |-> NoTime]
    /\ addErr = FALSE
    /\ alarms = {}
    /\ consistencyReqs = {}
    /\ invertedReqs = {}

LastTreeSize == IF sth[1] = NoSTH THEN 0 ELSE sth[1]

NeedOps(ops) == nextOp' = nextOp \o ops

\* retryOneOp returns nil (the op succeeded or was skipped); HammerCTLog's
\* loop increments count and tests count < Operations.
Completed ==
    /\ count' = count + 1
    /\ UNCHANGED attempts
    /\ pc' = IF count + 1 < Operations THEN "choose" ELSE "returned"

\* retryOneOp's default case: performOp failed; retry while IgnoreErrors
\* and the deadline has not passed (left >= 0), else return the error,
\* which HammerCTLog returns.
Failed ==
    /\ pc' = IF IgnoreErrors /\ now <= deadline THEN "perform" ELSE "failed"
    /\ UNCHANGED count

\* The log answers a request with an error (at most MaxLogErrors times per op).
LogError ==
    /\ attempts < MaxLogErrors
    /\ attempts' = attempts + 1
    /\ Failed

\* chooseOp: the first queued prerequisite, never invalid, if its bias is
\* positive (it is dequeued either way), else a biased random entrypoint,
\* invalid by HammerBias.Invalid; then retryOneOp sets its deadline (only
\* a valid op reads it).
ChooseOp ==
    /\ pc = "choose"
    /\ IF nextOp # <<>> /\ EPBias[Head(nextOp)] > 0
       THEN ep' = Head(nextOp) /\ invalid' = FALSE
       ELSE \E e \in BiasedOps : ep' = e /\ invalid' \in Invalid(e)
    /\ nextOp' = IF nextOp = <<>> THEN <<>> ELSE Tail(nextOp)
    /\ deadline' = now + MaxRetryDuration
    /\ pc' = IF invalid' THEN "invalid" ELSE "perform"
    /\ attempts' = 0
    /\ UNCHANGED <<now, logVars, sth, pending, chainVars, count,
                   addVars, alarms, consistencyReqs, invertedReqs>>

\* getSTH: shift the earlier STHs along, then store GetSTH's answer, which
\* is nil when it fails.
GetSTH ==
    /\ pc = "perform" /\ ep = GetSTHName
    /\ \E ok \in BOOLEAN :
         /\ sth' = [i \in 1..SthCount |->
                      IF i = 1 THEN (IF ok THEN Len(tree) ELSE NoSTH)
                      ELSE sth[i - 1]]
         /\ IF ok THEN Completed ELSE LogError
    /\ UNCHANGED <<now, logVars, pending, nextOp, chainVars, ep, invalid, deadline,
                   addVars, alarms, consistencyReqs, invertedReqs>>

\* Variant of SkipOps without the empty-tree case.
SkipOpsNoEmpty(old, sthNow) ==
    CASE old = NoSTH -> <<GetSTHName>>
      [] old = sthNow -> <<AddChainName, GetSTHName>>
      [] OTHER -> <<>>

\* Variant of SkipOps without the same-size case.
SkipOpsNoSame(old, sthNow) ==
    CASE old = NoSTH -> <<GetSTHName>>
      [] old = 0 -> <<AddChainName, GetSTHName>>
      [] OTHER -> <<>>

\* chooseSTHs's reasons to skip an earlier STH, and the ops it queues.
SkipOps(old, sthNow) ==
    CASE old = NoSTH -> <<GetSTHName>>
      [] old = 0 \/ old = sthNow -> <<AddChainName, GetSTHName>>
      [] OTHER -> <<>>

\* GetSTHConsistency(first, second) sent to the log; with a log that keeps
\* its tree append-only the proof verifies when it answers.
RequestConsistency(first, second) ==
    /\ consistencyReqs' = consistencyReqs \cup {<<first, second>>}
    /\ Completed \/ LogError

\* getSTHConsistency with chooseSTHs: GetSTH for the current size, a random
\* earlier STH, skip (queueing prerequisites) or, unless
\* StrictSTHConsistencySize, invent an earlier size in 1..current.
GetSTHConsistency ==
    /\ pc = "perform" /\ ep = GetSTHConsistencyName
    /\ \/ /\ LogError
          /\ UNCHANGED <<nextOp, consistencyReqs>>
       \/ \E which \in 1..SthCount :
            LET sthNow == Len(tree)
                need == SkipOps(sth[which], sthNow)
            IN /\ NeedOps(need)
               /\ IF need = <<>> THEN RequestConsistency(sth[which], sthNow)
                  ELSE IF StrictSTHConsistencySize \/ sthNow < 2
                  THEN Completed /\ UNCHANGED consistencyReqs
                  ELSE \E invented \in 1..sthNow :
                         RequestConsistency(invented, sthNow)
    /\ UNCHANGED <<now, logVars, sth, pending, chainVars, ep, invalid, deadline,
                   addVars, alarms, invertedReqs>>

\* Variant of OldestIfMMDPassed that takes a cert as due at integrateBy.
OldestIfMMDReached(t) ==
    IF pending = <<>> \/ ~(t >= pending[1].integrateBy) THEN NoCert
    ELSE pending[1].cert

\* pendingCerts.oldestIfMMDPassed(now): the oldest pending certificate if
\* now is after its integrateBy, else nil.
OldestIfMMDPassed(t) ==
    IF pending = <<>> \/ ~(t > pending[1].integrateBy) THEN NoCert
    ELSE pending[1].cert

\* pendingCerts.dropOldest: shuffle the others along.
DropOldest(certs) == Tail(certs)

\* getProofByHash: skip unless the oldest pending cert is due; GetSTH and
\* GetProofByHash at that size, then dropOldest.  A log answers with a
\* proof exactly when the certificate is in the tree of that size.
GetProofByHash ==
    /\ pc = "perform" /\ ep = GetProofByHashName
    /\ LET due == OldestIfMMDPassed(now) IN
         IF due = NoCert
         THEN Completed /\ UNCHANGED <<pending, alarms>>
         ELSE \/ /\ LogError
                 /\ UNCHANGED <<pending, alarms>>
              \/ /\ due \in ToSet(tree)
                 /\ pending' = DropOldest(pending)
                 /\ Completed
                 /\ UNCHANGED alarms
              \/ /\ due \notin ToSet(tree)
                 /\ alarms' = alarms \cup {due}
                 /\ Failed
                 /\ UNCHANGED <<pending, attempts>>
    /\ UNCHANGED <<now, logVars, sth, nextOp, chainVars, ep, invalid, deadline,
                   addVars, consistencyReqs, invertedReqs>>

\* Variant of GetEntries whose skips are retried like failures (retryOneOp
\* without its errSkip case).
GetEntriesRetrySkip ==
    /\ pc = "perform" /\ ep = GetEntriesName
    /\ CASE sth[1] = NoSTH -> NeedOps(<<GetSTHName>>) /\ Failed /\ UNCHANGED attempts
         [] LastTreeSize = 0 /\ pending = <<>> ->
              NeedOps(<<AddChainName, GetSTHName>>) /\ Failed /\ UNCHANGED attempts
         [] LastTreeSize = 0 -> NeedOps(<<GetSTHName>>) /\ Failed /\ UNCHANGED attempts
         [] OTHER -> UNCHANGED nextOp /\ (Completed \/ LogError)
    /\ UNCHANGED <<now, logVars, sth, pending, chainVars, ep, invalid, deadline,
                   addVars, alarms, consistencyReqs, invertedReqs>>

\* getEntries: skip (queueing prerequisites) without an STH or with an
\* empty one, else GetEntries over a range below the last tree size.
GetEntries ==
    /\ pc = "perform" /\ ep = GetEntriesName
    /\ CASE sth[1] = NoSTH -> NeedOps(<<GetSTHName>>) /\ Completed
         [] LastTreeSize = 0 /\ pending = <<>> ->
              NeedOps(<<AddChainName, GetSTHName>>) /\ Completed
         [] LastTreeSize = 0 -> NeedOps(<<GetSTHName>>) /\ Completed
         [] OTHER -> UNCHANGED nextOp /\ (Completed \/ LogError)
    /\ UNCHANGED <<now, logVars, sth, pending, chainVars, ep, invalid, deadline,
                   addVars, alarms, consistencyReqs, invertedReqs>>

\* getRoots: GetAcceptedRoots, which may fail.
GetRoots ==
    /\ pc = "perform" /\ ep = GetRootsName
    /\ Completed \/ LogError
    /\ UNCHANGED <<now, logVars, sth, pending, nextOp, chainVars, ep, invalid,
                   deadline, addVars, alarms, consistencyReqs, invertedReqs>>

\* performOp(get-entry-and-proof): "not yet implemented", status 501 and
\* a nil error, which retryOneOp counts as done.
GetEntryAndProof ==
    /\ pc = "perform" /\ ep = GetEntryAndProofName
    /\ Completed
    /\ UNCHANGED <<now, logVars, sth, pending, nextOp, chainVars, ep, invalid,
                   deadline, addVars, alarms, consistencyReqs, invertedReqs>>

\* performOp(add-[pre-]chain): addMultiple starts 1..MaxParallelChains
\* addChain (addPreChain) goroutines with a fresh errs channel.
AddMultiple ==
    /\ pc = "perform" /\ ep \in ChainKinds
    /\ \E n \in Adders : adder' = [a \in Adders |-> IF a <= n THEN "get" ELSE "idle"]
    /\ addErr' = FALSE
    /\ pc' = "adding"
    /\ UNCHANGED <<now, logVars, sth, pending, nextOp, chainVars, ep, invalid,
                   deadline, count, attempts, acert, asct, alarms,
                   consistencyReqs, invertedReqs>>

\* chooseCertToAdd: FirstCert 1 in DuplicateChance, else NewCert.
ChooseCertToAdd == IF DuplicateChance THEN {FirstCert, NewCert} ELSE {NewCert}

\* ChainGenerator.CertChain / PreCertChain make a fresh certificate, and
\* fail once the supply of MaxCerts is used up.
Generated == nextCert <= MaxCerts

\* getChain (k = add-chain) or getPreChain (k = add-pre-chain) under
\* chainMu: the choice is overridden to NewCert before any chain of the
\* kind and while the first one may not be integrated; FirstCert resends
\* the first chain, NewCert makes one and records it as last (and first).
TakeChain(k, a) ==
    /\ adder[a] = "get"
    /\ \E choice \in ChooseCertToAdd :
         IF choice = FirstCert /\ lastChain[k] # NoCert
            /\ ~(now < firstChainIntegrated[k])
         THEN /\ acert' = [acert EXCEPT ![a] = firstChain[k]]
              /\ adder' = [adder EXCEPT ![a] = "add"]
              /\ UNCHANGED <<chainVars, addErr>>
         ELSE IF ~Generated
         THEN /\ adder' = [adder EXCEPT ![a] = "done"]
              /\ addErr' = TRUE
              /\ UNCHANGED <<chainVars, acert>>
         ELSE /\ acert' = [acert EXCEPT ![a] = nextCert]
              /\ nextCert' = nextCert + 1
              /\ IF firstChain[k] = NoCert
                 THEN /\ firstChain' = [firstChain EXCEPT ![k] = nextCert]
                      /\ firstChainIntegrated' =
                           [firstChainIntegrated EXCEPT ![k] = now + MMD]
                 ELSE UNCHANGED <<firstChain, firstChainIntegrated>>
              /\ lastChain' = [lastChain EXCEPT ![k] = nextCert]
              /\ adder' = [adder EXCEPT ![a] = "add"]
              /\ UNCHANGED addErr
    /\ UNCHANGED <<now, logVars, sth, pending, nextOp, pc, ep, invalid, deadline,
                   count, attempts, asct, alarms, consistencyReqs,
                   invertedReqs>>

GetChain(a) == ep = AddChainName /\ TakeChain(AddChainName, a)

GetPreChain(a) == ep = AddPreChainName /\ TakeChain(AddPreChainName, a)

\* The AddChain (AddPreChain) call: an error is sent on errs; else the SCT,
\* whose timestamp is the original one for a certificate the log has.
Submit(a) ==
    /\ adder[a] = "add"
    /\ \/ /\ attempts < MaxLogErrors
          /\ attempts' = attempts + 1
          /\ adder' = [adder EXCEPT ![a] = "done"]
          /\ addErr' = TRUE
          /\ UNCHANGED <<sctTime, asct>>
       \/ LET c == acert[a]
              ts == IF sctTime[c] = NoTime THEN now ELSE sctTime[c]
          IN /\ sctTime' = [sctTime EXCEPT ![c] = ts]
             /\ asct' = [asct EXCEPT ![a] = ts]
             /\ adder' = [adder EXCEPT ![a] = "append"]
             /\ UNCHANGED <<addErr, attempts>>
    /\ UNCHANGED <<now, tree, sth, pending, nextOp, chainVars, pc, ep, invalid,
                   deadline, count, acert, alarms, consistencyReqs,
                   invertedReqs>>

AddChain(a) == ep = AddChainName /\ Submit(a)

\* addPreChain also parses the issuer, prechain[1], which the generator
\* always makes parseable.
AddPreChain(a) == ep = AddPreChainName /\ Submit(a)

\* Variant of CanAppend without the "full already" test.
CanAppendWhenFull(t) ==
    pending = <<>> \/ t > Last(pending).ts + MMD \div SctCount

\* pendingCerts.canAppend(now, mmd): not full, and empty or now after the
\* last cert's SCT time plus mmd/sctCount.
CanAppend(t) ==
    /\ Len(pending) < SctCount
    /\ pending = <<>> \/ t > Last(pending).ts + MMD \div SctCount

\* addChain's tail: integrateBy is the SCT time plus MMD, and
\* tryAppendCert(time.Now(), mmd, submitted) appends it when canAppend.
TryAppendCert(a) ==
    /\ adder[a] = "append"
    /\ pending' = IF CanAppend(now)
                  THEN Append(pending, [cert |-> acert[a], ts |-> asct[a],
                                        integrateBy |-> asct[a] + MMD])
                  ELSE pending
    /\ adder' = [adder EXCEPT ![a] = "done"]
    /\ UNCHANGED <<now, logVars, sth, nextOp, chainVars, pc, ep, invalid,
                   deadline, count, attempts, acert, asct, addErr,
                   alarms, consistencyReqs, invertedReqs>>

\* addMultiple's wg.Wait, then the first error sent on errs, if any.
AddMultipleDone ==
    /\ pc = "adding"
    /\ \A a \in Adders : adder[a] \in {"idle", "done"}
    /\ adder' = [a \in Adders |-> "idle"]
    /\ IF addErr THEN Failed ELSE Completed
    /\ UNCHANGED <<attempts, now, logVars, sth, pending, nextOp, chainVars, ep,
                   invalid, deadline, acert, asct, addErr, alarms,
                   consistencyReqs, invertedReqs>>

-----------------------------------------------------------------------------
(* Invalid operations.  The log rejects every invalid request, so          *)
(* performInvalidOp returns nil or errSkip, which retryOneOp counts as     *)
(* done, unless a step before the request fails; that error retryOneOp     *)
(* returns at once, without the retries of a valid op.                     *)

InvalidOpFailed ==
    /\ pc' = "failed"
    /\ UNCHANGED <<count, attempts>>

invalidUnchanged == <<now, logVars, sth, pending, chainVars, ep, invalid,
                      deadline, addVars, alarms, consistencyReqs>>

\* addChainInvalid / addPreChainInvalid: EmptyChain needs no certificate;
\* the other choices ask the generator for one, which may fail.
InvalidChainRequest ==
    /\ \E generate \in BOOLEAN :
         IF generate /\ ~Generated
         THEN InvalidOpFailed /\ UNCHANGED nextCert
         ELSE /\ nextCert' = IF generate THEN nextCert + 1 ELSE nextCert
              /\ Completed
    /\ UNCHANGED <<now, logVars, sth, pending, nextOp, firstChain, lastChain,
                   firstChainIntegrated, ep, invalid, deadline, addVars, alarms,
                   consistencyReqs, invertedReqs>>

\* EmptyChain, PrecertNotCert, NoChainToRoot or UnparsableCert.
AddChainInvalid ==
    pc = "invalid" /\ ep = AddChainName /\ InvalidChainRequest

\* EmptyChain, CertNotPrecert, NoChainToRoot or UnparsableCert.
AddPreChainInvalid ==
    pc = "invalid" /\ ep = AddPreChainName /\ InvalidChainRequest

\* getSTHConsistencyInvalid: skipped while the last STH is empty; a size
\* beyond the tree, negative or non-numeric parameters are rejected;
\* ParamsInverted runs chooseSTHs (whose GetSTH may fail, and which may
\* skip and queue prerequisites) and asks for (sthNow, sthOld).
GetSTHConsistencyInvalid ==
    /\ pc = "invalid" /\ ep = GetSTHConsistencyName
    /\ IF LastTreeSize = 0
       THEN Completed /\ UNCHANGED <<nextOp, invertedReqs>>
       ELSE \/ Completed /\ UNCHANGED <<nextOp, invertedReqs>>
            \/ /\ attempts < MaxLogErrors
               /\ InvalidOpFailed
               /\ UNCHANGED <<nextOp, invertedReqs>>
            \/ \E which \in 1..SthCount :
                 LET sthNow == Len(tree)
                     need == SkipOps(sth[which], sthNow)
                 IN /\ NeedOps(need)
                    /\ invertedReqs' = IF need = <<>>
                                       THEN invertedReqs \cup {<<sthNow, sth[which]>>}
                                       ELSE invertedReqs
                    /\ Completed
    /\ UNCHANGED <<nextCert>> /\ UNCHANGED invalidUnchanged

\* getProofByHashInvalid: every choice is skipped (empty tree, or no due
\* certificate for ParamTooBig and ParamNegative) or rejected.
GetProofByHashInvalid ==
    /\ pc = "invalid" /\ ep = GetProofByHashName
    /\ Completed
    /\ UNCHANGED <<nextOp, nextCert, invertedReqs>> /\ UNCHANGED invalidUnchanged

\* getEntriesInvalid: skipped with an empty tree, else rejected.
GetEntriesInvalid ==
    /\ pc = "invalid" /\ ep = GetEntriesName
    /\ Completed
    /\ UNCHANGED <<nextOp, nextCert, invertedReqs>> /\ UNCHANGED invalidUnchanged

\* performInvalidOp(get-sth, get-roots, get-entry-and-proof): an error.
NoInvalidRequest ==
    /\ pc = "invalid"
    /\ ep \in {GetSTHName, GetRootsName, GetEntryAndProofName}
    /\ InvalidOpFailed
    /\ UNCHANGED <<nextOp, nextCert, invertedReqs>> /\ UNCHANGED invalidUnchanged

-----------------------------------------------------------------------------
(* The log *)

\* The log's sequencer integrates an accepted certificate.
Integrate ==
    /\ \E c \in Certs :
         /\ sctTime[c] # NoTime
         /\ c \notin ToSet(tree)
         /\ tree' = Append(tree, c)
    /\ UNCHANGED <<now, sctTime, sth, pending, nextOp, chainVars, pc, ep, invalid,
                   deadline, count, attempts, addVars, alarms,
                   consistencyReqs, invertedReqs>>

\* Time passes, but not beyond the MMD of a certificate the log has not
\* integrated yet: the log keeps its merge-delay promise.
Tick ==
    /\ now < MaxTime
    /\ \A c \in Certs : sctTime[c] # NoTime /\ c \notin ToSet(tree) =>
                           now + 1 <= sctTime[c] + MMD
    /\ now' = now + 1
    /\ UNCHANGED <<logVars, sth, pending, nextOp, chainVars, pc, ep, invalid,
                   deadline, count, attempts, addVars, alarms,
                   consistencyReqs, invertedReqs>>

\* HammerCTLog has returned.
Terminated ==
    /\ pc \in {"returned", "failed"}
    /\ UNCHANGED vars

\* performOp's switch on the entrypoint.
PerformOp ==
    \/ AddMultiple \/ GetSTH \/ GetSTHConsistency \/ GetProofByHash
    \/ GetEntries \/ GetRoots \/ GetEntryAndProof

\* performInvalidOp's switch on the entrypoint.
PerformInvalidOp ==
    \/ AddChainInvalid \/ AddPreChainInvalid \/ GetSTHConsistencyInvalid \/ GetProofByHashInvalid
    \/ GetEntriesInvalid \/ NoInvalidRequest

Next ==
    \/ ChooseOp \/ PerformOp \/ PerformInvalidOp \/ AddMultipleDone
    \/ \E a \in Adders : \/ GetChain(a) \/ GetPreChain(a)
                         \/ AddChain(a) \/ AddPreChain(a) \/ TryAppendCert(a)
    \/ Integrate \/ Tick \/ Terminated

Spec == Init /\ [][Next]_vars

-----------------------------------------------------------------------------
(* Properties *)

\* getProofByHash asks for an inclusion proof only once the oldest pending
\* certificate's integrateBy (SCT time plus MMD) has passed, so a log that
\* integrates every certificate within MMD is never reported as missing
\* one, whatever parallel adds, duplicates and retries did to pending.
NoFalseInclusionAlarm == alarms = {}

\* chooseSTHs skips a nil, empty or same-size earlier STH and
\* getSTHConsistency invents a size in 1..current otherwise, so every
\* get-sth-consistency the hammer sends has 1 <= first <= second, a
\* request a log that only grows must answer.
ConsistencyRequestsValid ==
    \A r \in consistencyReqs : 1 <= r[1] /\ r[1] <= r[2]

\* chooseOp dequeues one prerequisite per op, and the prerequisites
\* (add-chain, get-sth) queue nothing when performed; only a skipped
\* get-entries or get-sth-consistency queues, up to two ops per attempt,
\* and it runs only when the queue is empty, so the queue never holds
\* more than one op's attempts' worth.  This needs every prerequisite to
\* have a positive bias: one that chooseOp drops unperformed is replaced
\* by a random op that may queue again.
NextOpBounded == Len(nextOp) <= 2 * (MaxLogErrors + 1)

\* The comment on pendingCerts: "The array is ordered from oldest to most
\* recent"; oldestIfMMDPassed relies on it ("Oldest cert not due to be
\* integrated yet, so neither will any others").
PendingOrdered ==
    \A i \in 1..(Len(pending) - 1) : pending[i].ts <= pending[i + 1].ts

\* getSTHConsistencyInvalid(ParamsInverted) asks for (sthNow, sthOld) and
\* reports "unexpected success" if the log answers.  chooseSTHs skips an
\* earlier STH of the same size, and the earlier STHs the hammer stored
\* never exceed the log's current size, so every inverted request has
\* first > second, one an append-only log must reject.
InvertedConsistencyRejected ==
    \A r \in invertedReqs : r[1] > r[2]

\* HammerConfig.IgnoreErrors "controls whether a hammer run fails
\* immediately on any error": with it set, HammerCTLog returns an error
\* only once the failing op has been retried for MaxRetryDuration.
FailsOnlyAfterRetryDuration ==
    (pc = "failed" /\ IgnoreErrors) => now > deadline
=============================================================================
