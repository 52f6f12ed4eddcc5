---------------------------- MODULE CTFEInstance ----------------------------
(***************************************************************************)
(* ctfe.SetUpInstance (trillian/ctfe/instance.go): setUpLogInfo checks the *)
(* configuration, loads the trusted roots file by file, loads the signer   *)
(* of a non-mirror log and checks it against a configured public key,      *)
(* builds the certificate validation options (parseOIDs translates the     *)
(* RejectExtensions strings), and sets up the issuance chain service:      *)
(* chains kept in Trillian (no storage) or in a CTFE storage with a cache. *)
(* Every step may end the call with an error.                              *)
(*                                                                         *)
(* The configuration is the ValidatedLogConfig the call receives; what the *)
(* file system and the key store answer (which PEM files can be read, the *)
(* key each private key loads to) are constants; whether the CTFE storage  *)
(* backend connects is the environment's choice.  Strings parsed by        *)
(* parseOIDs are sequences of one-character strings; Go's int is IntWidth  *)
(* bits wide.                                                              *)
(***************************************************************************)
EXTENDS Integers, Sequences, FiniteSets, SequencesExt

CONSTANTS
    Configs,        \* the configurations SetUpInstance may be called with
    PemFiles,       \* RootsPemFile entries
    Readable,       \* the PEM files that exist and parse
    PrivKeys,       \* PrivateKey entries
    Keys,           \* public keys
    SignerOf,       \* SignerOf[k]: the public key of the signer k loads to, or NoKey
    NoKey,          \* nil: no private key, no public key, no signer
    KeyTypes,       \* the Go types a configured public key may have
    IntWidth        \* bits of Go's int, as seen by strconv.Atoi

ASSUME CTFEInstanceAssumption ==
    /\ Readable \subseteq PemFiles
    /\ SignerOf \in [PrivKeys -> Keys \cup {NoKey}]
    /\ NoKey \notin Keys \cup PrivKeys
    /\ {"ecdsa", "ed25519", "rsa"} \subseteq KeyTypes
    /\ IntWidth \in Nat \ {0}

-----------------------------------------------------------------------------
(* strconv.Atoi and parseOIDs.                                             *)

DigitValue == "0" :> 0 @@ "1" :> 1 @@ "2" :> 2 @@ "3" :> 3 @@ "4" :> 4
              @@ "5" :> 5 @@ "6" :> 6 @@ "7" :> 7 @@ "8" :> 8 @@ "9" :> 9
IntRange == (-(2^(IntWidth - 1)))..(2^(IntWidth - 1) - 1)

(* Variant of SplitOn that drops empty pieces, as strings.Fields-style     *)
(* splitting would.                                                        *)
RECURSIVE SplitOnSkipEmpty(_, _)
SplitOnSkipEmpty(s, sep) ==
    LET k == SelectInSeq(s, LAMBDA c : c = sep)
        rest == IF k = 0 THEN <<>> ELSE SplitOnSkipEmpty(SubSeq(s, k + 1, Len(s)), sep)
        piece == IF k = 0 THEN s ELSE SubSeq(s, 1, k - 1)
    IN IF piece = <<>> /\ (k # 0 \/ s # <<>>) THEN rest
       ELSE <<piece>> \o rest

(* strings.Split(s, sep): the pieces between the separators; the empty     *)
(* string gives one empty piece.                                           *)
RECURSIVE SplitOn(_, _)
SplitOn(s, sep) ==
    LET k == SelectInSeq(s, LAMBDA c : c = sep)
    IN IF k = 0 THEN <<s>>
       ELSE <<SubSeq(s, 1, k - 1)>> \o SplitOn(SubSeq(s, k + 1, Len(s)), sep)

(* strconv.Atoi(s): an optional sign and at least one decimal digit, and   *)
(* a value that fits in an int; anything else is an error.                 *)
Atoi(s) ==
    LET signed == s # <<>> /\ Head(s) \in {"+", "-"}
        body == IF signed THEN Tail(s) ELSE s
        mag == FoldLeft(LAMBDA acc, d : 10 * acc + DigitValue[d], 0, body)
        val == IF signed /\ Head(s) = "-" THEN -mag ELSE mag
    IN IF /\ body # <<>>
          /\ \A i \in DOMAIN body : body[i] \in DOMAIN DigitValue
          /\ val \in IntRange
       THEN [ok |-> TRUE, val |-> val]
       ELSE [ok |-> FALSE, val |-> 0]

(* parseOIDs: every string is split at "." and each piece goes through    *)
(* Atoi; the first piece Atoi rejects is returned as the error.            *)
ParseOIDs(oids) ==
    LET pieces(s) == SplitOn(s, ".")
        bad(s) == {i \in DOMAIN pieces(s) : ~Atoi(pieces(s)[i]).ok}
        badStr == {i \in DOMAIN oids : bad(oids[i]) # {}}
    IN IF badStr = {}
       THEN [ok |-> TRUE,
             ids |-> [i \in DOMAIN oids |->
                        [j \in DOMAIN pieces(oids[i]) |-> Atoi(pieces(oids[i])[j]).val]],
             arg |-> <<>>]
       ELSE LET s == oids[Min(badStr)]
            IN [ok |-> FALSE, ids |-> <<>>, arg |-> pieces(s)[Min(bad(s))]]

-----------------------------------------------------------------------------
(* The call of SetUpInstance.                                              *)

VARIABLES
    cfg,        \* opts.Validated: the configuration of this call
    pc,         \* "check", "roots", "pubkey", "validation",
                \* "storage", "cache", "done" (an Instance returned) or "error"
    next,       \* the index of the next RootsPemFile entry to load
    roots,      \* the PEM files appended to the trusted root pool
    signer,     \* the signer's public key, or NoKey
    vopts,      \* the CertValidationOpts built, or NoOpts before
    err,        \* the error returned: [kind, arg]
    storage,    \* the issuance chain storage: "none" or "open"
    service     \* the issuance chain service: "none", "direct" or "indirect"

vars == <<cfg, pc, next, roots, signer, vopts, err, storage, service>>

NoOpts == [none |-> TRUE]
NoErr == [kind |-> "none", arg |-> <<>>]
Error(kind) == [kind |-> kind, arg |-> <<>>]

(* Fail(kind): setUpLogInfo returns nil and an error.                      *)
Fail(kind) == pc' = "error" /\ err' = Error(kind)

TypeOK ==
    /\ cfg \in Configs
    /\ pc \in {"check", "roots", "pubkey", "validation", "storage",
               "cache", "done", "error"}
    /\ next \in 1..(Len(cfg.rootsPemFile) + 1)
    /\ roots \subseteq Readable
    /\ signer \in Keys \cup {NoKey}
    /\ storage \in {"none", "open"}
    /\ service \in {"none", "direct", "indirect"}
    /\ (pc = "error") = (err # NoErr)

Init ==
    /\ cfg \in Configs
    /\ pc = "check"
    /\ next = 1
    /\ roots = {}
    /\ signer = NoKey
    /\ vopts = NoOpts
    /\ err = NoErr
    /\ storage = "none"
    /\ service = "none"

(* Variant of CheckConfig that asks roots of a mirror too.                *)
CheckConfigMirrorToo ==
    /\ pc = "check"
    /\ IF cfg.rootsPemFile = <<>>
       THEN Fail("noRoots")
       ELSE pc' = "roots" /\ UNCHANGED err
    /\ UNCHANGED <<cfg, next, roots, signer, vopts, storage, service>>

(* A log that is not a mirror needs RootsPemFile.                          *)
CheckConfig ==
    /\ pc = "check"
    /\ IF ~cfg.isMirror /\ cfg.rootsPemFile = <<>>
       THEN Fail("noRoots")
       ELSE pc' = "roots" /\ UNCHANGED err
    /\ UNCHANGED <<cfg, next, roots, signer, vopts, storage, service>>

(* roots.AppendCertsFromPEMFile for the next RootsPemFile entry.           *)
LoadRoot ==
    /\ pc = "roots"
    /\ next <= Len(cfg.rootsPemFile)
    /\ LET f == cfg.rootsPemFile[next]
       IN IF f \in Readable
          THEN /\ roots' = roots \cup {f}
               /\ next' = next + 1
               /\ UNCHANGED <<pc, err>>
          ELSE Fail("roots") /\ UNCHANGED <<roots, next>>
    /\ UNCHANGED <<cfg, signer, vopts, storage, service>>

(* After the roots, keys.NewSigner loads the private key of a log that is  *)
(* not a mirror; a mirror has no signer.                                   *)
NewSigner ==
    /\ pc = "roots"
    /\ next > Len(cfg.rootsPemFile)
    /\ IF cfg.isMirror
       THEN pc' = "validation" /\ UNCHANGED <<signer, err>>
       ELSE IF cfg.privKey = NoKey \/ SignerOf[cfg.privKey] = NoKey
       THEN Fail("privKey") /\ UNCHANGED signer
       ELSE /\ signer' = SignerOf[cfg.privKey]
            /\ pc' = "pubkey"
            /\ UNCHANGED err
    /\ UNCHANGED <<cfg, next, roots, vopts, storage, service>>

(* Variant of CheckPubKey that checks the key's type but not the key.      *)
CheckPubKeyTypeOnly ==
    /\ pc = "pubkey"
    /\ IF cfg.pubKey # NoKey /\ cfg.pubKey.type \notin {"ecdsa", "ed25519", "rsa"}
       THEN Fail("pubKeyType")
       ELSE pc' = "validation" /\ UNCHANGED err
    /\ UNCHANGED <<cfg, next, roots, signer, vopts, storage, service>>

(* A configured public key must be of a known type and equal the signer's. *)
CheckPubKey ==
    /\ pc = "pubkey"
    /\ IF cfg.pubKey = NoKey
       THEN pc' = "validation" /\ UNCHANGED err
       ELSE IF cfg.pubKey.type \notin {"ecdsa", "ed25519", "rsa"}
       THEN Fail("pubKeyType")
       ELSE IF cfg.pubKey.key # signer
       THEN Fail("pubKeyMismatch")
       ELSE pc' = "validation" /\ UNCHANGED err
    /\ UNCHANGED <<cfg, next, roots, signer, vopts, storage, service>>

(* CertValidationOpts from the configuration, and parseOIDs of             *)
(* RejectExtensions, whose error names the piece Atoi rejected.            *)
BuildValidationOpts ==
    /\ pc = "validation"
    /\ LET parsed == ParseOIDs(cfg.rejectExtensions)
       IN IF parsed.ok
          THEN /\ vopts' = [trustedRoots |-> roots,
                            rejectExpired |-> cfg.rejectExpired,
                            rejectUnexpired |-> cfg.rejectUnexpired,
                            notAfterStart |-> cfg.notAfterStart,
                            notAfterLimit |-> cfg.notAfterLimit,
                            acceptOnlyCA |-> cfg.acceptOnlyCa,
                            extKeyUsages |-> cfg.keyUsages,
                            rejectExtIds |-> parsed.ids]
               /\ pc' = "storage"
               /\ UNCHANGED err
          ELSE /\ pc' = "error"
               /\ err' = [kind |-> "rejectExt", arg |-> parsed.arg]
               /\ UNCHANGED vopts
    /\ UNCHANGED <<cfg, next, roots, signer, storage, service>>

(* storage.NewIssuanceChainStorage: the Trillian backend gives no storage  *)
(* and the direct service, which ends the call; the CTFE backend opens its *)
(* database or fails.                                                      *)
NewStorage ==
    /\ pc = "storage"
    /\ IF cfg.backend = "trillian"
       THEN /\ service' = "direct"
            /\ pc' = "done"
            /\ UNCHANGED <<storage, err>>
       ELSE \/ storage' = "open" /\ pc' = "cache" /\ UNCHANGED <<service, err>>
            \/ Fail("storage") /\ UNCHANGED <<storage, service>>
    /\ UNCHANGED <<cfg, next, roots, signer, vopts>>

(* Variant of NewCache whose failure returns a nil error.                 *)
NewCacheNilErr ==
    /\ pc = "cache"
    /\ IF cfg.cacheOK
       THEN service' = "indirect" /\ pc' = "done" /\ UNCHANGED err
       ELSE pc' = "error" /\ UNCHANGED <<service, err>>
    /\ UNCHANGED <<cfg, next, roots, signer, vopts, storage>>

(* cache.NewIssuanceChainCache, then the indirect service over storage and *)
(* cache.                                                                  *)
NewCache ==
    /\ pc = "cache"
    /\ IF cfg.cacheOK
       THEN service' = "indirect" /\ pc' = "done" /\ UNCHANGED err
       ELSE Fail("cache") /\ UNCHANGED service
    /\ UNCHANGED <<cfg, next, roots, signer, vopts, storage>>

(* SetUpInstance has returned.                                             *)
Returned ==
    /\ pc \in {"done", "error"}
    /\ UNCHANGED vars

Next ==
    \/ CheckConfig \/ LoadRoot \/ NewSigner \/ CheckPubKey
    \/ BuildValidationOpts \/ NewStorage \/ NewCache \/ Returned

Spec == Init /\ [][Next]_vars

(* Instance.GetPublicKey: the signer's public key, nil for a mirror or     *)
(* when no Instance was set up.                                            *)
GetPublicKey == IF pc = "done" THEN signer ELSE NoKey

-----------------------------------------------------------------------------
(* What SetUpInstance promises of an Instance it returns: the log is a     *)
(* mirror or has roots, and it trusts every configured roots file; a log   *)
(* signs with the key its PrivateKey loads to, which is the configured     *)
(* public key when there is one, while a mirror has no key; and chains go  *)
(* to a CTFE storage exactly when that backend is configured.              *)
SetUpInstanceContract ==
    pc = "done" =>
        /\ cfg.isMirror \/ cfg.rootsPemFile # <<>>
        /\ vopts.trustedRoots = ToSet(cfg.rootsPemFile)
        /\ GetPublicKey = IF cfg.isMirror THEN NoKey ELSE SignerOf[cfg.privKey]
        /\ ~cfg.isMirror => GetPublicKey # NoKey
        /\ (~cfg.isMirror /\ cfg.pubKey # NoKey) => cfg.pubKey.key = GetPublicKey
        /\ (service = "indirect") = (cfg.backend = "ctfe")
=============================================================================
