--------------------------- MODULE MCCTFEInstance ---------------------------
(***************************************************************************)
(* SetUpInstance for TLC.  The configurations are those of the ctfe tests  *)
(* TestSetUpInstance and TestSetUpInstanceSetsValidationOpts, and every    *)
(* combination of: mirror or not; no roots, a readable roots file, or one  *)
(* followed by a missing one; no private key, one that loads and one with  *)
(* the wrong password; no public key, the signer's, another key, and one   *)
(* of an unsupported type; RejectExtensions empty, valid or not; chains    *)
(* kept in Trillian or in a CTFE storage whose cache options are valid or  *)
(* not.  Go's int is scaled down to 5 bits, so that "19" overflows.       *)
(***************************************************************************)
EXTENDS CTFEInstance, TLC

CONSTANTS FakeCA, BogusCert, PrivKey, MissingPrivKey, WrongPassPrivKey,
          ServerKey, OtherKey, NilKey, NilTime, Start10000, Limit12000

MCPemFiles == {FakeCA, BogusCert}
MCReadable == {FakeCA}
MCPrivKeys == {PrivKey, MissingPrivKey, WrongPassPrivKey}
MCKeys == {ServerKey, OtherKey}
MCSignerOf == PrivKey :> ServerKey @@ MissingPrivKey :> NilKey
              @@ WrongPassPrivKey :> NilKey
MCKeyTypes == {"ecdsa", "ed25519", "rsa", "x25519"}

\* ct-http-server.pubkey.pem, the public half of ct-http-server.privkey.pem.
PubKey == [type |-> "ecdsa", key |-> ServerKey]

\* "1.2.3.4", "5.6.7.8" and "one.banana.two.bananas".
Str1234 == <<"1", ".", "2", ".", "3", ".", "4">>
Str5678 == <<"5", ".", "6", ".", "7", ".", "8">>
StrBananas == <<"o", "n", "e", ".", "b", "a", "n", "a", "n", "a", ".",
                "t", "w", "o", ".", "b", "a", "n", "a", "n", "a", "s">>

\* A configpb.LogConfig with every field left at its zero value.
ZeroCfg == [isMirror |-> FALSE, rootsPemFile |-> <<>>, privKey |-> NilKey,
            pubKey |-> NilKey, rejectExtensions |-> <<>>,
            rejectExpired |-> FALSE, rejectUnexpired |-> FALSE,
            notAfterStart |-> NilTime, notAfterLimit |-> NilTime,
            acceptOnlyCa |-> FALSE, keyUsages |-> {},
            backend |-> "trillian", cacheOK |-> TRUE]
ValidCfg == [ZeroCfg EXCEPT !.rootsPemFile = <<FakeCA>>, !.privKey = PrivKey]

\* The cases of TestSetUpInstance: the configuration and the error wanted
\* (its kind, for "one" the piece named), NoErr for none.
SetUpTests ==
    "valid" :> [cfg |-> ValidCfg, want |-> NoErr]
 @@ "valid-mirror" :> [cfg |-> [ZeroCfg EXCEPT !.rootsPemFile = <<FakeCA>>,
                          !.pubKey = PubKey, !.isMirror = TRUE], want |-> NoErr]
 @@ "no-roots" :> [cfg |-> [ZeroCfg EXCEPT !.privKey = PrivKey],
                   want |-> Error("noRoots")]
 @@ "no-roots-mirror" :> [cfg |-> [ZeroCfg EXCEPT !.pubKey = PubKey,
                          !.isMirror = TRUE], want |-> NoErr]
 @@ "missing-root-cert" :> [cfg |-> [ValidCfg EXCEPT !.rootsPemFile = <<BogusCert>>],
                            want |-> Error("roots")]
 @@ "missing-privkey" :> [cfg |-> [ValidCfg EXCEPT !.privKey = MissingPrivKey],
                          want |-> Error("privKey")]
 @@ "privkey-wrong-password" :> [cfg |-> [ValidCfg EXCEPT !.privKey = WrongPassPrivKey],
                                 want |-> Error("privKey")]
 @@ "valid-ekus-1" :> [cfg |-> [ValidCfg EXCEPT !.keyUsages = {"Any"}], want |-> NoErr]
 @@ "valid-ekus-2" :> [cfg |-> [ValidCfg EXCEPT !.keyUsages = {"Any", "ServerAuth",
                          "TimeStamping"}], want |-> NoErr]
 @@ "valid-reject-ext" :> [cfg |-> [ValidCfg EXCEPT !.rejectExtensions =
                           <<Str1234, Str5678>>], want |-> NoErr]
 @@ "invalid-reject-ext" :> [cfg |-> [ValidCfg EXCEPT !.rejectExtensions =
                             <<Str1234, StrBananas>>],
                             want |-> [kind |-> "rejectExt", arg |-> <<"o", "n", "e">>]]

\* The cases of TestSetUpInstanceSetsValidationOpts.
OptsTests ==
    "no validation opts" :> ValidCfg
 @@ "notAfterStart only" :> [ValidCfg EXCEPT !.notAfterStart = Start10000]
 @@ "notAfter range" :> [ValidCfg EXCEPT !.notAfterStart = Start10000,
                         !.notAfterLimit = Limit12000]
 @@ "caOnly" :> [ValidCfg EXCEPT !.acceptOnlyCa = TRUE]

Combos ==
    {[ZeroCfg EXCEPT !.isMirror = m, !.rootsPemFile = r, !.privKey = k,
                     !.pubKey = p, !.rejectExtensions = x, !.backend = b,
                     !.cacheOK = c] :
        m \in BOOLEAN,
        r \in {<<>>, <<FakeCA>>, <<FakeCA, BogusCert>>},
        k \in {NilKey, PrivKey, WrongPassPrivKey},
        p \in {NilKey, PubKey, [type |-> "ed25519", key |-> OtherKey],
               [type |-> "x25519", key |-> ServerKey]},
        x \in {<<>>, <<<<"1", ".", "2">>>>, <<<<"1">>, <<"1", ".", ".", "2">>>>},
        b \in {"trillian", "ctfe"},
        c \in BOOLEAN}

MCConfigs == {SetUpTests[t].cfg : t \in DOMAIN SetUpTests}
             \cup {OptsTests[t] : t \in DOMAIN OptsTests} \cup Combos

-----------------------------------------------------------------------------
(* A reference for parseOIDs: the strings it accepts are exactly the dot-  *)
(* joined spellings of lists of ints, an int spelled as an optional sign   *)
(* ("-" only for a value <= 0, "+" only for one >= 0), any number of       *)
(* leading zeros and its decimal digits.  Checked over every string of up  *)
(* to four characters from a small alphabet holding a digit too large for  *)
(* the scaled int.                                                         *)

Alphabet == {"0", "1", "9", "+", "-", ".", "x"}
Inputs == BoundedSeq(Alphabet, 4)
ArcLists == {<<v>> : v \in IntRange} \cup {<<v, w>> : v, w \in IntRange}

DigitOf == [d \in 0..9 |-> CHOOSE c \in DOMAIN DigitValue : DigitValue[c] = d]
RECURSIVE Decimal(_)
Decimal(n) == IF n < 10 THEN <<DigitOf[n]>>
              ELSE Decimal(n \div 10) \o <<DigitOf[n % 10]>>
Signs(v) == (IF v >= 0 THEN {<<>>, <<"+">>} ELSE {})
            \cup (IF v <= 0 THEN {<<"-">>} ELSE {})
ArcSpellings(v, n) ==
    {w \in {sg \o [i \in 1..z |-> "0"] \o Decimal(IF v < 0 THEN -v ELSE v) :
             sg \in Signs(v), z \in 0..n} : Len(w) <= n}
RECURSIVE Spellings(_, _)
Spellings(arcs, n) ==
    IF Len(arcs) = 1 THEN ArcSpellings(arcs[1], n)
    ELSE {w \in {a \o <<".">> \o r : a \in ArcSpellings(arcs[1], n),
                                       r \in Spellings(Tail(arcs), n)} :
             Len(w) <= n}

\* parseOIDs against the reference over every input; TLC evaluates it once.
ParseOIDsAgreesWithSpellings ==
    /\ \A s \in Inputs :
          LET p == ParseOIDs(<<s>>)
          IN p.ok => p.ids[1] \in ArcLists /\ s \in Spellings(p.ids[1], Len(s))
    /\ \A arcs \in ArcLists : \A w \in Spellings(arcs, 4) :
          ToSet(w) \subseteq Alphabet =>
              ParseOIDs(<<w>>) = [ok |-> TRUE, ids |-> <<arcs>>, arg |-> <<>>]

(* When setUpLogInfo reaches parseOIDs, parseOIDs (strings.Split, then     *)
(* strconv.Atoi on every piece) accepts a string only if it spells the OID *)
(* it returns, and accepts every spelling of every OID whose arcs fit in   *)
(* an int.                                                                 *)
ParseOIDsMatchesGrammar ==
    pc = "validation" => ParseOIDsAgreesWithSpellings

-----------------------------------------------------------------------------
(* SetUpInstance answers the test cases as the tests want: TestSetUpInstance*)
(* wants success or an error containing a given text (the error's kind,    *)
(* and for a bad RejectExtensions entry the piece strconv.Atoi rejected),  *)
(* TestSetUpInstanceSetsValidationOpts wants an Instance whose add-chain   *)
(* handler has the configured notAfterStart, notAfterLimit and            *)
(* acceptOnlyCA.                                                           *)
InstanceAgreesWithTests ==
    pc \in {"done", "error"} =>
        /\ \A t \in DOMAIN SetUpTests :
              cfg = SetUpTests[t].cfg => err = SetUpTests[t].want
        /\ \A t \in DOMAIN OptsTests :
              cfg = OptsTests[t] =>
                  /\ pc = "done"
                  /\ vopts.notAfterStart = cfg.notAfterStart
                  /\ vopts.notAfterLimit = cfg.notAfterLimit
                  /\ vopts.acceptOnlyCA = cfg.acceptOnlyCa
=============================================================================
