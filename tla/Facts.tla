-------------------------------- MODULE Facts --------------------------------
(***************************************************************************)
(* What collection leaves of a configuration file: ConfigFacts, and the    *)
(* masking of their values (internal/collect: config.go, env.go).          *)
(*                                                                         *)
(* Keys are joined with dots, as in the code.  A file of keys and values   *)
(* is the function that the decoders (INI, YAML, XML, JSON, dotenv) make   *)
(* of its text; NoText is a text they refuse.  Letter case, which the code *)
(* folds before it compares, is that of the literals here.                 *)
(***************************************************************************)
EXTENDS Naturals, SequencesExt

HasWord(t, w) ==
    LET last == Len(w) - 1 IN \E i \in 1..(Len(t) - last) : SubSeq(t, i, i + last) = w
HasPrefix(t, w) == Len(w) <= Len(t) /\ SubSeq(t, 1, Len(w)) = w
HasSuffix(t, w) == Len(w) <= Len(t) /\ SubSeq(t, Len(t) - Len(w) + 1, Len(t)) = w
After(t, w) == SubSeq(t, Len(w) + 1, Len(t))

\* The texts before and after the first occurrence of a word.
At1(t, w) == CHOOSE i \in 1..Len(t) :
    /\ SubSeq(t, i, i + Len(w) - 1) = w
    /\ \A j \in 1..(i - 1) : SubSeq(t, j, j + Len(w) - 1) # w
UpTo(t, w) == IF HasWord(t, w) THEN SubSeq(t, 1, At1(t, w) - 1) ELSE t
Past(t, w) == IF HasWord(t, w) THEN SubSeq(t, At1(t, w) + Len(w), Len(t)) ELSE ""

IsNumber(t) ==
    t # "" /\ \A i \in 1..Len(t) : \E d \in 0..9 : ToString(d) = SubSeq(t, i, i)

\* The number that a text of decimal digits writes.
Number(t) ==
    LET Digit(i) == CHOOSE d \in 0..9 : ToString(d) = SubSeq(t, i, i)
    IN FoldLeft(LAMBDA n, i : 10 * n + Digit(i), 0, [i \in 1..Len(t) |-> i])

\* The elements of a list with commas, without the blanks around them.
Trimmed(t) ==
    LET inked == {i \in 1..Len(t) : SubSeq(t, i, i) # " "}
    IN IF inked = {} THEN "" ELSE SubSeq(t, Min(inked), Max(inked))
Elements(t) ==
    LET cuts == {0, Len(t) + 1} \cup {i \in 1..Len(t) : SubSeq(t, i, i) = ","}
    IN {Trimmed(SubSeq(t, i + 1, Min({j \in cuts : j > i}) - 1)) : i \in cuts \ {Len(t) + 1}}

NoValues == [k \in {} |-> ""]
NoText == [k \in {"undecodable"} |-> ""]
Undecodable(c) == c \in {NoText, NoValues}

\* c[k] of a map of strings: "" when the key is absent.
Val(c, k) == IF k \in DOMAIN c THEN c[k] ELSE ""

Flag(b) == IF b THEN "true" ELSE "false"

-----------------------------------------------------------------------------
(***************************************************************************)
(* Masking: by the name of a key, by the form of its value, and by the     *)
(* entropy of its value.                                                   *)
(***************************************************************************)
HighEntropy == "q7Rz-mV02xLw9cKd41TbYh"
UserinfoURL == "http://user:pw@host"
KeychainRef == "keychain:item"
Bearer      == "bearer q7Rz"

Masked == {"[secret]", "[keychain-ref]"}

secretNameTokens == {"token", "key", "secret", "password", "passwd", "pwd", "credential",
                     "apikey", "TOKEN", "KEY", "SECRET", "PASSWORD", "Key", "Token"}
credHeaderNames == {"authorization", "x-api-key", "x-auth-token", "api-key", "apikey",
                    "token", "secret", "password"}

isCredentialKeyPath(k) ==
    \/ HasWord(k, ".env.") \/ HasWord(k, ".headers.")
    \/ \E h \in credHeaderNames : k = h \/ HasSuffix(k, "." \o h)

\* An address with a user and a password.
hasURLUserinfo(v) ==
    LET user == UpTo(Past(v, "://"), "@")
    IN /\ HasWord(v, "://") /\ HasWord(Past(v, "://"), "@")
       /\ HasWord(user, ":") /\ ~HasPrefix(user, ":")

\* Addresses that the Docker daemon listens on, without a password.
looksLikeNetworkAddrList(v) ==
    v # "" /\ \A e \in Elements(v) :
        (HasPrefix(e, "tcp://") \/ HasPrefix(e, "unix://")) /\ ~hasURLUserinfo(e)

\* The binary logarithm of n, in units of 1/256 and rounded down: its integral part,
\* then bit by bit by squaring what is left, which m holds in units of 2^-14.
LogUnits(n) ==
    LET whole == CHOOSE e \in 0..15 : 2^e <= n /\ n < 2^(e + 1)
        Square(a) == (a.m * a.m) \div 2^14
        Bit(a, i) == IF Square(a) < 2^15 THEN [m |-> Square(a), log |-> 2 * a.log]
                     ELSE [m |-> Square(a) \div 2, log |-> 2 * a.log + 1]
    IN FoldLeft(Bit, [m |-> (n * 2^14) \div 2^whole, log |-> whole], [i \in 1..8 |-> i]).log

\* The entropy of a text: of each place, how rare its character is, on average.
EntropyAtLeast(bits, t) ==
    LET Alike(i) == Cardinality({j \in 1..Len(t) : SubSeq(t, j, j) = SubSeq(t, i, i)})
    IN FoldLeft(LAMBDA sum, i : sum + LogUnits(Len(t)) - LogUnits(Alike(i)), 0,
                [i \in 1..Len(t) |-> i]) >= 256 * bits * Len(t)

classOf(k, v) ==
    CASE v = "" -> "empty"
      [] v # "" /\ (\/ \E w \in secretNameTokens \cup {"authorization"} : HasWord(k, w)
                    \/ HasPrefix(v, "bearer ") \/ HasPrefix(v, "basic ")
                    \/ /\ Len(v) >= 20 /\ ~looksLikeNetworkAddrList(v)
                       /\ EntropyAtLeast(4, v)) -> "secret"
      [] OTHER -> "plain"


\* A dotted key that names no credential keeps its value, unless it is an address
\* with a password.
MaskValue(k, v) ==
    IF HasWord(k, ".") /\ ~isCredentialKeyPath(k)
    THEN IF hasURLUserinfo(v) THEN "[secret]" ELSE v
    ELSE CASE v = KeychainRef -> "[keychain-ref]"
           [] v # KeychainRef /\ classOf(k, v) = "secret" -> "[secret]"
           [] OTHER -> v

redactConfigValues(values) == [k \in DOMAIN values |-> MaskValue(k, values[k])]

-----------------------------------------------------------------------------
(***************************************************************************)
(* ConfigFacts.                                                            *)
(***************************************************************************)
Bare(path) ==
    [source |-> path, schema |-> "", known |-> FALSE, values |-> NoValues, mode |-> ""]

\* What a parser returns: a schema and values, or that it knows nothing.
Unparsed == [schema |-> "", known |-> FALSE, values |-> NoValues]
Parsed(schema, values) == [schema |-> schema, known |-> TRUE, values |-> values]

\* The fact of a file that was read: what its parser returned, and its mode.
Fact(path, mode, p) == p @@ [source |-> path, mode |-> mode]

\* Where the known facts of a schema are.
KnownOf(configs, schema) ==
    {i \in DOMAIN configs : configs[i].schema = schema /\ configs[i].known}

\* configBySchema: the first known fact of a schema, Bare without one.
configBySchema(configs, schema) ==
    LET known == KnownOf(configs, schema)
    IN IF known = {} THEN Bare(schema) ELSE configs[Min(known)]

\* Modes are octal, four digits: the bits of others, of the group and others.
OpenToOthers(mode) == mode # "" /\ SubSeq(mode, 4, 4) # "0"
OpenToGroup(mode) == mode # "" /\ SubSeq(mode, 3, 4) # "00"
=============================================================================
