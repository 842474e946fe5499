--------------------------- MODULE ConfigLoader ---------------------------
(***************************************************************************)
(* LoadConfig and Config.UnmarshalYAML (pkg/smokescreen/config_loader.go). *)
(* A YAML document is abstracted to a record that says, per key, whether   *)
(* it is absent or which value it has, and for every setup helper whether  *)
(* its input is valid.  The decoder runs the steps of UnmarshalYAML in the *)
(* code's order; each early return, and the Fatal of an unparsable socket  *)
(* file mode, ends the run with the outcome the caller sees.               *)
(* The file mode string is kept as a sequence of characters, because the   *)
(* octal conversion strconv.ParseInt(s, 8, 9) is modelled by what it does. *)
(* A document with no node at all (empty, comments only, or null) is one  *)
(* yaml.v2 decodes without calling UnmarshalYAML.                          *)
(***************************************************************************)
EXTENDS Integers, Sequences

CONSTANTS
    Ports,               \* explicit values of the "port" key
    Durations,           \* explicit values of the two timeout keys
    ModeStrings,         \* values of stats_socket_file_mode (character sequences)
    InvalidChoices,      \* sets of setup helpers whose input is invalid
    Unset,               \* a key that the document leaves out
    DefaultPort, DefaultExitTimeout, DefaultConnectTimeout, DefaultFileMode,
    DefaultStatsSocketDir

\* The setup helpers UnmarshalYAML calls, in the order it calls them.
Setups == {"deny", "allow", "resolvers", "statsd", "acl", "tls"}

ASSUME ConstAssumption ==
    /\ Ports \subseteq 0..65535
    /\ Durations \subseteq Nat
    /\ InvalidChoices \subseteq SUBSET Setups
    /\ DefaultPort \in 0..65535 /\ DefaultExitTimeout \in Nat
    /\ DefaultConnectTimeout \in Nat /\ DefaultFileMode \in 0..511

\* The TLS section: absent, or the two file keys ("" when left out).
NoTls == [present |-> FALSE, cert |-> "", key |-> ""]
TlsSections == {NoTls} \cup
    [present : {TRUE}, cert : {"", "cert.pem"}, key : {"", "key.pem"}]

KeyedDocuments ==
    [ readable        : BOOLEAN,       \* ioutil.ReadFile succeeds
      empty           : {FALSE},       \* the document has a node to decode
      strict          : BOOLEAN,       \* every key is a field of yamlConfig
      port            : {Unset} \cup Ports,
      connectTimeout  : {Unset} \cup Durations,
      exitTimeout     : {Unset} \cup Durations,
      aclFile         : BOOLEAN,       \* acl_file is non-empty
      statsSocketDir  : {"", "sockets"},
      fileMode        : {<<>>} \cup ModeStrings,
      tls             : TlsSections,
      allowMissingRole: BOOLEAN,
      invalid         : InvalidChoices ]

\* A readable file that is empty, holds only comments, or holds "null".
EmptyDocument ==
    [ readable |-> TRUE, empty |-> TRUE, strict |-> TRUE, port |-> Unset,
      connectTimeout |-> Unset, exitTimeout |-> Unset, aclFile |-> FALSE,
      statsSocketDir |-> "", fileMode |-> <<>>, tls |-> NoTls,
      allowMissingRole |-> FALSE, invalid |-> {} ]

Documents == KeyedDocuments \cup {EmptyDocument}

Outcomes == {"pending", "config", "error", "fatal"}

\* The steps of LoadConfig / UnmarshalYAML, named after what they do.
Steps == {"ReadFile", "Unmarshal", "Port", "DenyRanges", "AllowRanges",
          "Resolvers", "Timeouts", "Statsd", "EgressAcl", "SocketDir",
          "FileMode", "Tls", "Roles", "Done"}

FileModes == [perm : 0..511, upper : 0..(2^23 - 1)]

Configs ==
    [ port : 0..65535, connectTimeout : Nat, exitTimeout : Nat,
      statsSocketDir : {"", DefaultStatsSocketDir, "sockets"},
      fileMode : FileModes, tlsKey : {"", "cert.pem", "key.pem"},
      allowMissingRole : BOOLEAN, setUp : SUBSET Setups ]

VARIABLES doc, step, cfg, outcome

vars == <<doc, step, cfg, outcome>>

TypeOK ==
    /\ doc \in Documents
    /\ step \in Steps
    /\ cfg \in Configs
    /\ outcome \in Outcomes

(***************************************************************************)
(* strconv.ParseInt(s, 8, 9): an optional sign, then at least one octal    *)
(* digit; the magnitude must fit a signed 9-bit integer, -256 .. 255.      *)
(* There is no base prefix and no underscore, since the base is not 0.     *)
(***************************************************************************)
DigitValue == [d \in {"0", "1", "2", "3", "4", "5", "6", "7"} |->
                 CHOOSE v \in 0..7 : <<"0", "1", "2", "3", "4", "5", "6", "7">>[v + 1] = d]

ParseInt8x9(s) ==
    LET signed == Len(s) > 0 /\ s[1] \in {"+", "-"}
        neg    == Len(s) > 0 /\ s[1] = "-"
        digits == IF signed THEN Tail(s) ELSE s
        syntax == digits = <<>> \/ \E i \in 1..Len(digits) : digits[i] \notin DOMAIN DigitValue
        un[i \in 0..Len(digits)] ==
            IF i = 0 THEN 0 ELSE 8 * un[i - 1] + DigitValue[digits[i]]
        range == IF neg THEN un[Len(digits)] > 256 ELSE un[Len(digits)] >= 256
    IN  IF syntax \/ range
        THEN [ok |-> FALSE, val |-> 0]
        ELSE [ok |-> TRUE, val |-> IF neg THEN -un[Len(digits)] ELSE un[Len(digits)]]

\* os.FileMode(int64): a conversion to uint32, which keeps the low 32 bits
\* of the two's complement value.  The 32 bits are split into the nine
\* permission bits and the 23 bits above them (type and special bits).
FileModeOf(n) == [perm |-> n % 512, upper |-> (n \div 512) % 2^23]

\* NewConfig(): the defaults UnmarshalYAML starts from (*c = *NewConfig()).
NewConfig ==
    [ port |-> DefaultPort, connectTimeout |-> DefaultConnectTimeout,
      exitTimeout |-> DefaultExitTimeout, statsSocketDir |-> DefaultStatsSocketDir,
      fileMode |-> [perm |-> DefaultFileMode, upper |-> 0], tlsKey |-> "", allowMissingRole |-> FALSE,
      setUp |-> {} ]

\* Config{}: Go's zero value, every field zero, nil or empty.
ZeroConfig ==
    [ port |-> 0, connectTimeout |-> 0, exitTimeout |-> 0, statsSocketDir |-> "",
      fileMode |-> [perm |-> 0, upper |-> 0], tlsKey |-> "", allowMissingRole |-> FALSE,
      setUp |-> {} ]

\* LoadConfig(filePath) is called on a document; the Config it decodes into
\* is config := &Config{}, allocated before the decode.
Init ==
    /\ doc \in Documents
    /\ step = "ReadFile"
    /\ cfg = ZeroConfig
    /\ outcome = "pending"

\* A step that ends the run: the function returns an error to its caller.
Fail(s) ==
    /\ step = s
    /\ step' = "Done"
    /\ outcome' = "error"
    /\ UNCHANGED <<doc, cfg>>

\* ioutil.ReadFile; on error LoadConfig returns nil, err.
ReadFile ==
    \/ /\ doc.readable /\ step = "ReadFile"
       /\ step' = "Unmarshal" /\ UNCHANGED <<doc, cfg, outcome>>
    \/ ~doc.readable /\ Fail("ReadFile")

\* yaml.UnmarshalStrict on a document with no node calls no unmarshaler and
\* reports no error: LoadConfig returns config, still Config{}.
UnmarshalEmpty ==
    /\ step = "Unmarshal" /\ doc.empty
    /\ step' = "Done" /\ outcome' = "config"
    /\ UNCHANGED <<doc, cfg>>

\* Otherwise yaml.UnmarshalStrict calls UnmarshalYAML, which resets *c to
\* NewConfig() and decodes into yamlConfig; an unknown key is an error of
\* that decode.
Unmarshal ==
    \/ /\ ~doc.empty /\ doc.strict /\ step = "Unmarshal"
       /\ step' = "Port" /\ cfg' = NewConfig /\ UNCHANGED <<doc, outcome>>
    \/ ~doc.empty /\ ~doc.strict /\ Fail("Unmarshal")

\* c.Ip = yc.Ip; the pointer keeps the default when the key is absent.
Port ==
    /\ step = "Port"
    /\ step' = "DenyRanges"
    /\ cfg' = IF doc.port = Unset THEN cfg ELSE [cfg EXCEPT !.port = doc.port]
    /\ UNCHANGED <<doc, outcome>>

\* Variant: the error of a setup helper is dropped and decoding goes on.
SetupStepIgnoresError(s, helper, next) ==
    /\ step = s
    /\ step' = next
    /\ cfg' = IF helper \in doc.invalid THEN cfg
              ELSE [cfg EXCEPT !.setUp = @ \cup {helper}]
    /\ UNCHANGED <<doc, outcome>>

\* One call err = c.SetX(...); if err != nil { return err }.
SetupStep(s, helper, next) ==
    \/ /\ step = s /\ helper \notin doc.invalid
       /\ step' = next
       /\ cfg' = [cfg EXCEPT !.setUp = @ \cup {helper}]
       /\ UNCHANGED <<doc, outcome>>
    \/ helper \in doc.invalid /\ Fail(s)

DenyRanges  == SetupStep("DenyRanges", "deny", "AllowRanges")
AllowRanges == SetupStep("AllowRanges", "allow", "Resolvers")
Resolvers   == SetupStep("Resolvers", "resolvers", "Timeouts")

\* Variant: exit_timeout decoded without a pointer, like connect_timeout.
TimeoutsExitNoPointer ==
    /\ step = "Timeouts"
    /\ step' = "Statsd"
    /\ cfg' = [cfg EXCEPT
                 !.connectTimeout = IF doc.connectTimeout = Unset THEN 0
                                    ELSE doc.connectTimeout,
                 !.exitTimeout = IF doc.exitTimeout = Unset THEN 0
                                 ELSE doc.exitTimeout]
    /\ UNCHANGED <<doc, outcome>>

\* ConnectTimeout is not a pointer: an absent key decodes as 0 and is
\* assigned all the same.  ExitTimeout is a pointer and keeps the default.
Timeouts ==
    /\ step = "Timeouts"
    /\ step' = "Statsd"
    /\ cfg' = [cfg EXCEPT
                 !.connectTimeout = IF doc.connectTimeout = Unset THEN 0
                                    ELSE doc.connectTimeout,
                 !.exitTimeout = IF doc.exitTimeout = Unset THEN @
                                 ELSE doc.exitTimeout]
    /\ UNCHANGED <<doc, outcome>>

Statsd == SetupStep("Statsd", "statsd", "EgressAcl")

\* SetupEgressAcl is called only when acl_file is non-empty.
EgressAcl ==
    \/ /\ ~doc.aclFile /\ step = "EgressAcl"
       /\ step' = "SocketDir" /\ UNCHANGED <<doc, cfg, outcome>>
    \/ doc.aclFile /\ SetupStep("EgressAcl", "acl", "SocketDir")

\* c.SupportProxyProtocol = ...; StatsSocketDir only when non-empty.
SocketDir ==
    /\ step = "SocketDir"
    /\ step' = "FileMode"
    /\ cfg' = IF doc.statsSocketDir = "" THEN cfg
              ELSE [cfg EXCEPT !.statsSocketDir = doc.statsSocketDir]
    /\ UNCHANGED <<doc, outcome>>

\* ParseInt(mode, 8, 9); c.Log.Fatal on error exits the process.
FileMode ==
    /\ step = "FileMode"
    /\ LET p == ParseInt8x9(doc.fileMode) IN
       \/ /\ doc.fileMode = <<>>
          /\ step' = "Tls" /\ UNCHANGED <<doc, cfg, outcome>>
       \/ /\ doc.fileMode /= <<>> /\ p.ok
          /\ step' = "Tls"
          /\ cfg' = [cfg EXCEPT !.fileMode = FileModeOf(p.val)]
          /\ UNCHANGED <<doc, outcome>>
       \/ /\ doc.fileMode /= <<>> /\ ~p.ok
          /\ step' = "Done" /\ outcome' = "fatal"
          /\ UNCHANGED <<doc, cfg>>

\* The tls section: cert_file is required, key_file defaults to cert_file,
\* then SetupTls, then SetupCrls, whose result, if any, line 123 drops.
Tls ==
    \/ /\ step = "Tls" /\ ~doc.tls.present
       /\ step' = "Roles" /\ UNCHANGED <<doc, cfg, outcome>>
    \/ doc.tls.present /\ doc.tls.cert = "" /\ Fail("Tls")
    \/ /\ step = "Tls" /\ doc.tls.present /\ doc.tls.cert /= ""
       /\ "tls" \notin doc.invalid
       /\ step' = "Roles"
       /\ cfg' = [cfg EXCEPT !.tlsKey = IF doc.tls.key = "" THEN doc.tls.cert
                                         ELSE doc.tls.key,
                             !.setUp = @ \cup {"tls"}]
       /\ UNCHANGED <<doc, outcome>>
    \/ /\ doc.tls.present /\ doc.tls.cert /= "" /\ "tls" \in doc.invalid
       /\ Fail("Tls")

\* c.AllowMissingRole and the deny message; UnmarshalYAML returns nil and
\* LoadConfig returns the config.
Roles ==
    /\ step = "Roles"
    /\ step' = "Done"
    /\ cfg' = [cfg EXCEPT !.allowMissingRole = doc.allowMissingRole]
    /\ outcome' = "config"
    /\ UNCHANGED doc

Next ==
    \/ ReadFile \/ UnmarshalEmpty \/ Unmarshal \/ Port \/ DenyRanges \/ AllowRanges \/ Resolvers
    \/ Timeouts \/ Statsd \/ EgressAcl \/ SocketDir \/ FileMode \/ Tls \/ Roles

Spec == Init /\ [][Next]_vars

-----------------------------------------------------------------------------
(* The setup helpers UnmarshalYAML calls for a document: the range,       *)
(* resolver and statsd helpers always, SetupEgressAcl for an acl_file,     *)
(* SetupTls for a tls section; none when the document has no node and     *)
(* UnmarshalYAML is not called.                                            *)
Needed(d) == IF d.empty THEN {}
             ELSE {"deny", "allow", "resolvers", "statsd"}
                  \cup (IF d.aclFile THEN {"acl"} ELSE {})
                  \cup (IF d.tls.present THEN {"tls"} ELSE {})

(* LoadConfig hands a Config to the caller only if every setup helper      *)
(* UnmarshalYAML called for the document ran and succeeded: UnmarshalYAML  *)
(* mutates *c step by step, and an error of any helper, on any step, must  *)
(* end with an error and no Config; it returns an error only for a reason *)
(* in the document.                                                        *)
NoConfigWithFailedSetup ==
    /\ outcome = "config" => cfg.setUp = Needed(doc)
    /\ outcome = "error" => Needed(doc) \cap doc.invalid /= {}
                            \/ ~doc.readable \/ ~doc.strict
                            \/ (doc.tls.present /\ doc.tls.cert = "")

(* The helpers a run has set up when it reaches step s of UnmarshalYAML:  *)
(* those of the steps before s, in the code's order.                       *)
SetUpBefore(s) ==
    LET base == {"deny", "allow", "resolvers", "statsd"}
        acl  == IF doc.aclFile THEN {"acl"} ELSE {}
    IN  CASE s \in {"ReadFile", "Unmarshal", "Port", "DenyRanges"} -> {}
          [] s = "AllowRanges"                     -> {"deny"}
          [] s = "Resolvers"                       -> {"deny", "allow"}
          [] s \in {"Timeouts", "Statsd"}          -> {"deny", "allow", "resolvers"}
          [] s = "EgressAcl"                       -> base
          [] s \in {"SocketDir", "FileMode", "Tls"} -> base \cup acl
          [] OTHER                                 -> Needed(doc)

(* The inductive invariant behind NoConfigWithFailedSetup: until the run   *)
(* ends, the Config under construction has set up exactly the helpers of  *)
(* the steps already taken, each of which succeeded.                      *)
SetupInv ==
    /\ "setUp" \in DOMAIN cfg
    /\ (outcome = "pending") = (step /= "Done")
    /\ step /= "Done" => cfg.setUp = SetUpBefore(step)
    /\ step \in Steps \ {"ReadFile", "Unmarshal", "Done"} => ~doc.empty
    /\ NoConfigWithFailedSetup

(* The steps of UnmarshalYAML by which a key has been decoded.             *)
PortDecoded      == Steps \ {"ReadFile", "Unmarshal", "Port"}
TimeoutsDecoded  == {"Statsd", "EgressAcl", "SocketDir", "FileMode", "Tls",
                     "Roles", "Done"}
SocketDirDecoded == {"FileMode", "Tls", "Roles", "Done"}
TlsDecoded       == {"Roles", "Done"}

(* The inductive invariant behind KeysOverrideDefaults: before             *)
(* UnmarshalYAML the Config is Config{}; once it has run, while the run   *)
(* has not failed, every key already decoded holds the document's value   *)
(* or, for an absent pointer key, NewConfig's default, and every key not  *)
(* yet decoded still holds the default.                                    *)
DecodeInv ==
    /\ DOMAIN cfg = DOMAIN NewConfig
    /\ (outcome = "pending") = (step /= "Done")
    /\ step \in {"ReadFile", "Unmarshal"} => cfg = ZeroConfig
    /\ step \in Steps \ {"ReadFile", "Unmarshal", "Done"} => ~doc.empty
    /\ outcome \in {"pending", "config"} /\ ~doc.empty
       /\ step \notin {"ReadFile", "Unmarshal"} =>
        /\ step = "Port" => cfg = NewConfig
        /\ step \in PortDecoded =>
               cfg.port = IF doc.port = Unset THEN DefaultPort ELSE doc.port
        /\ step \notin TimeoutsDecoded => cfg.exitTimeout = DefaultExitTimeout
        /\ step \in TimeoutsDecoded =>
               cfg.exitTimeout = IF doc.exitTimeout = Unset THEN DefaultExitTimeout
                                 ELSE doc.exitTimeout
        /\ step \notin SocketDirDecoded =>
               cfg.statsSocketDir = DefaultStatsSocketDir
        /\ step \in SocketDirDecoded =>
               cfg.statsSocketDir = IF doc.statsSocketDir = "" THEN DefaultStatsSocketDir
                                    ELSE doc.statsSocketDir
        /\ doc.fileMode = <<>> =>
               cfg.fileMode = [perm |-> DefaultFileMode, upper |-> 0]
        /\ step \in TlsDecoded /\ doc.tls.present =>
               cfg.tlsKey \in {doc.tls.key, doc.tls.cert} \ {""}

(* A Config that UnmarshalYAML decoded keeps NewConfig's default for every *)
(* pointer or non-empty-checked key the document leaves out (port,         *)
(* exit_timeout, stats_socket_dir, stats_socket_file_mode), takes the      *)
(* document's value otherwise, including an explicit 0, and uses the cert *)
(* file as the key file when key_file is left out (UnmarshalYAML, lines    *)
(* 55-116).  A document with no node is EmptyDocumentKeepsDefaults' case. *)
KeysOverrideDefaults ==
    outcome = "config" /\ ~doc.empty =>
        /\ cfg.port = IF doc.port = Unset THEN DefaultPort ELSE doc.port
        /\ cfg.exitTimeout =
               IF doc.exitTimeout = Unset THEN DefaultExitTimeout ELSE doc.exitTimeout
        /\ cfg.statsSocketDir =
               IF doc.statsSocketDir = "" THEN DefaultStatsSocketDir ELSE doc.statsSocketDir
        /\ doc.fileMode = <<>> => cfg.fileMode = [perm |-> DefaultFileMode, upper |-> 0]
        /\ doc.tls.present => cfg.tlsKey \in {doc.tls.key, doc.tls.cert} \ {""}

(* The comment at lines 20-21: a key that is not set must not override a  *)
(* non-zero default, and the spec's YAML loading supplies a populated     *)
(* Config.  So a config file that sets no key at all (empty, or comments  *)
(* only) yields NewConfig's port, exit timeout, socket directory and file *)
(* mode.                                                                   *)
EmptyDocumentKeepsDefaults ==
    (outcome = "config" /\ doc.empty) =>
        /\ cfg.port = DefaultPort
        /\ cfg.exitTimeout = DefaultExitTimeout
        /\ cfg.statsSocketDir = DefaultStatsSocketDir
        /\ cfg.fileMode = [perm |-> DefaultFileMode, upper |-> 0]

(* Every permission string of octal digits up to 0777, such as the usual   *)
(* 0700 or 0660, is accepted as stats_socket_file_mode: the file mode      *)
(* conversion at line 98 does not end the process on it.                   *)
PermissionModeAccepted ==
    LET digits == doc.fileMode
        value  == LET v[i \in 0..Len(digits)] ==
                        IF i = 0 THEN 0 ELSE 8 * v[i - 1] + DigitValue[digits[i]]
                  IN v[Len(digits)]
    IN  ( /\ digits /= <<>>
          /\ \A i \in 1..Len(digits) : digits[i] \in DOMAIN DigitValue
          /\ value <= 511 )
        => outcome /= "fatal"

(* The StatsSocketFileMode of a returned Config holds permission bits only *)
(* (0 .. 0777): a mode string cannot set the type bits of os.FileMode.     *)
FileModeIsPermission ==
    outcome = "config" => cfg.fileMode.upper = 0

(* stats_socket_file_mode sets the socket's permission: every octal       *)
(* permission up to 0777 is accepted, and a returned Config's mode holds   *)
(* permission bits only (the conversion at lines 96-100).                 *)
SocketModeIsPermission == PermissionModeAccepted /\ FileModeIsPermission

(* connect_timeout bounds DNS and the upstream dial: a document that leaves *)
(* the key out keeps NewConfig's ConnectTimeout (line 74).                 *)
AbsentConnectTimeoutKeepsDefault ==
    (outcome = "config" /\ doc.connectTimeout = Unset)
        => cfg.connectTimeout = DefaultConnectTimeout


=============================================================================
