------------------------ MODULE ConfigLoader_proofs ------------------------
(***************************************************************************)
(* Proofs about LoadConfig / UnmarshalYAML for every document and every   *)
(* value of the constants.  Run config_load checks the same invariants on *)
(* a small set of documents.                                               *)
(*                                                                         *)
(* NoConfigWithFailedSetup is not inductive: that a returned Config has    *)
(* set up every needed helper depends on what the steps before Roles did. *)
(* SetupInv says it: while the run is pending, cfg.setUp holds exactly the *)
(* helpers of the steps already taken (SetUpBefore(step)).  Each action    *)
(* either moves to the next step, adding its helper, or ends the run,     *)
(* with the reason for its error in the document.  A document with no     *)
(* node skips UnmarshalYAML: it needs no helper and its run ends at once, *)
(* so SetupInv also records that every step of UnmarshalYAML is reached  *)
(* with a non-empty document only.                                         *)
(***************************************************************************)
EXTENDS ConfigLoader, TLAPS

\* Initially nothing is set up and the run is pending.
LEMMA InitSetup == Init => SetupInv
<1> SUFFICES ASSUME Init PROVE SetupInv
  OBVIOUS
<1>1. "setUp" \in DOMAIN cfg /\ cfg.setUp = {}
  BY DEF Init, ZeroConfig
<1>2. step = "ReadFile" /\ outcome = "pending"
  BY DEF Init
<1>3. SetUpBefore("ReadFile") = {}
  BY DEF SetUpBefore
<1> QED BY <1>1, <1>2, <1>3 DEF SetupInv, NoConfigWithFailedSetup

\* A step that ends the run with an error whose reason the document holds
\* keeps SetupInv.
LEMMA FailStep ==
    ASSUME SetupInv, NEW s, Fail(s),
           \/ Needed(doc) \cap doc.invalid /= {}
           \/ ~doc.readable \/ ~doc.strict
           \/ doc.tls.present /\ doc.tls.cert = ""
    PROVE  SetupInv'
BY DEF Fail, SetupInv, NoConfigWithFailedSetup, Needed

\* A step that leaves setUp alone and moves to a step with the same helpers
\* behind it keeps SetupInv.
LEMMA PassStep ==
    ASSUME SetupInv, NEW s, NEW next,
           step = s, s /= "Done", next /= "Done",
           step' = next, doc' = doc, outcome' = outcome,
           "setUp" \in DOMAIN cfg', cfg'.setUp = cfg.setUp,
           SetUpBefore(next) = SetUpBefore(s),
           next \in Steps \ {"ReadFile", "Unmarshal", "Done"} => ~doc.empty
    PROVE  SetupInv'
<1>1. SetUpBefore(next)' = SetUpBefore(next)
  BY DEF SetUpBefore, Needed
<1> QED BY <1>1 DEF SetupInv, NoConfigWithFailedSetup

\* One call of a setup helper: it either adds its helper and goes on, or
\* fails with the helper invalid.
LEMMA SetupStepInv ==
    ASSUME SetupInv, NEW s, NEW helper, NEW next,
           s \in Steps \ {"ReadFile", "Unmarshal", "Done"},
           next \in Steps \ {"ReadFile", "Unmarshal", "Done"},
           ~doc.empty => helper \in Needed(doc),
           SetUpBefore(next) = SetUpBefore(s) \cup {helper},
           SetupStep(s, helper, next)
    PROVE  SetupInv'
<1>0. ~doc.empty /\ helper \in Needed(doc)
  <2>1. step = s
    BY DEF SetupStep, Fail
  <2>. QED BY <2>1 DEF SetupInv
<1>1. CASE /\ step = s /\ helper \notin doc.invalid
           /\ step' = next
           /\ cfg' = [cfg EXCEPT !.setUp = @ \cup {helper}]
           /\ UNCHANGED <<doc, outcome>>
  <2>1. "setUp" \in DOMAIN cfg' /\ cfg'.setUp = cfg.setUp \cup {helper}
    BY <1>1 DEF SetupInv
  <2>2. SetUpBefore(next)' = SetUpBefore(next)
    BY <1>1 DEF SetUpBefore, Needed
  <2> QED BY <1>0, <1>1, <2>1, <2>2 DEF SetupInv, NoConfigWithFailedSetup
<1>2. CASE helper \in doc.invalid /\ Fail(s)
  BY <1>0, <1>2, FailStep
<1> QED BY <1>1, <1>2 DEF SetupStep

\* The helpers behind each step, as the code orders the calls.
LEMMA Behind ==
    /\ SetUpBefore("AllowRanges") = SetUpBefore("DenyRanges") \cup {"deny"}
    /\ SetUpBefore("Resolvers") = SetUpBefore("AllowRanges") \cup {"allow"}
    /\ SetUpBefore("Timeouts") = SetUpBefore("Resolvers") \cup {"resolvers"}
    /\ SetUpBefore("Statsd") = SetUpBefore("Timeouts")
    /\ SetUpBefore("EgressAcl") = SetUpBefore("Statsd") \cup {"statsd"}
    /\ doc.aclFile => SetUpBefore("SocketDir") = SetUpBefore("EgressAcl") \cup {"acl"}
    /\ ~doc.aclFile => SetUpBefore("SocketDir") = SetUpBefore("EgressAcl")
    /\ SetUpBefore("FileMode") = SetUpBefore("SocketDir")
    /\ SetUpBefore("Tls") = SetUpBefore("FileMode")
    /\ SetUpBefore("Unmarshal") = SetUpBefore("ReadFile")
    /\ SetUpBefore("Port") = SetUpBefore("Unmarshal")
    /\ SetUpBefore("DenyRanges") = SetUpBefore("Port")
    /\ ~doc.empty /\ doc.tls.present =>
           SetUpBefore("Roles") = SetUpBefore("Tls") \cup {"tls"}
    /\ ~doc.empty /\ ~doc.tls.present => SetUpBefore("Roles") = SetUpBefore("Tls")
    /\ ~doc.empty => SetUpBefore("Roles") = Needed(doc)
BY DEF SetUpBefore, Needed

\* Every step of the loader keeps SetupInv.
LEMMA SetupStepAll == SetupInv /\ [Next]_vars => SetupInv'
<1> SUFFICES ASSUME SetupInv, [Next]_vars PROVE SetupInv'
  OBVIOUS
<1>0. "setUp" \in DOMAIN cfg
  BY DEF SetupInv
<1>e. step \in Steps \ {"ReadFile", "Unmarshal", "Done"} => ~doc.empty
  BY DEF SetupInv
<1>1. CASE ReadFile
  <2>1. CASE doc.readable /\ step = "ReadFile" /\ step' = "Unmarshal"
             /\ UNCHANGED <<doc, cfg, outcome>>
    BY <2>1, <1>0, Behind, PassStep
  <2>2. CASE ~doc.readable /\ Fail("ReadFile")
    BY <2>2, FailStep
  <2> QED BY <1>1, <2>1, <2>2 DEF ReadFile
<1>15. CASE UnmarshalEmpty
  <2>1. step = "Unmarshal" /\ doc.empty /\ step' = "Done" /\ outcome' = "config"
        /\ UNCHANGED <<doc, cfg>>
    BY <1>15 DEF UnmarshalEmpty
  <2>2. cfg.setUp = {} /\ Needed(doc) = {}
    BY <2>1 DEF SetupInv, SetUpBefore, Needed
  <2> QED BY <1>0, <2>1, <2>2 DEF SetupInv, NoConfigWithFailedSetup, Steps
<1>2. CASE Unmarshal
  <2>1. CASE ~doc.empty /\ doc.strict /\ step = "Unmarshal" /\ step' = "Port"
             /\ cfg' = NewConfig /\ UNCHANGED <<doc, outcome>>
    <3>1. "setUp" \in DOMAIN cfg' /\ cfg'.setUp = {}
      BY <2>1 DEF NewConfig
    <3>2. cfg.setUp = {}
      BY <2>1 DEF SetupInv, SetUpBefore
    <3> QED BY <2>1, <3>1, <3>2, Behind, PassStep
  <2>2. CASE ~doc.empty /\ ~doc.strict /\ Fail("Unmarshal")
    BY <2>2, FailStep
  <2> QED BY <1>2, <2>1, <2>2 DEF Unmarshal
<1>3. CASE Port
  <2>1. step = "Port" BY <1>3 DEF Port
  <2>2. ~doc.empty BY <2>1, <1>e DEF Steps
  <2> QED BY <1>0, <1>3, <2>2, Behind, PassStep DEF Port
<1>4. CASE DenyRanges
  BY <1>4, Behind, SetupStepInv DEF DenyRanges, Needed, Steps
<1>5. CASE AllowRanges
  BY <1>5, Behind, SetupStepInv DEF AllowRanges, Needed, Steps
<1>6. CASE Resolvers
  BY <1>6, Behind, SetupStepInv DEF Resolvers, Needed, Steps
<1>7. CASE Timeouts
  <2>1. step = "Timeouts" BY <1>7 DEF Timeouts
  <2>2. ~doc.empty BY <2>1, <1>e DEF Steps
  <2> QED BY <1>0, <1>7, <2>2, Behind, PassStep DEF Timeouts
<1>8. CASE Statsd
  BY <1>8, Behind, SetupStepInv DEF Statsd, Needed, Steps
<1>9. CASE EgressAcl
  <2>1. CASE ~doc.aclFile /\ step = "EgressAcl" /\ step' = "SocketDir"
             /\ UNCHANGED <<doc, cfg, outcome>>
    <3>1. ~doc.empty BY <2>1, <1>e DEF Steps
    <3> QED BY <1>0, <2>1, <3>1, Behind, PassStep
  <2>2. CASE doc.aclFile /\ SetupStep("EgressAcl", "acl", "SocketDir")
    BY <2>2, Behind, SetupStepInv DEF Needed, Steps
  <2> QED BY <1>9, <2>1, <2>2 DEF EgressAcl
<1>10. CASE SocketDir
  <2>1. step = "SocketDir" BY <1>10 DEF SocketDir
  <2>2. ~doc.empty BY <2>1, <1>e DEF Steps
  <2> QED BY <1>0, <1>10, <2>2, Behind, PassStep DEF SocketDir
<1>11. CASE FileMode
  <2>1. CASE step' = "Tls"
    <3>1. step = "FileMode" BY <1>11 DEF FileMode
    <3>2. ~doc.empty BY <3>1, <1>e DEF Steps
    <3> QED BY <1>0, <1>11, <2>1, <3>2, Behind, PassStep DEF FileMode
  <2>2. CASE step' = "Done" /\ outcome' = "fatal" /\ UNCHANGED <<doc, cfg>>
    BY <1>11, <2>2 DEF FileMode, SetupInv, NoConfigWithFailedSetup
  <2> QED BY <1>11, <2>1, <2>2 DEF FileMode
<1>12. CASE Tls
  <2>0. step = "Tls" BY <1>12 DEF Tls, Fail
  <2>e. ~doc.empty BY <2>0, <1>e DEF Steps
  <2>1. CASE step = "Tls" /\ ~doc.tls.present /\ step' = "Roles"
             /\ UNCHANGED <<doc, cfg, outcome>>
    BY <1>0, <2>1, <2>e, Behind, PassStep
  <2>2. CASE doc.tls.present /\ doc.tls.cert = "" /\ Fail("Tls")
    BY <2>2, FailStep
  <2>3. CASE /\ step = "Tls" /\ doc.tls.present /\ doc.tls.cert /= ""
             /\ "tls" \notin doc.invalid
             /\ step' = "Roles"
             /\ cfg' = [cfg EXCEPT !.tlsKey = IF doc.tls.key = "" THEN doc.tls.cert
                                               ELSE doc.tls.key,
                                   !.setUp = @ \cup {"tls"}]
             /\ UNCHANGED <<doc, outcome>>
    <3>1. "setUp" \in DOMAIN cfg' /\ cfg'.setUp = cfg.setUp \cup {"tls"}
      BY <1>0, <2>3
    <3>2. SetUpBefore("Roles")' = SetUpBefore("Roles")
      BY <2>3 DEF SetUpBefore, Needed
    <3> QED BY <2>3, <2>e, <3>1, <3>2, Behind DEF SetupInv, NoConfigWithFailedSetup
  <2>4. CASE doc.tls.present /\ doc.tls.cert /= "" /\ "tls" \in doc.invalid
             /\ Fail("Tls")
    BY <2>4, <2>e, FailStep DEF Needed
  <2> QED BY <1>12, <2>1, <2>2, <2>3, <2>4 DEF Tls
<1>13. CASE Roles
  <2>0. step = "Roles" BY <1>13 DEF Roles
  <2>e. ~doc.empty BY <2>0, <1>e DEF Steps
  <2>1. cfg'.setUp = cfg.setUp /\ "setUp" \in DOMAIN cfg'
    BY <1>0, <1>13 DEF Roles
  <2>2. cfg.setUp = Needed(doc)
    BY <1>13, <2>e, Behind DEF Roles, SetupInv
  <2> QED BY <1>13, <2>1, <2>2 DEF Roles, SetupInv, NoConfigWithFailedSetup, Needed
<1>14. CASE UNCHANGED vars
  BY <1>14 DEF vars, SetupInv, NoConfigWithFailedSetup, SetUpBefore, Needed
<1> QED BY <1>1, <1>2, <1>3, <1>4, <1>5, <1>6, <1>7, <1>8, <1>9, <1>10,
           <1>11, <1>12, <1>13, <1>14, <1>15 DEF Next

(* SetupInv holds in every state of every run of LoadConfig.              *)
LEMMA SetupInvariant == Spec => []SetupInv
BY InitSetup, SetupStepAll, PTL DEF Spec

(* LoadConfig never hands out a Config unless every setup helper that     *)
(* UnmarshalYAML called for the document ran and succeeded (none for a    *)
(* document with no node), and it fails only for a reason in the         *)
(* document.                                                               *)
THEOREM NoConfigWithFailedSetupHolds == Spec => []NoConfigWithFailedSetup
<1>1. SetupInv => NoConfigWithFailedSetup
  BY DEF SetupInv
<1> QED BY SetupInvariant, <1>1, PTL
-----------------------------------------------------------------------------
(* Decoding.  DecodeInv ties each key of the Config under construction to  *)
(* the step the run has reached: decoded keys hold what the document says  *)
(* (or the default for an absent pointer key), the others the default.    *)

(* The keys KeysOverrideDefaults is about are the same in two configs.    *)
SameKeys(c, d) ==
    /\ DOMAIN d = DOMAIN c
    /\ d.port = c.port /\ d.exitTimeout = c.exitTimeout
    /\ d.statsSocketDir = c.statsSocketDir /\ d.fileMode = c.fileMode
    /\ d.tlsKey = c.tlsKey

(* Initially nothing is decoded and the Config is Config{}.                *)
LEMMA DecodeInit == Init => DecodeInv
<1> SUFFICES ASSUME Init PROVE DecodeInv
  OBVIOUS
<1>1. cfg = ZeroConfig /\ step = "ReadFile" /\ outcome = "pending"
  BY DEF Init
<1>2. DOMAIN ZeroConfig = DOMAIN NewConfig
  BY DEF ZeroConfig, NewConfig
<1>. QED
  BY <1>1, <1>2 DEF DecodeInv, Steps

(* A step that ends the run with an error or a Fatal keeps DecodeInv.     *)
LEMMA DecodeEnd ==
    ASSUME DecodeInv, step /= "Done", step' = "Done",
           outcome' \in {"error", "fatal"}, cfg' = cfg
    PROVE  DecodeInv'
BY DEF DecodeInv

(* A step between two steps by which the same keys are decoded, which     *)
(* leaves those keys alone, keeps DecodeInv.                               *)
LEMMA KeepKeys ==
    ASSUME DecodeInv, NEW s, NEW next,
           step = s, step' = next, doc' = doc, outcome' = outcome,
           s \in PortDecoded \ {"Done"}, next \in PortDecoded \ {"Done"},
           s \in TimeoutsDecoded <=> next \in TimeoutsDecoded,
           s \in SocketDirDecoded <=> next \in SocketDirDecoded,
           s \in TlsDecoded <=> next \in TlsDecoded,
           SameKeys(cfg, cfg')
    PROVE  DecodeInv'
BY DEF DecodeInv, SameKeys, PortDecoded, Steps

(* One call of a setup helper changes setUp only, or ends the run.        *)
LEMMA DecodeSetupStep ==
    ASSUME DecodeInv, NEW s, NEW helper, NEW next,
           SetupStep(s, helper, next),
           s \in PortDecoded \ {"Done"}, next \in PortDecoded \ {"Done"},
           s \in TimeoutsDecoded <=> next \in TimeoutsDecoded,
           s \in SocketDirDecoded <=> next \in SocketDirDecoded,
           s \in TlsDecoded <=> next \in TlsDecoded
    PROVE  DecodeInv'
<1>1. CASE /\ step = s /\ helper \notin doc.invalid
           /\ step' = next
           /\ cfg' = [cfg EXCEPT !.setUp = @ \cup {helper}]
           /\ UNCHANGED <<doc, outcome>>
  <2>1. SameKeys(cfg, cfg')
    BY <1>1 DEF SameKeys
  <2>. QED
    BY <1>1, <2>1, KeepKeys
<1>2. CASE helper \in doc.invalid /\ Fail(s)
  BY <1>2, DecodeEnd DEF Fail
<1>. QED
  BY <1>1, <1>2 DEF SetupStep

(* Every step of the loader keeps DecodeInv.                               *)
LEMMA DecodeStep == DecodeInv /\ [Next]_vars => DecodeInv'
<1> SUFFICES ASSUME DecodeInv, [Next]_vars PROVE DecodeInv'
  OBVIOUS
<1>0. /\ NewConfig.port = DefaultPort
      /\ NewConfig.exitTimeout = DefaultExitTimeout
      /\ NewConfig.statsSocketDir = DefaultStatsSocketDir
      /\ NewConfig.fileMode = [perm |-> DefaultFileMode, upper |-> 0]
      /\ DOMAIN NewConfig = {"port", "connectTimeout", "exitTimeout",
                             "statsSocketDir", "fileMode", "tlsKey",
                             "allowMissingRole", "setUp"}
  BY DEF NewConfig
<1>1. CASE ReadFile
  <2>1. CASE doc.readable /\ step = "ReadFile" /\ step' = "Unmarshal"
             /\ UNCHANGED <<doc, cfg, outcome>>
    BY <2>1 DEF DecodeInv, TimeoutsDecoded, SocketDirDecoded, TlsDecoded,
                PortDecoded
  <2>2. CASE ~doc.readable /\ Fail("ReadFile")
    BY <2>2, DecodeEnd DEF Fail
  <2>. QED
    BY <1>1, <2>1, <2>2 DEF ReadFile
<1>15. CASE UnmarshalEmpty
  <2>1. doc.empty /\ step' = "Done" /\ outcome' = "config"
        /\ UNCHANGED <<doc, cfg>>
    BY <1>15 DEF UnmarshalEmpty
  <2>. QED
    BY <2>1 DEF DecodeInv
<1>2. CASE Unmarshal
  <2>1. CASE ~doc.empty /\ doc.strict /\ step = "Unmarshal" /\ step' = "Port"
             /\ cfg' = NewConfig /\ UNCHANGED <<doc, outcome>>
    BY <2>1, <1>0 DEF DecodeInv, TimeoutsDecoded, SocketDirDecoded, TlsDecoded,
                      PortDecoded
  <2>2. CASE ~doc.empty /\ ~doc.strict /\ Fail("Unmarshal")
    BY <2>2, DecodeEnd DEF Fail
  <2>. QED
    BY <1>2, <2>1, <2>2 DEF Unmarshal
<1>3. CASE Port
  <2>1. step = "Port" /\ step' = "DenyRanges" /\ outcome = "pending"
        /\ UNCHANGED <<doc, outcome>>
    BY <1>3 DEF Port, DecodeInv
  <2>2. ~doc.empty /\ cfg = NewConfig
    BY <2>1 DEF DecodeInv, Steps
  <2>3. /\ DOMAIN cfg' = DOMAIN NewConfig
        /\ cfg'.port = IF doc.port = Unset THEN DefaultPort ELSE doc.port
        /\ cfg'.exitTimeout = DefaultExitTimeout
        /\ cfg'.statsSocketDir = DefaultStatsSocketDir
        /\ cfg'.fileMode = [perm |-> DefaultFileMode, upper |-> 0]
    BY <1>3, <1>0, <2>2 DEF Port
  <2>. QED
    BY <2>1, <2>3 DEF DecodeInv, TimeoutsDecoded, SocketDirDecoded, TlsDecoded,
                      PortDecoded, Steps
<1>4. CASE DenyRanges
  BY <1>4, DecodeSetupStep DEF DenyRanges, TimeoutsDecoded, SocketDirDecoded,
                               TlsDecoded, PortDecoded, Steps
<1>5. CASE AllowRanges
  BY <1>5, DecodeSetupStep DEF AllowRanges, TimeoutsDecoded, SocketDirDecoded,
                               TlsDecoded, PortDecoded, Steps
<1>6. CASE Resolvers
  BY <1>6, DecodeSetupStep DEF Resolvers, TimeoutsDecoded, SocketDirDecoded,
                               TlsDecoded, PortDecoded, Steps
<1>7. CASE Timeouts
  <2>1. step = "Timeouts" /\ step' = "Statsd" /\ outcome = "pending"
        /\ UNCHANGED <<doc, outcome>>
    BY <1>7 DEF Timeouts, DecodeInv
  <2>2. cfg.exitTimeout = DefaultExitTimeout /\ "exitTimeout" \in DOMAIN cfg
    BY <2>1, <1>0 DEF DecodeInv, TimeoutsDecoded, Steps
  <2>3. /\ DOMAIN cfg' = DOMAIN cfg
        /\ cfg'.port = cfg.port /\ cfg'.statsSocketDir = cfg.statsSocketDir
        /\ cfg'.fileMode = cfg.fileMode /\ cfg'.tlsKey = cfg.tlsKey
        /\ cfg'.exitTimeout = IF doc.exitTimeout = Unset THEN DefaultExitTimeout
                              ELSE doc.exitTimeout
    BY <1>7, <2>2 DEF Timeouts
  <2>. QED
    BY <2>1, <2>3 DEF DecodeInv, TimeoutsDecoded, SocketDirDecoded, TlsDecoded,
                      PortDecoded, Steps
<1>8. CASE Statsd
  BY <1>8, DecodeSetupStep DEF Statsd, TimeoutsDecoded, SocketDirDecoded,
                               TlsDecoded, PortDecoded, Steps
<1>9. CASE EgressAcl
  <2>1. CASE ~doc.aclFile /\ step = "EgressAcl" /\ step' = "SocketDir"
             /\ UNCHANGED <<doc, cfg, outcome>>
    BY <2>1, KeepKeys DEF SameKeys, TimeoutsDecoded, SocketDirDecoded,
                          TlsDecoded, PortDecoded, Steps
  <2>2. CASE doc.aclFile /\ SetupStep("EgressAcl", "acl", "SocketDir")
    BY <2>2, DecodeSetupStep DEF TimeoutsDecoded, SocketDirDecoded, TlsDecoded,
                                 PortDecoded, Steps
  <2>. QED
    BY <1>9, <2>1, <2>2 DEF EgressAcl
<1>10. CASE SocketDir
  <2>1. step = "SocketDir" /\ step' = "FileMode" /\ outcome = "pending"
        /\ UNCHANGED <<doc, outcome>>
    BY <1>10 DEF SocketDir, DecodeInv
  <2>2. cfg.statsSocketDir = DefaultStatsSocketDir
        /\ "statsSocketDir" \in DOMAIN cfg
    BY <2>1, <1>0 DEF DecodeInv, SocketDirDecoded, Steps
  <2>3. /\ DOMAIN cfg' = DOMAIN cfg
        /\ cfg'.port = cfg.port /\ cfg'.exitTimeout = cfg.exitTimeout
        /\ cfg'.fileMode = cfg.fileMode /\ cfg'.tlsKey = cfg.tlsKey
        /\ cfg'.statsSocketDir = IF doc.statsSocketDir = "" THEN DefaultStatsSocketDir
                                 ELSE doc.statsSocketDir
    <3>1. CASE doc.statsSocketDir = ""
      BY <1>10, <2>2, <3>1 DEF SocketDir
    <3>2. CASE doc.statsSocketDir /= ""
      <4>1. cfg' = [cfg EXCEPT !.statsSocketDir = doc.statsSocketDir]
        BY <1>10, <3>2 DEF SocketDir
      <4>2. DOMAIN cfg' = DOMAIN cfg
        BY <4>1
      <4>3. /\ cfg'.port = cfg.port /\ cfg'.exitTimeout = cfg.exitTimeout
            /\ cfg'.fileMode = cfg.fileMode /\ cfg'.tlsKey = cfg.tlsKey
        BY <4>1
      <4>4. cfg'.statsSocketDir = doc.statsSocketDir
        BY <2>2, <4>1
      <4>. QED
        BY <3>2, <4>2, <4>3, <4>4
    <3>. QED
      BY <3>1, <3>2
  <2>. QED
    BY <2>1, <2>3 DEF DecodeInv, TimeoutsDecoded, SocketDirDecoded, TlsDecoded,
                      PortDecoded, Steps
<1>11. CASE FileMode
  <2>1. CASE step' = "Tls"
    <3>1. step = "FileMode" /\ UNCHANGED <<doc, outcome>>
      BY <1>11, <2>1 DEF FileMode
    <3>2. /\ DOMAIN cfg' = DOMAIN cfg
          /\ cfg'.port = cfg.port /\ cfg'.exitTimeout = cfg.exitTimeout
          /\ cfg'.statsSocketDir = cfg.statsSocketDir /\ cfg'.tlsKey = cfg.tlsKey
          /\ doc.fileMode = <<>> => cfg' = cfg
      <4>1. CASE doc.fileMode = <<>>
        BY <1>11, <2>1, <4>1 DEF FileMode
      <4>2. CASE doc.fileMode /= <<>>
        <5>1. cfg' = [cfg EXCEPT !.fileMode = FileModeOf(ParseInt8x9(doc.fileMode).val)]
          BY <1>11, <2>1, <4>2 DEF FileMode
        <5>. QED
          BY <4>2, <5>1
      <4>. QED
        BY <4>1, <4>2
    <3>. QED
      BY <2>1, <3>1, <3>2 DEF DecodeInv, TimeoutsDecoded, SocketDirDecoded,
                              TlsDecoded, PortDecoded, Steps
  <2>2. CASE step' = "Done" /\ outcome' = "fatal" /\ UNCHANGED <<doc, cfg>>
    BY <1>11, <2>2, DecodeEnd DEF FileMode
  <2>. QED
    BY <1>11, <2>1, <2>2 DEF FileMode
<1>12. CASE Tls
  <2>1. CASE step = "Tls" /\ ~doc.tls.present /\ step' = "Roles"
             /\ UNCHANGED <<doc, cfg, outcome>>
    BY <2>1 DEF DecodeInv, TimeoutsDecoded, SocketDirDecoded, TlsDecoded,
                PortDecoded, Steps
  <2>2. CASE doc.tls.present /\ doc.tls.cert = "" /\ Fail("Tls")
    BY <2>2, DecodeEnd DEF Fail
  <2>3. CASE /\ step = "Tls" /\ doc.tls.present /\ doc.tls.cert /= ""
             /\ "tls" \notin doc.invalid
             /\ step' = "Roles"
             /\ cfg' = [cfg EXCEPT !.tlsKey = IF doc.tls.key = "" THEN doc.tls.cert
                                               ELSE doc.tls.key,
                                   !.setUp = @ \cup {"tls"}]
             /\ UNCHANGED <<doc, outcome>>
    <3>1. "tlsKey" \in DOMAIN cfg
      BY <1>0 DEF DecodeInv
    <3>2. /\ DOMAIN cfg' = DOMAIN cfg
          /\ cfg'.port = cfg.port /\ cfg'.exitTimeout = cfg.exitTimeout
          /\ cfg'.statsSocketDir = cfg.statsSocketDir
          /\ cfg'.fileMode = cfg.fileMode
          /\ cfg'.tlsKey \in {doc.tls.key, doc.tls.cert} \ {""}
      <4> DEFINE key == IF doc.tls.key = "" THEN doc.tls.cert ELSE doc.tls.key
                 c1 == [cfg EXCEPT !.tlsKey = key]
      <4>1. cfg' = [c1 EXCEPT !.setUp = c1.setUp \cup {"tls"}]
        BY <2>3
      <4>2. DOMAIN c1 = DOMAIN cfg /\ c1.tlsKey = key
            /\ c1.port = cfg.port /\ c1.exitTimeout = cfg.exitTimeout
            /\ c1.statsSocketDir = cfg.statsSocketDir /\ c1.fileMode = cfg.fileMode
        BY <3>1
      <4>3. DOMAIN cfg' = DOMAIN c1 /\ cfg'.tlsKey = c1.tlsKey
            /\ cfg'.port = c1.port /\ cfg'.exitTimeout = c1.exitTimeout
            /\ cfg'.statsSocketDir = c1.statsSocketDir /\ cfg'.fileMode = c1.fileMode
        BY <4>1
      <4>4. key \in {doc.tls.key, doc.tls.cert} \ {""}
        BY <2>3
      <4>. QED
        BY <4>2, <4>3, <4>4
    <3>. QED
      BY <2>3, <3>2 DEF DecodeInv, TimeoutsDecoded, SocketDirDecoded,
                        TlsDecoded, PortDecoded, Steps
  <2>4. CASE doc.tls.present /\ doc.tls.cert /= "" /\ "tls" \in doc.invalid
             /\ Fail("Tls")
    BY <2>4, DecodeEnd DEF Fail
  <2>. QED
    BY <1>12, <2>1, <2>2, <2>3, <2>4 DEF Tls
<1>13. CASE Roles
  <2>1. step = "Roles" /\ step' = "Done" /\ outcome' = "config" /\ doc' = doc
        /\ outcome = "pending"
    BY <1>13 DEF Roles, DecodeInv
  <2>2. SameKeys(cfg, cfg')
    BY <1>13 DEF Roles, SameKeys
  <2>. QED
    BY <2>1, <2>2 DEF DecodeInv, SameKeys, TimeoutsDecoded, SocketDirDecoded,
                      TlsDecoded, PortDecoded, Steps
<1>14. CASE UNCHANGED vars
  BY <1>14 DEF vars, DecodeInv, TimeoutsDecoded, SocketDirDecoded, TlsDecoded,
               PortDecoded
<1> QED BY <1>1, <1>2, <1>3, <1>4, <1>5, <1>6, <1>7, <1>8, <1>9, <1>10,
           <1>11, <1>12, <1>13, <1>14, <1>15 DEF Next

(* DecodeInv holds in every state of every run of LoadConfig.             *)
LEMMA DecodeInvariant == Spec => []DecodeInv
BY DecodeInit, DecodeStep, PTL DEF Spec

(* For every document, a returned Config keeps NewConfig's default for    *)
(* every absent pointer or non-empty-checked key and the document's value *)
(* otherwise, explicit zeros included, and its TLS key file is the        *)
(* key_file or, when that is left out, the cert_file.                      *)
THEOREM KeysOverrideDefaultsHolds == Spec => []KeysOverrideDefaults
<1>1. DecodeInv => KeysOverrideDefaults
  BY DEF DecodeInv, KeysOverrideDefaults, TimeoutsDecoded, SocketDirDecoded,
         TlsDecoded, PortDecoded, Steps
<1> QED BY DecodeInvariant, <1>1, PTL

=============================================================================
