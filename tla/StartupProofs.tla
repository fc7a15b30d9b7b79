--------------------------- MODULE StartupProofs ----------------------------
(***************************************************************************)
(* Machine-checked proofs about Startup, for any set of plans and of files.*)
(***************************************************************************)
EXTENDS Startup, TLAPS

-----------------------------------------------------------------------------
\* Validate and the check of newLogger amount to what the README asks for: two
\* loops over services and plans compare the keys with the plan ids.
LEMMA ValidateIsDocumented ==
  ASSUME NEW c \in Configs, Validate(c), c.logLevel = "known"
  PROVE  Documented(c)
<1>1. c.planConfigs = Advertised(c)
  BY DEF Validate, Advertised, hasPlan, hasPlanConfig
<1> QED BY <1>1 DEF Validate, ValidateTLS, Documented

\* What LoadConfig returns is as documented and has a host.
LEMMA LoadConfigDocumented ==
  ASSUME NEW f \in Files \cup {Unreadable}, NEW c \in LoadConfig(f),
         c.logLevel = "known"
  PROVE  c \in Configs /\ Documented(c) /\ c.host # "unset"
<1>1. f \in Configs /\ Validate(f)
  BY FilesAssumption DEF LoadConfig
<1>2. c = [f EXCEPT !.host = IF f.host = "unset" THEN "0.0.0.0" ELSE f.host]
  BY DEF LoadConfig
<1>3. /\ c \in Configs /\ c.host # "unset"
      /\ c.empty = f.empty /\ c.services = f.services
      /\ c.planConfigs = f.planConfigs /\ c.tls = f.tls
  BY <1>1, <1>2 DEF Configs
<1>4. Validate(c)
  BY <1>1, <1>3 DEF Validate, hasPlan, hasPlanConfig
<1> QED BY <1>3, <1>4, ValidateIsDocumented

\* The end of the process, for whatever reason.
LEMMA ExitKeeps ==
  ASSUME Inv, NEW how \in {"fatal", "done", "killed"}, Exit(how)
  PROVE  Inv'
<1>1. TypeOK'
  BY DEF Inv, TypeOK, Exit, Pcs
<1> QED BY <1>1 DEF Inv, Exit, ServesDocumented

LEMMA InvInit == Init => Inv
<1> SUFFICES ASSUME Init PROVE Inv
  OBVIOUS
<1>1. TypeOK
  BY DEF Init, TypeOK, Pcs
<1> QED BY <1>1 DEF Init, Inv, ServesDocumented

LEMMA InvStep == Inv /\ [Next]_vars => Inv'
<1> SUFFICES ASSUME Inv, [Next]_vars PROVE Inv'
  OBVIOUS
<1>u. Unreadable \notin Configs
  BY FilesAssumption
<1>1. CASE Start
  <2>1. TypeOK'
    BY <1>1 DEF Start, Inv, TypeOK, Pcs, platformVars
  <2> QED BY <1>1, <2>1
          DEF Start, Inv, TypeOK, platformVars, ServesDocumented
<1>2. CASE Load
  <2>1. CASE Exit("fatal")
    BY <2>1, ExitKeeps
  <2>2. ASSUME NEW c \in LoadConfig(file), c.logLevel = "known",
               pc' = "account", config' = c,
               UNCHANGED <<file, bound, listener, exit, taken, platformVars>>
        PROVE  Inv'
    <3>1. c \in Configs /\ Documented(c) /\ c.host # "unset"
      BY <2>2, LoadConfigDocumented DEF Inv, TypeOK
    <3>2. TypeOK'
      BY <1>2, <2>2, <3>1 DEF Load, Inv, TypeOK, Pcs, platformVars
    <3> QED BY <1>2, <2>2, <3>1, <3>2
            DEF Load, Inv, platformVars, ServesDocumented
  <2> QED BY <1>2, <2>1, <2>2 DEF Load
<1>3. CASE NewBroker
  <2>1. CASE Exit("fatal")
    BY <2>1, ExitKeeps
  <2>2. CASE /\ pc' = "listen"
             /\ UNCHANGED <<file, config, bound, listener, exit, taken,
                            platformVars>>
    <3>1. TypeOK'
      BY <1>3, <2>2 DEF NewBroker, Inv, TypeOK, Pcs, platformVars
    <3> QED BY <1>3, <2>2, <3>1
            DEF NewBroker, Inv, platformVars, ServesDocumented
  <2> QED BY <1>3, <2>1, <2>2 DEF NewBroker
<1>4. CASE Listen
  <2>1. CASE Exit("fatal")
    BY <2>1, ExitKeeps
  <2>2. CASE /\ ~taken /\ bound' = TRUE /\ pc' = "tls"
             /\ UNCHANGED <<file, config, listener, exit, taken,
                            platformVars>>
    <3>1. TypeOK'
      BY <1>4, <2>2 DEF Listen, Inv, TypeOK, Pcs, platformVars
    <3> QED BY <1>4, <2>2, <3>1
            DEF Listen, Inv, platformVars, ServesDocumented
  <2> QED BY <1>4, <2>1, <2>2 DEF Listen
<1>5. CASE CreateListener
  <2>1. Documented(config) /\ config.host # "unset" /\ config \in Configs
    BY <1>5, <1>u DEF CreateListener, Inv, TypeOK
  <2>2. /\ pc' = "serving"
        /\ listener' = IF TLSEnabled(config) THEN "tls" ELSE "plain"
        /\ UNCHANGED <<file, config, bound, exit, taken, platformVars>>
    BY <1>5, <2>1 DEF CreateListener, Documented
  <2>3. TypeOK'
    BY <1>5, <2>2 DEF CreateListener, Inv, TypeOK, Pcs, platformVars
  <2>4. ServesDocumented'
    BY <2>1, <2>2 DEF ServesDocumented, TLSEnabled
  <2> QED BY <1>5, <2>1, <2>2, <2>3, <2>4
          DEF CreateListener, Inv, platformVars
<1>6. CASE ServeReturns \/ Crash
  BY <1>6, ExitKeeps DEF ServeReturns, Crash
<1>7. CASE Services
  <2>1. config \in Configs
    BY <1>7 DEF Services, Inv, TypeOK
  <2>2. Advertised(config) \subseteq Plans
    BY <2>1 DEF Advertised, Configs
  <2>3. TypeOK'
    BY <1>7, <2>2 DEF Services, Inv, TypeOK, processVars
  <2>4. ServesDocumented'
    BY <1>7 DEF Services, Inv, ServesDocumented, processVars
  <2> QED BY <1>7, <2>3, <2>4
          DEF Services, Inv, processVars
<1>8. ASSUME NEW id \in catalog, Provision(id) PROVE Inv'
  <2>1. TypeOK'
    BY <1>8 DEF Provision, GetPlanConfig, Inv, TypeOK, processVars
  <2>2. ServesDocumented'
    BY <1>8 DEF Provision, Inv, ServesDocumented, processVars
  <2> QED BY <1>8, <2>1, <2>2
          DEF Provision, Inv, processVars
<1>9. CASE Edit \/ PortTaken \/ UNCHANGED vars
  <2>1. UNCHANGED <<processVars, platformVars>>
    BY <1>9 DEF Edit, PortTaken, vars, processVars, platformVars
  <2>2. file' \in Files \cup {Unreadable}
    BY <1>9 DEF Edit, PortTaken, vars, Inv, TypeOK
  <2>3. taken' \in BOOLEAN
    BY <1>9 DEF Edit, PortTaken, vars, Inv, TypeOK
  <2>4. bound => ~taken'
    BY <1>9 DEF Edit, PortTaken, vars, Inv, TypeOK
  <2>5. TypeOK'
    BY <2>1, <2>2, <2>3, <2>4 DEF processVars, platformVars, Inv, TypeOK
  <2>6. ServesDocumented'
    BY <2>1 DEF Inv, ServesDocumented, processVars
  <2> QED BY <2>1, <2>5, <2>6
          DEF Inv, processVars, platformVars
<1> QED
  BY <1>1, <1>2, <1>3, <1>4, <1>5, <1>6, <1>7, <1>8, <1>9 DEF Next, Step

(* main of main.go never holds a configuration that LoadConfig should have *)
(* refused.                                                                *)
THEOREM Safety == Spec => []Inv
  BY InvInit, InvStep, PTL DEF Spec

(* The variables keep their types.                                         *)
THEOREM TypeCorrect == Spec => []TypeOK
<1>1. Inv => TypeOK
  BY DEF Inv
<1> QED BY <1>1, Safety, PTL

(* A serving broker has a configuration as the README describes it: the    *)
(* loops of Config.Validate refuse every other one.                        *)
THEOREM ServingIsDocumented == Spec => []ServesDocumented
<1>1. Inv => ServesDocumented
  BY DEF Inv
<1> QED BY <1>1, Safety, PTL

(* Provision finds the configuration of the plans that the running broker  *)
(* advertises and of no others, whichever process handed out the catalogue *)
(* that the platform asks from.                                            *)
THEOREM AdvertisedPlansExist == Spec => AdvertisedIsProvisionable
<1> DEFINE Right(id) == reply' = "found" <=> id \in Advertised(config)
<1>1. Inv => [\A id \in catalog : Provision(id) => Right(id)]_vars
  <2> SUFFICES ASSUME Inv, NEW id \in catalog, Provision(id)
               PROVE  Right(id)
    OBVIOUS
  <2>1. reply' = "found" <=> id \in config.planConfigs
    BY DEF Provision, GetPlanConfig, hasPlanConfig
  <2>2. config.planConfigs = Advertised(config)
    BY DEF Provision, Inv, ServesDocumented, Documented
  <2> QED BY <2>1, <2>2
<1> QED BY <1>1, Safety, PTL DEF AdvertisedIsProvisionable

(* CreateListener does not fail after it has opened the port.              *)
THEOREM BoundBrokersServe == Spec => NoFatalOnceBound
<1>1. Inv /\ [Next]_vars => [bound /\ ~bound' => exit' # "fatal"]_vars
  <2> SUFFICES ASSUME Inv, Next, bound, ~bound' PROVE exit' # "fatal"
    BY DEF vars
  <2>1. pc \in {"tls", "serving"}
    BY DEF Inv, TypeOK
  <2>2. CASE CreateListener
    <3>1. Documented(config)
      BY <2>2, FilesAssumption DEF CreateListener, Inv, TypeOK
    <3> QED BY <2>2, <3>1 DEF CreateListener, Documented
  <2>3. CASE ServeReturns \/ Crash
    BY <2>3 DEF ServeReturns, Crash, Exit
  <2> QED
    BY <2>1, <2>2, <2>3
    DEF Next, Step, Start, Load, NewBroker, Listen, Services, Provision,
        Edit, PortTaken, processVars
<1> QED BY <1>1, Safety, PTL DEF Spec, NoFatalOnceBound

=============================================================================
