------------------------------ MODULE Startup -------------------------------
(***************************************************************************)
(* The start of the broker: LoadConfig and Validate of broker/config.go    *)
(* and broker/tls_config.go, main and CreateListener of main.go, and what  *)
(* a running broker does with its configuration: Services, which hands out *)
(* the catalogue, and GetPlanConfig, which every Provision begins with.    *)
(*                                                                         *)
(* The configuration is read once, at the start.  Meanwhile the file may   *)
(* be edited, the port taken by another process, the broker killed and     *)
(* started again, and the platform keeps the catalogue it was given.       *)
(***************************************************************************)
CONSTANTS
    Plans,      \* plan ids
    Files,      \* what the configuration file may hold
    Unreadable  \* there is no file, or it is not JSON

\* Fields that must not be empty.
Required == {"log_level", "username", "password", "region", "broker_name",
             "cache_subnet_group_name", "vpc_security_group_ids",
             "kms_key_id", "secrets_manager_path"}

\* A TLS section, where matching says that certificate and key make a pair.
TLSConfigs == [certificate : BOOLEAN, key : BOOLEAN, matching : BOOLEAN]

\* empty: the fields that are; services: the plans of each of them.
Configs ==
    [empty : SUBSET Required, logLevel : {"known", "unknown"},
     services : SUBSET SUBSET Plans, planConfigs : SUBSET Plans,
     tls : {{}} \cup {{t} : t \in TLSConfigs},
     host : {"unset", "set", "0.0.0.0"}]

ASSUME FilesAssumption ==
    Files \subseteq Configs /\ Unreadable \notin Configs

VARIABLES
    file,       \* the configuration file
    pc,         \* where main is
    config,     \* the configuration in memory
    bound,      \* has the broker opened its port
    listener,   \* the listener that is served
    exit,       \* how the process ended last
    taken,      \* is the port held by another process
    catalog,    \* the plans the platform knows of
    reply       \* the answer to the last Provision, from that catalogue

processVars == <<pc, config, bound, listener, exit>>
platformVars == <<catalog, reply>>
vars == <<file, pc, config, bound, listener, exit, taken, catalog, reply>>

-----------------------------------------------------------------------------
(***************************************************************************)
(* config.go and tls_config.go.                                            *)
(***************************************************************************)
X509KeyPair(t) == t.certificate /\ t.key /\ t.matching

\* TLSConfig.Validate
ValidateTLS(t) == t.certificate /\ t.key /\ X509KeyPair(t)

hasPlanConfig(c, id) == id \in c.planConfigs
hasPlan(c, id) == \E s \in c.services : id \in s
TLSEnabled(c) == c.tls # {}

\* Mutants: the plans, or the TLS section, are not looked at; a host must be
\* given.
ValidateNoPlans(c) == c.empty = {} /\ \A t \in c.tls : ValidateTLS(t)
ValidateNoTLS(c) ==
    /\ c.empty = {}
    /\ \A s \in c.services : \A p \in s : hasPlanConfig(c, p)
    /\ \A p \in c.planConfigs : hasPlan(c, p)
ValidateHost(c) ==
    /\ c.empty = {} /\ c.host # "unset"
    /\ \A s \in c.services : \A p \in s : hasPlanConfig(c, p)
    /\ \A p \in c.planConfigs : hasPlan(c, p)
    /\ \A t \in c.tls : ValidateTLS(t)

\* Config.Validate
Validate(c) ==
    /\ c.empty = {}
    /\ \A s \in c.services : \A p \in s : hasPlanConfig(c, p)
    /\ \A p \in c.planConfigs : hasPlan(c, p)
    /\ \A t \in c.tls : ValidateTLS(t)

\* The outcome of LoadConfig: one configuration, or none after an error.
LoadConfig(f) ==
    IF f # Unreadable /\ Validate(f)
    THEN {[f EXCEPT !.host = IF f.host = "unset" THEN "0.0.0.0" ELSE f.host]}
    ELSE {}

Advertised(c) == UNION c.services

-----------------------------------------------------------------------------
(***************************************************************************)
(* main.go.                                                                *)
(***************************************************************************)

\* The process is gone, and its port and its memory with it.
Exit(how) ==
    /\ pc' = "exited" /\ exit' = how
    /\ config' = Unreadable /\ bound' = FALSE /\ listener' = "none"
    /\ UNCHANGED <<file, taken, catalog, reply>>

\* Started by hand or by the supervisor of the machine.
Start ==
    /\ pc = "exited"
    /\ pc' = "load"
    /\ UNCHANGED <<file, config, bound, listener, exit, taken, platformVars>>

\* LoadConfig and newLogger.
Load ==
    /\ pc = "load"
    /\ \/ \E c \in LoadConfig(file) :
            \/ /\ c.logLevel = "known"
               /\ pc' = "account" /\ config' = c
               /\ UNCHANGED <<file, bound, listener, exit, taken,
                              platformVars>>
            \/ c.logLevel = "unknown" /\ Exit("fatal")
       \/ LoadConfig(file) = {} /\ Exit("fatal")

\* newBroker asks AWS for the number of the account.
NewBroker ==
    /\ pc = "account"
    /\ \/ /\ pc' = "listen"
          /\ UNCHANGED <<file, config, bound, listener, exit, taken,
                         platformVars>>
       \/ Exit("fatal")

\* Mutant: the error of net.Listen is not looked at.
ListenUnchecked ==
    /\ pc = "listen"
    /\ bound' = ~taken /\ pc' = "tls"
    /\ UNCHANGED <<file, config, listener, exit, taken, platformVars>>

\* CreateListener opens the port first and looks at the TLS section then.
Listen ==
    /\ pc = "listen"
    /\ \/ /\ ~taken
          /\ bound' = TRUE /\ pc' = "tls"
          /\ UNCHANGED <<file, config, listener, exit, taken, platformVars>>
       \/ Exit("fatal")

\* Mutant: the plain listener is served although TLS is configured.
CreateListenerPlain ==
    /\ pc = "tls"
    /\ pc' = "serving" /\ listener' = "plain"
    /\ UNCHANGED <<file, config, bound, exit, taken, platformVars>>

CreateListener ==
    /\ pc = "tls"
    /\ IF \A t \in config.tls : X509KeyPair(t)
       THEN /\ pc' = "serving"
            /\ listener' = IF TLSEnabled(config) THEN "tls" ELSE "plain"
            /\ UNCHANGED <<file, config, bound, exit, taken, platformVars>>
       ELSE Exit("fatal")

\* Serve comes back with an error, which nobody looks at.
ServeReturns == pc = "serving" /\ Exit("done")

Services ==
    /\ pc = "serving"
    /\ catalog' = Advertised(config) /\ reply' = "none"
    /\ UNCHANGED <<file, processVars, taken>>

GetPlanConfig(id) ==
    IF hasPlanConfig(config, id) THEN "found" ELSE "no plan found"

Provision(id) ==
    /\ pc = "serving"
    /\ reply' = GetPlanConfig(id)
    /\ UNCHANGED <<file, processVars, taken, catalog>>

-----------------------------------------------------------------------------
(***************************************************************************)
(* The surroundings.                                                       *)
(***************************************************************************)
Edit ==
    /\ file' \in (Files \cup {Unreadable}) \ {file}
    /\ UNCHANGED <<processVars, taken, platformVars>>

Crash == pc # "exited" /\ Exit("killed")

PortTaken ==
    /\ ~bound
    /\ taken' = ~taken
    /\ UNCHANGED <<file, processVars, platformVars>>

-----------------------------------------------------------------------------
Pcs == {"exited", "load", "account", "listen", "tls", "serving"}

(* Every variable holds a value of its kind, and how far main has come     *)
(* tells what it has got hold of.                                          *)
TypeOK ==
    /\ file \in Files \cup {Unreadable}
    /\ pc \in Pcs
    /\ IF pc \in {"exited", "load"} THEN config = Unreadable
                                    ELSE config \in Configs
    /\ bound \in BOOLEAN /\ taken \in BOOLEAN
    /\ bound <=> pc \in {"tls", "serving"}
    /\ bound => ~taken
    /\ listener \in {"none", "plain", "tls"}
    /\ listener # "none" <=> pc = "serving"
    /\ exit \in {"never", "fatal", "done", "killed"}
    /\ catalog \subseteq Plans
    /\ reply \in {"none", "found", "no plan found"}

Init ==
    /\ file \in Files \cup {Unreadable}
    /\ pc = "exited"
    /\ config = Unreadable
    /\ bound = FALSE /\ taken = FALSE
    /\ listener = "none"
    /\ exit = "never"
    /\ catalog = {}
    /\ reply = "none"

Step == Load \/ NewBroker \/ Listen \/ CreateListener

Next ==
    \/ Start \/ Step \/ ServeReturns
    \/ Services \/ \E id \in catalog : Provision(id)
    \/ Edit \/ Crash \/ PortTaken

Spec == Init /\ [][Next]_vars

-----------------------------------------------------------------------------
(***************************************************************************)
(* Properties.                                                             *)
(***************************************************************************)

\* What the README asks of a configuration: every field filled in, a log level
\* from its list, and "the plan config keys should be the same as the service
\* plan ids".
Documented(c) ==
    /\ c.empty = {} /\ c.logLevel = "known"
    /\ c.planConfigs = Advertised(c)
    /\ \A t \in c.tls : X509KeyPair(t)

(* A broker that serves requests has loaded a configuration as documented, *)
(* whatever the file holds by now, and encrypts if and only if TLS is      *)
(* configured.                                                             *)
ServesDocumented ==
    pc = "serving" =>
        /\ Documented(config) /\ config.host # "unset"
        /\ listener = "tls" <=> config.tls # {}

(* A broker that has opened its port does not give up any more: the        *)
(* certificate that CreateListener loads after it listens was tried out    *)
(* when the configuration was read.                                        *)
NoFatalOnceBound == [][bound /\ ~bound' => exit' # "fatal"]_vars

(* The broker provisions exactly the plans it advertises itself, from      *)
(* however old a catalogue the platform asks: of the plans that an earlier *)
(* process has handed out, those the file has lost since are refused, and  *)
(* those it has kept are found, whatever else was edited.                  *)
AdvertisedIsProvisionable ==
    [][\A id \in catalog :
        Provision(id) => (reply' = "found" <=> id \in Advertised(config))]_vars

(* The configuration in memory passed Validate, with the default filled    *)
(* in, from LoadConfig on.                                                 *)
Inv ==
    /\ TypeOK
    /\ ServesDocumented
    /\ config # Unreadable => Documented(config) /\ config.host # "unset"

-----------------------------------------------------------------------------
(***************************************************************************)
(* Fairness: main goes on, the supervisor starts a broker that has exited, *)
(* with whatever status, AWS and the operating system do not refuse for    *)
(* ever, and the broker is not killed for ever.  Serve may come back as    *)
(* often as it likes.                                                      *)
(***************************************************************************)
Fairness ==
    /\ WF_vars(Start) /\ WF_vars(Step)
    /\ SF_vars(NewBroker /\ pc' = "listen")
    /\ SF_vars(Listen /\ pc' = "tls")
    /\ <>[][~Crash]_vars

FairSpec == Spec /\ Fairness

(* Once the file is as documented and the port is free for good, the       *)
(* broker comes back to serve however often Serve returns, and goes on     *)
(* serving if that ends: neither a start that failed before nor a process  *)
(* that ended without a word leaves anything that stands in the way.       *)
Recovers ==
    <>[](file # Unreadable /\ Documented(file) /\ ~taken)
        => /\ []<>(pc = "serving")
           /\ <>[][~ServeReturns]_vars => <>[](pc = "serving")

=============================================================================
