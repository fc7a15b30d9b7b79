----------------------------- MODULE MCStartup ------------------------------
(* Startup for TLC: files that are right, and files with one thing wrong.  *)
EXTENDS Startup, TLC

CONSTANTS p, q

Pair == [certificate |-> TRUE, key |-> TRUE, matching |-> TRUE]

Right ==
    {[empty |-> {}, logLevel |-> "known", services |-> {S, {p}},
      planConfigs |-> {p} \cup S, tls |-> t, host |-> h] :
        S \in {{}, {q}}, t \in {{}, {Pair}}, h \in {"unset", "set"}}

\* Files with one thing wrong, made from the first of the right ones.
Sample == CHOOSE c \in Right : c.services = {{}, {p}} /\ c.tls = {}
                                /\ c.host = "set"
Wrong ==
    {[Sample EXCEPT !.empty = {f}] : f \in Required} \cup
    {[Sample EXCEPT !.logLevel = "unknown"],
     [Sample EXCEPT !.services = {{p}, {q}}],
     [Sample EXCEPT !.planConfigs = {p, q}]} \cup
    {[Sample EXCEPT !.tls = {[Pair EXCEPT ![part] = FALSE]}] :
        part \in {"certificate", "key", "matching"}}

MCFiles == Right \cup Wrong

=============================================================================
