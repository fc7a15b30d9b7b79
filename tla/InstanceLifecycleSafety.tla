---------------------- MODULE InstanceLifecycleSafety ----------------------
(***************************************************************************)
(* The inductive invariant Inv of InstanceLifecycle, proved for any number *)
(* of instances, concurrent requests and tokens, and what follows from it. *)
(*                                                                         *)
(* A step of a request either changes nothing that Inv looks at (Quiet) or *)
(* moves one request and changes the resources of one instance; there is   *)
(* one lemma for each such change, with one step for each part of Inv.     *)
(***************************************************************************)
EXTENDS InstanceLifecycleProofs

\* Request q is where it was.
Same(q) ==
    /\ pc'[q] = pc[q] /\ inst'[q] = inst[q]
    /\ token'[q] = token[q] /\ action'[q] = action[q]

Others(r) == \A q \in Requests \ {r} : Same(q)

\* Request r leaves position `from` and stays with its instance; the other
\* requests are where they were.
Moves(r, from) == Others(r) /\ pc[r] = from /\ inst'[r] = inst[r]

\* Request q is at a position of which Inv asks nothing but, for the poll of a
\* deletion, that the secret waits for its purge.
Neutral(q) ==
    \/ pc'[q] \in {"idle", "createPG", "deleteRG", "bindDescribe"}
    \/ /\ pc'[q] = "describe"
       /\ action'[q] = "deprovisioning" => secret[inst'[q]].state = "scheduled"

\* The function `new` is `old` with the value v at instance i.
Sets(new, old, i, v) ==
    \A j \in Instances : new[j] = IF j = i THEN v ELSE old[j]

-----------------------------------------------------------------------------
(***************************************************************************)
(* Control flow, request by request.                                       *)
(***************************************************************************)
LEMMA EnterEffect ==
  ASSUME CallTypeOK, NEW r \in Requests, NEW i, NEW first, NEW act,
         Enter(r, i, first, act)
  PROVE  /\ Others(r)
         /\ pc'[r] = first /\ inst'[r] = i /\ action'[r] = act
  BY DEF Enter, Others, Same, CallTypeOK

LEMMA GotoEffect ==
  ASSUME CallTypeOK, NEW r \in Requests, NEW next, NEW t, Goto(r, next, t)
  PROVE  /\ Moves(r, pc[r])
         /\ pc'[r] = next /\ token'[r] = t /\ action'[r] = action[r]
  BY DEF Goto, Moves, Others, Same, CallTypeOK

LEMMA ReturnEffect ==
  ASSUME CallTypeOK, NEW r \in Requests, NEW answer, NEW t,
         Return(r, answer, t)
  PROVE  Moves(r, pc[r]) /\ pc'[r] = "idle"
  BY DEF Return, Moves, Others, Same, CallTypeOK

LEMMA FailsEffect ==
  ASSUME CallTypeOK, NEW r \in Requests, Fails(r)
  PROVE  Moves(r, pc[r]) /\ pc'[r] = "idle"
  BY ReturnEffect DEF Fails

\* A change of one field, resource by resource.
LEMMA ScheduledSets ==
  ASSUME secret \in [Instances -> Secrets], NEW i \in Instances,
         AcceptsDeleteSecret(secret[i])
  PROVE  Sets([secret EXCEPT ![i].state = "scheduled"], secret, i,
              [state |-> "scheduled", token |-> secret[i].token])
<1>1. secret[i] \in [state : {"active", "scheduled"}, token : Tokens]
  BY DEF Secrets, NoSecret, AcceptsDeleteSecret
<1>2. [secret[i] EXCEPT !.state = "scheduled"]
        = [state |-> "scheduled", token |-> secret[i].token]
  BY <1>1
<1> QED BY <1>2 DEF Sets

LEMMA StatusSets ==
  ASSUME rg \in [Instances -> ReplicationGroups], NEW i \in Instances,
         Exists(rg[i]), NEW s
  PROVE  Sets([rg EXCEPT ![i].status = s], rg, i,
              [status |-> s, token |-> rg[i].token])
<1>1. rg[i] \in [status : Statuses, token : Tokens]
  BY DEF ReplicationGroups, NoReplicationGroup, Exists
<1>2. [rg[i] EXCEPT !.status = s] = [status |-> s, token |-> rg[i].token]
  BY <1>1
<1> QED BY <1>2 DEF Sets

\* Where the requests are after r has moved.
LEMMA MovesAt ==
  ASSUME NEW r \in Requests, NEW from, Moves(r, from),
         NEW q \in Requests, NEW j, NEW c
  PROVE  /\ At(r, j, c)' <=> j = inst[r] /\ pc'[r] \in c
         /\ At(r, j, c) <=> j = inst[r] /\ from \in c
         /\ q # r => /\ At(q, j, c)' <=> At(q, j, c)
                     /\ token'[q] = token[q] /\ action'[q] = action[q]
                     /\ pc'[q] = pc[q]
  BY DEF Moves, Others, Same, At

-----------------------------------------------------------------------------
\* Requests that start, end or answer without a change of a resource, and
\* promises and operations that end, do no harm.
LEMMA Quiet ==
  ASSUME Inv, TypeOK', UNCHANGED awsVars, promised' \subseteq promised,
         \A j \in Instances : opdata'[j] \in {opdata[j], "none"},
         \A q \in Requests : Same(q) \/ Neutral(q)
  PROVE  Inv'
<1>1. pg' = pg /\ secret' = secret /\ rg' = rg
  BY DEF awsVars
<1>2. ASSUME NEW q \in Requests, NEW j \in Instances,
             NEW c \in SUBSET (WaitingCalls \cup OwnerCalls
                        \cup {"deleteSecret", "bindSecret", "deletePG"}),
             At(q, j, c)'
      PROVE  At(q, j, c) /\ Same(q)
  BY <1>2 DEF Neutral, At, WaitingCalls, OwnerCalls, Same
<1> USE <1>1, <1>2 DEF Inv
<1>3. TokenAgreement'
  BY DEF TokenAgreement
<1>4. PromiseKept'
  BY DEF PromiseKept
<1>5. DeprovisionSettled'
  BY DEF DeprovisionSettled
<1>6. SoleOwner'
  BY DEF SoleOwner, OwnerCalls, Same
<1>7. GroupNeedsParameters'
  BY DEF GroupNeedsParameters
<1>8. ParameterGroupIsLock'
  BY DEF ParameterGroupIsLock, WaitingCalls, Same
<1>9. LostSecretStaysLost'
  BY DEF LostSecretStaysLost, WaitingCalls
<1>10. OwnerReady'
  BY DEF OwnerReady, OwnerCalls
<1>11. BindSeesItsToken'
  BY DEF BindSeesItsToken, Same
<1>12. DeletersHarmless'
  BY DEF DeletersHarmless, OwnerCalls
<1>13. PollersHarmless'
  <2>1. ASSUME NEW j \in Instances, NEW q \in Requests,
               At(q, j, LastOperationCalls)', action'[q] = "deprovisioning"
        PROVE  secret[j].state = "scheduled"
    <3>1. CASE Same(q)
      BY <2>1, <3>1 DEF PollersHarmless, At, Same
    <3>2. CASE Neutral(q)
      BY <2>1, <3>2 DEF Neutral, At, LastOperationCalls
    <3> QED BY <3>1, <3>2
  <2>2. ASSUME NEW j \in Instances, NEW q \in Requests,
               At(q, j, {"deletePG"})'
        PROVE  action'[q] = "deprovisioning" /\ ~Exists(rg[j])
    BY <2>2 DEF PollersHarmless, Same
  <2> QED BY <2>1, <2>2 DEF PollersHarmless
<1> QED BY <1>3, <1>4, <1>5, <1>6, <1>7, <1>8, <1>9, <1>10, <1>11, <1>12, <1>13

-----------------------------------------------------------------------------
(***************************************************************************)
(* One lemma for each change of a resource.                                *)
(***************************************************************************)
\* What the owner knows when it is about to create the group.
LEMMA OwnerFacts ==
  ASSUME Inv, NEW r \in Requests, pc[r] = "createRG"
  PROVE  /\ inst[r] \in Instances /\ inst[r] \notin promised
         /\ ~Exists(rg[inst[r]]) /\ pg[inst[r]] = "set"
         /\ secret[inst[r]].state = "active"
         /\ secret[inst[r]].token = token[r]
         /\ opdata[inst[r]] # "deprovisioning"
         /\ \A q \in Requests \ {r} : inst[q] = inst[r] =>
                pc[q] \notin OwnerCalls \cup {"deleteSecret"}
         /\ \A q \in Requests : inst[q] = inst[r] =>
                /\ pc[q] # "deletePG"
                /\ pc[q] = "describe" => action[q] # "deprovisioning"
<1> USE DEF Inv
<1>1. inst[r] \in Instances
  BY DEF TypeOK, CallTypeOK
<1>2. At(r, inst[r], {"createRG"}) /\ At(r, inst[r], OwnerCalls)
  BY DEF At, OwnerCalls
<1>3. /\ ~Exists(rg[inst[r]]) /\ pg[inst[r]] = "set"
      /\ secret[inst[r]].state = "active" /\ opdata[inst[r]] # "deprovisioning"
  BY <1>1, <1>2 DEF OwnerReady
<1>4. inst[r] \notin promised
  BY <1>1, <1>3 DEF PromiseKept
<1>5. /\ secret[inst[r]].token = token[r]
      /\ \A q \in Requests \ {r} : ~At(q, inst[r], OwnerCalls)
  BY <1>1, <1>2 DEF SoleOwner
<1>6. \A q \in Requests : ~At(q, inst[r], {"deleteSecret"})
  BY <1>1, <1>2 DEF DeletersHarmless
<1>7. ASSUME NEW q \in Requests, inst[q] = inst[r]
      PROVE  /\ pc[q] # "deletePG"
             /\ pc[q] = "describe" => action[q] # "deprovisioning"
  BY <1>1, <1>3, <1>7 DEF PollersHarmless, At, LastOperationCalls
<1> QED BY <1>1, <1>3, <1>4, <1>5, <1>6, <1>7 DEF At, OwnerCalls

\* A Provision creates the parameter group; its answer may be lost.
LEMMA ParameterGroupCreated ==
  ASSUME Inv, TypeOK', NEW r \in Requests, Moves(r, "createPG"),
         pc'[r] \in {"modifyPG", "idle"},
         pg[inst[r]] = "absent",
         Sets(pg', pg, inst[r], "default"),
         UNCHANGED <<secret, rg, opdata, promised>>
  PROVE  Inv'
<1> inst[r] \in Instances
  BY DEF Inv, TypeOK, CallTypeOK, Moves
<1> USE DEF Inv, Sets
<1>1. TokenAgreement'
  BY DEF TokenAgreement, Exists
<1>2. PromiseKept'
  BY DEF PromiseKept, Exists
<1>3. DeprovisionSettled'
  BY DEF DeprovisionSettled
<1>4. SoleOwner'
  BY MovesAt DEF SoleOwner, OwnerCalls
<1>5. GroupNeedsParameters'
  BY DEF GroupNeedsParameters, Exists
<1>6. ParameterGroupIsLock'
  BY MovesAt DEF ParameterGroupIsLock, GroupNeedsParameters, WaitingCalls,
                 Exists
<1>7. LostSecretStaysLost'
  BY MovesAt DEF LostSecretStaysLost, WaitingCalls
<1>8. OwnerReady'
  BY MovesAt DEF OwnerReady, Exists
<1>9. BindSeesItsToken'
  BY MovesAt DEF BindSeesItsToken
<1>10. DeletersHarmless'
  BY MovesAt DEF DeletersHarmless
<1>11. PollersHarmless'
  BY MovesAt DEF PollersHarmless, LastOperationCalls, Exists
<1> QED BY <1>1, <1>2, <1>3, <1>4, <1>5, <1>6,
           <1>7, <1>8, <1>9, <1>10, <1>11

\* A Provision sets the parameters.
LEMMA ParameterGroupSet ==
  ASSUME Inv, TypeOK', NEW r \in Requests, Moves(r, "modifyPG"),
         pc'[r] \in {"createSecret", "idle"},
         pg[inst[r]] # "absent",
         Sets(pg', pg, inst[r], "set"),
         UNCHANGED <<secret, rg, opdata, promised>>
  PROVE  Inv'
<1> inst[r] \in Instances
  BY DEF Inv, TypeOK, CallTypeOK, Moves
<1> USE DEF Inv, Sets
<1>1. TokenAgreement'
  BY DEF TokenAgreement, Exists
<1>2. PromiseKept'
  BY DEF PromiseKept, Exists
<1>3. DeprovisionSettled'
  BY DEF DeprovisionSettled
<1>4. SoleOwner'
  BY MovesAt DEF SoleOwner, OwnerCalls
<1>5. GroupNeedsParameters'
  BY DEF GroupNeedsParameters, Exists
<1>6. ParameterGroupIsLock'
  BY MovesAt DEF ParameterGroupIsLock, WaitingCalls, Exists
<1>7. LostSecretStaysLost'
  BY MovesAt DEF LostSecretStaysLost, WaitingCalls
<1>8. OwnerReady'
  BY MovesAt DEF OwnerReady, Exists
<1>9. BindSeesItsToken'
  BY MovesAt DEF BindSeesItsToken
<1>10. DeletersHarmless'
  BY MovesAt DEF DeletersHarmless
<1>11. PollersHarmless'
  BY MovesAt DEF PollersHarmless, LastOperationCalls, Exists
<1> QED BY <1>1, <1>2, <1>3, <1>4, <1>5, <1>6,
           <1>7, <1>8, <1>9, <1>10, <1>11

\* A Provision stores its token and becomes the owner, unless the answer is
\* lost.
LEMMA SecretCreated ==
  ASSUME Inv, TypeOK', NEW r \in Requests, Moves(r, "createSecret"),
         NEW t \in Tokens,
         pc'[r] \in {"createRG", "idle"},
         pc'[r] = "createRG" => token'[r] = t,
         secret[inst[r]].state = "absent",
         Sets(secret', secret, inst[r], [state |-> "active", token |-> t]),
         UNCHANGED <<pg, rg, opdata, promised>>
  PROVE  Inv'
<1> inst[r] \in Instances
  BY DEF Inv, TypeOK, CallTypeOK, Moves
<1> USE DEF Inv, Sets
<1>1. TokenAgreement'
  BY MovesAt DEF TokenAgreement, ParameterGroupIsLock, WaitingCalls
<1>2. PromiseKept'
  BY DEF PromiseKept, Exists
<1>3. DeprovisionSettled'
  BY DEF DeprovisionSettled
<1>4. SoleOwner'
  BY MovesAt DEF SoleOwner, OwnerCalls
<1>5. GroupNeedsParameters'
  BY DEF GroupNeedsParameters, Exists
<1>6. ParameterGroupIsLock'
  BY MovesAt DEF ParameterGroupIsLock, WaitingCalls, Exists
<1>7. LostSecretStaysLost'
  BY MovesAt DEF LostSecretStaysLost, WaitingCalls
<1>8. OwnerReady'
  <2>1. At(r, inst[r], WaitingCalls)
    BY DEF WaitingCalls, At, Moves
  <2>2. pc[r] = "createSecret"
    BY DEF Moves
  <2>3. ~Exists(rg[inst[r]]) /\ pg[inst[r]] = "set"
    BY <2>1, <2>2 DEF ParameterGroupIsLock
  <2>4. opdata[inst[r]] # "deprovisioning"
    BY DEF DeprovisionSettled
  <2> QED BY <2>3, <2>4, MovesAt DEF OwnerReady
<1>9. BindSeesItsToken'
  <2>1. At(r, inst[r], WaitingCalls)
    BY DEF WaitingCalls, At, Moves
  <2>2. \A q \in Requests : ~At(q, inst[r], {"bindSecret", "deleteSecret"})
    BY <2>1 DEF LostSecretStaysLost
  <2> QED BY <2>2 DEF BindSeesItsToken, At, Moves, Others, Same
<1>10. DeletersHarmless'
  <2>1. At(r, inst[r], WaitingCalls)
    BY DEF WaitingCalls, At, Moves
  <2>2. \A q \in Requests : ~At(q, inst[r], {"bindSecret", "deleteSecret"})
    BY <2>1 DEF LostSecretStaysLost
  <2> QED BY <2>2 DEF DeletersHarmless, At, Moves, Others, Same, OwnerCalls
<1>11. PollersHarmless'
  BY MovesAt DEF PollersHarmless, LastOperationCalls, Exists
<1> QED BY <1>1, <1>2, <1>3, <1>4, <1>5, <1>6,
           <1>7, <1>8, <1>9, <1>10, <1>11

\* The owner creates the group and says so.
LEMMA GroupAccepted ==
  ASSUME Inv, TypeOK', NEW r \in Requests, Moves(r, "createRG"),
         pc'[r] = "idle",
         Sets(rg', rg, inst[r], [status |-> "creating", token |-> token[r]]),
         Sets(opdata', opdata, inst[r], "provisioning"),
         promised' = promised \cup {inst[r]},
         UNCHANGED <<pg, secret>>
  PROVE  Inv'
<1> pc[r] = "createRG" /\ inst[r] \in Instances
  BY OwnerFacts DEF Moves
<1> USE DEF Inv, Sets
<1>1. TokenAgreement'
  BY OwnerFacts DEF TokenAgreement, Exists
<1>2. PromiseKept'
  <2>1. secret[inst[r]] \in Secrets
    BY DEF TypeOK, AwsTypeOK
  <2>2. secret[inst[r]] = [state |-> "active", token |-> token[r]]
    BY <2>1, OwnerFacts DEF Secrets, NoSecret
  <2> QED BY <2>2, OwnerFacts DEF PromiseKept, Exists
<1>3. DeprovisionSettled'
  BY DEF DeprovisionSettled
<1>4. SoleOwner'
  BY MovesAt DEF SoleOwner, OwnerCalls
<1>5. GroupNeedsParameters'
  BY OwnerFacts DEF GroupNeedsParameters, Exists
<1>6. ParameterGroupIsLock'
  BY MovesAt DEF ParameterGroupIsLock, OwnerReady, WaitingCalls, Exists
<1>7. LostSecretStaysLost'
  BY MovesAt DEF LostSecretStaysLost, OwnerReady, WaitingCalls, Exists
<1>8. OwnerReady'
  BY OwnerFacts DEF OwnerReady, At, Moves, Others, Same, OwnerCalls
<1>9. BindSeesItsToken'
  BY MovesAt DEF BindSeesItsToken
<1>10. DeletersHarmless'
  BY OwnerFacts DEF DeletersHarmless, At, Moves, Others, Same, OwnerCalls
<1>11. PollersHarmless'
  BY OwnerFacts DEF PollersHarmless, At, Moves, Others, Same,
                    LastOperationCalls, Exists
<1> QED BY <1>1, <1>2, <1>3, <1>4, <1>5, <1>6,
           <1>7, <1>8, <1>9, <1>10, <1>11

\* The owner creates the group but sees an error.
LEMMA GroupAnswerLost ==
  ASSUME Inv, TypeOK', NEW r \in Requests, Moves(r, "createRG"),
         pc'[r] = "undoPG",
         token'[r] = token[r],
         Sets(rg', rg, inst[r], [status |-> "creating", token |-> token[r]]),
         UNCHANGED <<pg, secret, opdata, promised>>
  PROVE  Inv'
<1> pc[r] = "createRG" /\ inst[r] \in Instances
  BY OwnerFacts DEF Moves
<1> USE DEF Inv, Sets
<1>1. TokenAgreement'
  BY OwnerFacts DEF TokenAgreement, Exists
<1>2. PromiseKept'
  BY OwnerFacts DEF PromiseKept, Exists
<1>3. DeprovisionSettled'
  BY OwnerFacts DEF DeprovisionSettled
<1>4. SoleOwner'
  BY MovesAt DEF SoleOwner, OwnerCalls
<1>5. GroupNeedsParameters'
  BY OwnerFacts DEF GroupNeedsParameters, Exists
<1>6. ParameterGroupIsLock'
  BY MovesAt DEF ParameterGroupIsLock, OwnerReady, WaitingCalls, Exists
<1>7. LostSecretStaysLost'
  BY MovesAt DEF LostSecretStaysLost, OwnerReady, WaitingCalls, Exists
<1>8. OwnerReady'
  BY OwnerFacts DEF OwnerReady, At, Moves, Others, Same, OwnerCalls
<1>9. BindSeesItsToken'
  BY MovesAt DEF BindSeesItsToken
<1>10. DeletersHarmless'
  BY OwnerFacts DEF DeletersHarmless, At, Moves, Others, Same, OwnerCalls
<1>11. PollersHarmless'
  BY OwnerFacts DEF PollersHarmless, At, Moves, Others, Same,
                    LastOperationCalls, Exists
<1> QED BY <1>1, <1>2, <1>3, <1>4, <1>5, <1>6,
           <1>7, <1>8, <1>9, <1>10, <1>11

\* The owner does not create the group and starts to clean up.
LEMMA GroupRefused ==
  ASSUME Inv, TypeOK', NEW r \in Requests, Moves(r, "createRG"),
         pc'[r] = "undoPG",
         token'[r] = token[r],
         UNCHANGED <<pg, secret, rg, opdata, promised>>
  PROVE  Inv'
<1> pc[r] = "createRG" /\ inst[r] \in Instances
  BY OwnerFacts DEF Moves
<1> USE DEF Inv, Sets
<1>1. TokenAgreement'
  BY DEF TokenAgreement, Exists
<1>2. PromiseKept'
  BY DEF PromiseKept, Exists
<1>3. DeprovisionSettled'
  BY DEF DeprovisionSettled
<1>4. SoleOwner'
  BY MovesAt DEF SoleOwner, OwnerCalls
<1>5. GroupNeedsParameters'
  BY DEF GroupNeedsParameters, Exists
<1>6. ParameterGroupIsLock'
  BY MovesAt DEF ParameterGroupIsLock, WaitingCalls, Exists
<1>7. LostSecretStaysLost'
  BY MovesAt DEF LostSecretStaysLost, WaitingCalls
<1>8. OwnerReady'
  BY MovesAt DEF OwnerReady, Exists
<1>9. BindSeesItsToken'
  BY MovesAt DEF BindSeesItsToken
<1>10. DeletersHarmless'
  BY OwnerFacts DEF DeletersHarmless, At, Moves, Others, Same, OwnerCalls
<1>11. PollersHarmless'
  BY MovesAt DEF PollersHarmless, LastOperationCalls, Exists
<1> QED BY <1>1, <1>2, <1>3, <1>4, <1>5, <1>6,
           <1>7, <1>8, <1>9, <1>10, <1>11

\* The clean-up deletes the parameter group.
LEMMA ParameterGroupUndone ==
  ASSUME Inv, TypeOK', NEW r \in Requests, Moves(r, "undoPG"),
         pc'[r] = "undoSecret",
         token'[r] = token[r],
         ~Exists(rg[inst[r]]),
         Sets(pg', pg, inst[r], "absent"),
         UNCHANGED <<secret, rg, opdata, promised>>
  PROVE  Inv'
<1> inst[r] \in Instances
  BY DEF Inv, TypeOK, CallTypeOK, Moves
<1> USE DEF Inv, Sets
<1>1. TokenAgreement'
  BY DEF TokenAgreement, Exists
<1>2. PromiseKept'
  BY DEF PromiseKept, Exists
<1>3. DeprovisionSettled'
  BY DEF DeprovisionSettled
<1>4. SoleOwner'
  BY MovesAt DEF SoleOwner, OwnerCalls
<1>5. GroupNeedsParameters'
  BY DEF GroupNeedsParameters, Exists
<1>6. ParameterGroupIsLock'
  BY MovesAt DEF ParameterGroupIsLock, SoleOwner, WaitingCalls, Exists,
                 OwnerCalls
<1>7. LostSecretStaysLost'
  BY MovesAt DEF LostSecretStaysLost, SoleOwner, WaitingCalls, OwnerCalls
<1>8. OwnerReady'
  <2>1. At(r, inst[r], OwnerCalls)
    BY DEF OwnerCalls, At, Moves
  <2>2. \A q \in Requests \ {r} : ~At(q, inst[r], {"createRG"})
    BY <2>1 DEF SoleOwner, At, OwnerCalls
  <2> QED BY <2>2, MovesAt DEF OwnerReady
<1>9. BindSeesItsToken'
  BY MovesAt DEF BindSeesItsToken
<1>10. DeletersHarmless'
  BY MovesAt DEF DeletersHarmless
<1>11. PollersHarmless'
  BY MovesAt DEF PollersHarmless, LastOperationCalls, Exists
<1> QED BY <1>1, <1>2, <1>3, <1>4, <1>5, <1>6,
           <1>7, <1>8, <1>9, <1>10, <1>11

\* The clean-up does not delete the parameter group.
LEMMA ParameterGroupKept ==
  ASSUME Inv, TypeOK', NEW r \in Requests, Moves(r, "undoPG"),
         pc'[r] = "undoSecret",
         token'[r] = token[r],
         UNCHANGED <<pg, secret, rg, opdata, promised>>
  PROVE  Inv'
<1> inst[r] \in Instances
  BY DEF Inv, TypeOK, CallTypeOK, Moves
<1> USE DEF Inv, Sets
<1>1. TokenAgreement'
  BY DEF TokenAgreement, Exists
<1>2. PromiseKept'
  BY DEF PromiseKept, Exists
<1>3. DeprovisionSettled'
  BY DEF DeprovisionSettled
<1>4. SoleOwner'
  BY MovesAt DEF SoleOwner, OwnerCalls
<1>5. GroupNeedsParameters'
  BY DEF GroupNeedsParameters, Exists
<1>6. ParameterGroupIsLock'
  BY MovesAt DEF ParameterGroupIsLock, WaitingCalls, Exists
<1>7. LostSecretStaysLost'
  BY MovesAt DEF LostSecretStaysLost, WaitingCalls
<1>8. OwnerReady'
  BY MovesAt DEF OwnerReady, Exists
<1>9. BindSeesItsToken'
  BY MovesAt DEF BindSeesItsToken
<1>10. DeletersHarmless'
  BY MovesAt DEF DeletersHarmless
<1>11. PollersHarmless'
  BY MovesAt DEF PollersHarmless, LastOperationCalls, Exists
<1> QED BY <1>1, <1>2, <1>3, <1>4, <1>5, <1>6,
           <1>7, <1>8, <1>9, <1>10, <1>11

\* The clean-up deletes the secret.
LEMMA SecretUndone ==
  ASSUME Inv, TypeOK', NEW r \in Requests, Moves(r, "undoSecret"),
         pc'[r] = "idle",
         secret[inst[r]].state = "active",
         Sets(secret', secret, inst[r], [state |-> "scheduled",
                            token |-> secret[inst[r]].token]),
         UNCHANGED <<pg, rg, opdata, promised>>
  PROVE  Inv'
<1> inst[r] \in Instances
  BY DEF Inv, TypeOK, CallTypeOK, Moves
<1> USE DEF Inv, Sets
<1>1. TokenAgreement'
  BY DEF TokenAgreement, Exists
<1>2. PromiseKept'
  BY MovesAt DEF PromiseKept, DeletersHarmless
<1>3. DeprovisionSettled'
  BY DEF DeprovisionSettled
<1>4. SoleOwner'
  BY MovesAt DEF SoleOwner, OwnerCalls
<1>5. GroupNeedsParameters'
  BY DEF GroupNeedsParameters, Exists
<1>6. ParameterGroupIsLock'
  BY MovesAt DEF ParameterGroupIsLock, WaitingCalls, Exists
<1>7. LostSecretStaysLost'
  BY MovesAt DEF LostSecretStaysLost, WaitingCalls
<1>8. OwnerReady'
  <2>1. At(r, inst[r], OwnerCalls)
    BY DEF OwnerCalls, At, Moves
  <2>2. \A q \in Requests \ {r} : ~At(q, inst[r], {"createRG"})
    BY <2>1 DEF SoleOwner, At, OwnerCalls
  <2> QED BY <2>2, MovesAt DEF OwnerReady
<1>9. BindSeesItsToken'
  BY MovesAt DEF BindSeesItsToken
<1>10. DeletersHarmless'
  BY MovesAt DEF DeletersHarmless
<1>11. PollersHarmless'
  BY MovesAt DEF PollersHarmless, LastOperationCalls, Exists
<1> QED BY <1>1, <1>2, <1>3, <1>4, <1>5, <1>6,
           <1>7, <1>8, <1>9, <1>10, <1>11

\* A Deprovision deletes the group; its answer may be lost.
LEMMA GroupDeleted ==
  ASSUME Inv, TypeOK', NEW r \in Requests, Moves(r, "deleteRG"),
         pc'[r] \in {"deleteSecret", "idle"},
         AcceptsDeleteReplicationGroup(rg[inst[r]]),
         Sets(rg', rg, inst[r], [status |-> "deleting",
                                token |-> rg[inst[r]].token]),
         promised' = promised \ {inst[r]},
         UNCHANGED <<pg, secret, opdata>>
  PROVE  Inv'
<1> inst[r] \in Instances
  BY DEF Inv, TypeOK, CallTypeOK, Moves
<1> USE DEF Inv, Sets
<1>1. TokenAgreement'
  BY DEF TokenAgreement, Exists, AcceptsDeleteReplicationGroup
<1>2. PromiseKept'
  BY DEF PromiseKept, Exists, AcceptsDeleteReplicationGroup
<1>3. DeprovisionSettled'
  BY DEF DeprovisionSettled, AcceptsDeleteReplicationGroup, Exists
<1>4. SoleOwner'
  BY MovesAt DEF SoleOwner, OwnerCalls, AcceptsDeleteReplicationGroup, Exists
<1>5. GroupNeedsParameters'
  BY DEF GroupNeedsParameters, Exists, AcceptsDeleteReplicationGroup
<1>6. ParameterGroupIsLock'
  BY MovesAt DEF ParameterGroupIsLock, WaitingCalls, Exists,
         AcceptsDeleteReplicationGroup
<1>7. LostSecretStaysLost'
  BY MovesAt DEF LostSecretStaysLost, GroupNeedsParameters,
                 ParameterGroupIsLock, WaitingCalls, Exists, AcceptsDeleteReplicationGroup
<1>8. OwnerReady'
  BY MovesAt DEF OwnerReady, Exists, AcceptsDeleteReplicationGroup
<1>9. BindSeesItsToken'
  BY MovesAt DEF BindSeesItsToken, AcceptsDeleteReplicationGroup, Exists
<1>10. DeletersHarmless'
  BY MovesAt DEF DeletersHarmless, OwnerReady, Exists,
                 AcceptsDeleteReplicationGroup
<1>11. PollersHarmless'
  BY MovesAt DEF PollersHarmless, LastOperationCalls, Exists,
         AcceptsDeleteReplicationGroup
<1> QED BY <1>1, <1>2, <1>3, <1>4, <1>5, <1>6,
           <1>7, <1>8, <1>9, <1>10, <1>11

\* A Deprovision deletes the secret; its answer may be lost.
LEMMA SecretDeleted ==
  ASSUME Inv, TypeOK', NEW r \in Requests, Moves(r, "deleteSecret"),
         pc'[r] = "idle",
         secret[inst[r]].state = "active",
         Sets(secret', secret, inst[r], [state |-> "scheduled",
                            token |-> secret[inst[r]].token]),
         \/ opdata' = opdata
         \/ Sets(opdata', opdata, inst[r], "deprovisioning"),
         UNCHANGED <<pg, rg, promised>>
  PROVE  Inv'
<1> inst[r] \in Instances
  BY DEF Inv, TypeOK, CallTypeOK, Moves
<1> USE DEF Inv, Sets
<1>1. TokenAgreement'
  BY DEF TokenAgreement, Exists
<1>2. PromiseKept'
  BY MovesAt DEF PromiseKept, DeletersHarmless
<1>3. DeprovisionSettled'
  BY MovesAt DEF DeprovisionSettled, DeletersHarmless
<1>4. SoleOwner'
  BY MovesAt DEF SoleOwner, OwnerCalls
<1>5. GroupNeedsParameters'
  BY DEF GroupNeedsParameters, Exists
<1>6. ParameterGroupIsLock'
  BY MovesAt DEF ParameterGroupIsLock, WaitingCalls, Exists
<1>7. LostSecretStaysLost'
  BY MovesAt DEF LostSecretStaysLost, WaitingCalls
<1>8. OwnerReady'
  BY MovesAt DEF OwnerReady, DeletersHarmless, Exists
<1>9. BindSeesItsToken'
  BY MovesAt DEF BindSeesItsToken
<1>10. DeletersHarmless'
  BY MovesAt DEF DeletersHarmless
<1>11. PollersHarmless'
  BY MovesAt DEF PollersHarmless, LastOperationCalls, Exists
<1> QED BY <1>1, <1>2, <1>3, <1>4, <1>5, <1>6,
           <1>7, <1>8, <1>9, <1>10, <1>11

\* The poll of a deletion finds the group gone.
LEMMA DeletionSeen ==
  ASSUME Inv, TypeOK', NEW r \in Requests, Moves(r, "describe"),
         pc'[r] = "deletePG",
         action'[r] = action[r],
         action[r] = "deprovisioning",
         ~Exists(rg[inst[r]]),
         UNCHANGED <<pg, secret, rg, opdata, promised>>
  PROVE  Inv'
<1> inst[r] \in Instances
  BY DEF Inv, TypeOK, CallTypeOK, Moves
<1> USE DEF Inv, Sets
<1>1. TokenAgreement'
  BY DEF TokenAgreement, Exists
<1>2. PromiseKept'
  BY DEF PromiseKept, Exists
<1>3. DeprovisionSettled'
  BY DEF DeprovisionSettled
<1>4. SoleOwner'
  BY MovesAt DEF SoleOwner, OwnerCalls
<1>5. GroupNeedsParameters'
  BY DEF GroupNeedsParameters, Exists
<1>6. ParameterGroupIsLock'
  BY MovesAt DEF ParameterGroupIsLock, WaitingCalls, Exists
<1>7. LostSecretStaysLost'
  BY MovesAt DEF LostSecretStaysLost, WaitingCalls
<1>8. OwnerReady'
  BY MovesAt DEF OwnerReady, Exists
<1>9. BindSeesItsToken'
  BY MovesAt DEF BindSeesItsToken
<1>10. DeletersHarmless'
  BY MovesAt DEF DeletersHarmless
<1>11. PollersHarmless'
  BY MovesAt DEF PollersHarmless, LastOperationCalls, Exists
<1> QED BY <1>1, <1>2, <1>3, <1>4, <1>5, <1>6,
           <1>7, <1>8, <1>9, <1>10, <1>11

\* The poll of a deletion deletes the parameter group.
LEMMA ParameterGroupDeleted ==
  ASSUME Inv, TypeOK', NEW r \in Requests, Moves(r, "deletePG"),
         pc'[r] = "idle",
         Sets(pg', pg, inst[r], "absent"),
         \/ opdata' = opdata
         \/ Sets(opdata', opdata, inst[r], "none"),
         UNCHANGED <<secret, rg, promised>>
  PROVE  Inv'
<1> inst[r] \in Instances
  BY DEF Inv, TypeOK, CallTypeOK, Moves
<1> USE DEF Inv, Sets
<1> /\ ~Exists(rg[inst[r]]) /\ secret[inst[r]].state = "scheduled"
  BY DEF PollersHarmless, At, Moves, LastOperationCalls
<1>1. TokenAgreement'
  BY DEF TokenAgreement, Exists
<1>2. PromiseKept'
  BY DEF PromiseKept, Exists
<1>3. DeprovisionSettled'
  BY DEF DeprovisionSettled
<1>4. SoleOwner'
  BY MovesAt DEF SoleOwner, OwnerCalls
<1>5. GroupNeedsParameters'
  BY DEF GroupNeedsParameters, Exists
<1>6. ParameterGroupIsLock'
  BY MovesAt DEF ParameterGroupIsLock, PollersHarmless, WaitingCalls, Exists,
         LastOperationCalls
<1>7. LostSecretStaysLost'
  BY MovesAt DEF LostSecretStaysLost, PollersHarmless, WaitingCalls,
         LastOperationCalls, Exists
<1>8. OwnerReady'
  BY MovesAt DEF OwnerReady, Exists
<1>9. BindSeesItsToken'
  BY MovesAt DEF BindSeesItsToken
<1>10. DeletersHarmless'
  BY MovesAt DEF DeletersHarmless
<1>11. PollersHarmless'
  BY MovesAt DEF PollersHarmless, LastOperationCalls, Exists
<1> QED BY <1>1, <1>2, <1>3, <1>4, <1>5, <1>6,
           <1>7, <1>8, <1>9, <1>10, <1>11

\* A Bind finds the group.
LEMMA EndpointSeen ==
  ASSUME Inv, TypeOK', NEW r \in Requests, Moves(r, "bindDescribe"),
         pc'[r] = "bindSecret",
         token'[r] = rg[inst[r]].token,
         Exists(rg[inst[r]]),
         UNCHANGED <<pg, secret, rg, opdata, promised>>
  PROVE  Inv'
<1> inst[r] \in Instances
  BY DEF Inv, TypeOK, CallTypeOK, Moves
<1> USE DEF Inv, Sets
<1>1. TokenAgreement'
  BY DEF TokenAgreement, Exists
<1>2. PromiseKept'
  BY DEF PromiseKept, Exists
<1>3. DeprovisionSettled'
  BY DEF DeprovisionSettled
<1>4. SoleOwner'
  BY MovesAt DEF SoleOwner, OwnerCalls
<1>5. GroupNeedsParameters'
  BY DEF GroupNeedsParameters, Exists
<1>6. ParameterGroupIsLock'
  BY MovesAt DEF ParameterGroupIsLock, WaitingCalls, Exists
<1>7. LostSecretStaysLost'
  BY MovesAt DEF LostSecretStaysLost, GroupNeedsParameters,
                 ParameterGroupIsLock, WaitingCalls, Exists
<1>8. OwnerReady'
  BY MovesAt DEF OwnerReady, Exists
<1>9. BindSeesItsToken'
  BY MovesAt DEF BindSeesItsToken, TokenAgreement, Exists
<1>10. DeletersHarmless'
  BY MovesAt DEF DeletersHarmless
<1>11. PollersHarmless'
  BY MovesAt DEF PollersHarmless, LastOperationCalls, Exists
<1> QED BY <1>1, <1>2, <1>3, <1>4, <1>5, <1>6,
           <1>7, <1>8, <1>9, <1>10, <1>11

-----------------------------------------------------------------------------
(***************************************************************************)
(* What AWS does by itself moves no request.                               *)
(***************************************************************************)
\* No request moves and the platform is not told anything.
Stays == UNCHANGED <<pc, inst, token, action, opdata, promised>>

LEMMA StaysAt ==
  ASSUME Stays, NEW q \in Requests, NEW j, NEW c
  PROVE  /\ At(q, j, c)' <=> At(q, j, c)
         /\ token'[q] = token[q] /\ action'[q] = action[q] /\ pc'[q] = pc[q]
  BY DEF Stays, At

\* A group that is neither missing nor being deleted changes its status.
LEMMA StatusChanged ==
  ASSUME Inv, TypeOK', Stays, NEW i \in Instances, NEW status,
         rg[i].status \notin {"none", "deleting"},
         status \notin {"none", "deleting"},
         Sets(rg', rg, i, [status |-> status, token |-> rg[i].token]),
         UNCHANGED <<pg, secret>>
  PROVE  Inv'
<1> USE StaysAt DEF Inv, Sets
<1>1. TokenAgreement'
  BY DEF TokenAgreement, Exists
<1>2. PromiseKept'
  BY DEF PromiseKept, Stays, Exists
<1>3. DeprovisionSettled'
  BY DEF DeprovisionSettled, Stays, Exists
<1>4. SoleOwner'
  BY DEF SoleOwner, Exists
<1>5. GroupNeedsParameters'
  BY DEF GroupNeedsParameters, Exists
<1>6. ParameterGroupIsLock'
  BY DEF ParameterGroupIsLock, Exists
<1>7. LostSecretStaysLost'
  BY DEF LostSecretStaysLost, Exists
<1>8. OwnerReady'
  BY DEF OwnerReady, Stays, Exists
<1>9. BindSeesItsToken'
  BY DEF BindSeesItsToken, Exists
<1>10. DeletersHarmless'
  BY DEF DeletersHarmless, Stays, Exists
<1>11. PollersHarmless'
  BY DEF PollersHarmless, Exists
<1> QED BY <1>1, <1>2, <1>3, <1>4, <1>5, <1>6,
           <1>7, <1>8, <1>9, <1>10, <1>11

\* A group that is being deleted is gone.
LEMMA GroupGone ==
  ASSUME Inv, TypeOK', Stays, NEW i \in Instances,
         rg[i].status = "deleting", Sets(rg', rg, i, NoReplicationGroup),
         UNCHANGED <<pg, secret>>
  PROVE  Inv'
<1> USE StaysAt DEF Inv, Sets, NoReplicationGroup
<1>1. TokenAgreement'
  BY DEF TokenAgreement, Exists
<1>2. PromiseKept'
  BY DEF PromiseKept, Stays, Exists
<1>3. DeprovisionSettled'
  BY DEF DeprovisionSettled, Stays, Exists
<1>4. SoleOwner'
  BY DEF SoleOwner, Exists
<1>5. GroupNeedsParameters'
  BY DEF GroupNeedsParameters, Exists
<1>6. ParameterGroupIsLock'
  BY DEF ParameterGroupIsLock, Exists
<1>7. LostSecretStaysLost'
  BY DEF LostSecretStaysLost, Exists
<1>8. OwnerReady'
  BY DEF OwnerReady, Stays, Exists
<1>9. BindSeesItsToken'
  BY DEF BindSeesItsToken, Exists
<1>10. DeletersHarmless'
  BY DEF DeletersHarmless, Stays, Exists
<1>11. PollersHarmless'
  BY DEF PollersHarmless, Exists
<1> QED BY <1>1, <1>2, <1>3, <1>4, <1>5, <1>6,
           <1>7, <1>8, <1>9, <1>10, <1>11

\* A secret is purged while no request and no deletion of its instance runs.
LEMMA SecretPurged ==
  ASSUME Inv, TypeOK', Stays, NEW i \in Instances,
         secret[i].state = "scheduled", opdata[i] # "deprovisioning",
         \A q \in Requests : pc[q] # "idle" => inst[q] # i,
         Sets(secret', secret, i, NoSecret), UNCHANGED <<pg, rg>>
  PROVE  Inv'
<1>1. \A q \in Requests, c \in SUBSET Calls : ~At(q, i, c)
  BY DEF At, Calls, ProvisionCalls, DeprovisionCalls, LastOperationCalls,
         BindCalls
<1>2. /\ OwnerCalls \subseteq Calls /\ WaitingCalls \subseteq Calls
      /\ LastOperationCalls \subseteq Calls
      /\ \A c \in {"createRG", "undoPG", "undoSecret", "deleteSecret",
                   "bindSecret", "deletePG"} : c \in Calls
  BY DEF OwnerCalls, WaitingCalls, Calls, ProvisionCalls, DeprovisionCalls,
         LastOperationCalls, BindCalls
<1> USE <1>1, <1>2, StaysAt DEF Inv, Sets, NoSecret
<1>3. TokenAgreement'
  BY DEF TokenAgreement
<1>4. PromiseKept'
  BY DEF PromiseKept, Stays
<1>5. DeprovisionSettled'
  BY DEF DeprovisionSettled, Stays
<1>6. SoleOwner'
  BY DEF SoleOwner
<1>7. GroupNeedsParameters'
  BY DEF GroupNeedsParameters
<1>8. ParameterGroupIsLock'
  BY DEF ParameterGroupIsLock
<1>9. LostSecretStaysLost'
  BY DEF LostSecretStaysLost
<1>10. OwnerReady'
  BY DEF OwnerReady, Stays
<1>11. BindSeesItsToken'
  BY DEF BindSeesItsToken
<1>12. DeletersHarmless'
  BY DEF DeletersHarmless, Stays
<1>13. PollersHarmless'
  BY DEF PollersHarmless
<1> QED BY <1>3, <1>4, <1>5, <1>6, <1>7, <1>8,
           <1>9, <1>10, <1>11, <1>12, <1>13

LEMMA BackgroundSafe ==
  ASSUME Inv, TypeOK', NEW i \in Instances, Background(i)
  PROVE  Inv'
<1>1. Stays
  BY DEF Background, CreationEnds, Snapshot, DeletionEnds, PurgeSecret, Stays,
         callVars, platformVars
<1>2. rg \in [Instances -> ReplicationGroups] /\ secret \in [Instances -> Secrets]
  BY DEF Inv, TypeOK, AwsTypeOK
<1>3. CASE CreationEnds(i)
  <2>1. PICK s \in {"available", "create-failed"} :
            rg' = [rg EXCEPT ![i].status = s]
    BY <1>3 DEF CreationEnds
  <2>2. Sets(rg', rg, i, [status |-> s, token |-> rg[i].token])
    BY <1>2, <1>3, <2>1, StatusSets DEF CreationEnds, Exists
  <2> QED BY <1>1, <1>3, <2>2, StatusChanged DEF CreationEnds
<1>4. CASE Snapshot(i)
  <2>1. PICK s \in {"available", "snapshotting"} :
            rg' = [rg EXCEPT ![i].status = s]
    BY <1>4 DEF Snapshot
  <2>2. Sets(rg', rg, i, [status |-> s, token |-> rg[i].token])
    BY <1>2, <1>4, <2>1, StatusSets DEF Snapshot, Exists
  <2> QED BY <1>1, <1>4, <2>2, StatusChanged DEF Snapshot
<1>5. CASE DeletionEnds(i)
  <2>1. Sets(rg', rg, i, NoReplicationGroup)
    BY <1>2, <1>5 DEF Sets, DeletionEnds
  <2> QED BY <1>1, <1>5, <2>1, GroupGone DEF DeletionEnds
<1>6. CASE PurgeSecret(i)
  <2>1. Sets(secret', secret, i, NoSecret)
    BY <1>2, <1>6 DEF Sets, PurgeSecret
  <2> QED BY <1>1, <1>6, <2>1, SecretPurged DEF PurgeSecret
<1> QED BY <1>3, <1>4, <1>5, <1>6 DEF Background
-----------------------------------------------------------------------------
(***************************************************************************)
(* The handlers.                                                           *)
(***************************************************************************)
LEMMA BeginSafe ==
  ASSUME Inv, TypeOK', NEW r \in Requests, NEW i \in Instances, Begin(r, i)
  PROVE  Inv'
<1>1. PICK first \in {"createPG", "deleteRG", "describe", "bindDescribe"},
           act \in {"none", opdata[i]} : Enter(r, i, first, act)
                                         /\ (first # "describe" => act = "none")
  BY DEF Begin, Provision, Deprovision, LastOperation, Bind
<1>2. /\ UNCHANGED <<awsVars, opdata>> /\ promised' \subseteq promised
  BY DEF Begin, Provision, Deprovision, LastOperation, Bind, awsVars,
         platformVars
<1>3. /\ Others(r)
      /\ pc'[r] = first /\ inst'[r] = i /\ action'[r] = act
  BY <1>1, EnterEffect DEF Inv, TypeOK
<1>4. act = "deprovisioning" => secret[i].state = "scheduled"
  BY DEF Inv, DeprovisionSettled
<1>5. Neutral(r)
  BY <1>3, <1>4 DEF Neutral
<1> QED BY <1>2, <1>3, <1>5, Quiet DEF Others

\* A handler that answers without a change of a resource.
LEMMA AnswerSafe ==
  ASSUME Inv, TypeOK', NEW r \in Requests, Moves(r, pc[r]), pc'[r] = "idle",
         UNCHANGED awsVars, promised' \subseteq promised,
         \A j \in Instances : opdata'[j] \in {opdata[j], "none"}
  PROVE  Inv'
<1>1. Neutral(r)
  BY DEF Neutral
<1> QED BY <1>1, Quiet DEF Moves, Others

\* A handler that fails without a change of a resource.
LEMMA FailureSafe ==
  ASSUME Inv, TypeOK', NEW r \in Requests, Fails(r), UNCHANGED awsVars,
         UNCHANGED platformVars
  PROVE  Inv'
<1>1. Moves(r, pc[r]) /\ pc'[r] = "idle"
  BY FailsEffect DEF Inv, TypeOK
<1> QED BY <1>1, AnswerSafe DEF platformVars

\* The instance of a request in flight, and the kinds of the resources.
LEMMA InFlight ==
  ASSUME Inv, NEW r \in Requests, pc[r] # "idle"
  PROVE  /\ inst[r] \in Instances
         /\ pg \in [Instances -> ParameterGroups]
         /\ secret \in [Instances -> Secrets]
         /\ rg \in [Instances -> ReplicationGroups]
         /\ opdata \in [Instances -> Actions]
         /\ CallTypeOK
  BY DEF Inv, TypeOK, AwsTypeOK, CallTypeOK, PlatformTypeOK

LEMMA CreateCacheParameterGroupSafe ==
  ASSUME Inv, TypeOK', NEW r \in Requests, CreateCacheParameterGroup(r)
  PROVE  Inv'
<1> USE DEF CreateCacheParameterGroup
<1>1. CASE UNCHANGED pg /\ Fails(r)
  BY <1>1, FailureSafe DEF awsVars, platformVars
<1>2. CASE /\ AcceptsCreateParameterGroup(pg[inst[r]])
           /\ pg' = [pg EXCEPT ![inst[r]] = "default"]
           /\ Goto(r, "modifyPG", NoToken) \/ Fails(r)
  <2>1. Moves(r, "createPG") /\ pc'[r] \in {"modifyPG", "idle"}
    BY <1>2, InFlight, GotoEffect, FailsEffect
  <2>2. Sets(pg', pg, inst[r], "default")
    BY <1>2, InFlight DEF Sets
  <2> QED BY <1>2, <2>1, <2>2, ParameterGroupCreated
             DEF AcceptsCreateParameterGroup, platformVars
<1> QED BY <1>1, <1>2

LEMMA ModifyCacheParameterGroupSafe ==
  ASSUME Inv, TypeOK', NEW r \in Requests, ModifyCacheParameterGroup(r)
  PROVE  Inv'
<1> USE DEF ModifyCacheParameterGroup
<1>1. CASE UNCHANGED pg /\ Fails(r)
  BY <1>1, FailureSafe DEF awsVars, platformVars
<1>2. CASE /\ AcceptsModifyParameterGroup(pg[inst[r]])
           /\ pg' = [pg EXCEPT ![inst[r]] = "set"]
           /\ Goto(r, "createSecret", NoToken) \/ Fails(r)
  <2>1. Moves(r, "modifyPG") /\ pc'[r] \in {"createSecret", "idle"}
    BY <1>2, InFlight, GotoEffect, FailsEffect
  <2>2. Sets(pg', pg, inst[r], "set")
    BY <1>2, InFlight DEF Sets
  <2> QED BY <1>2, <2>1, <2>2, ParameterGroupSet
             DEF AcceptsModifyParameterGroup, platformVars
<1> QED BY <1>1, <1>2

LEMMA CreateAuthTokenSecretSafe ==
  ASSUME Inv, TypeOK', NEW r \in Requests, CreateAuthTokenSecret(r)
  PROVE  Inv'
<1> USE DEF CreateAuthTokenSecret
<1>1. CASE UNCHANGED secret /\ Fails(r)
  BY <1>1, FailureSafe DEF awsVars, platformVars
<1>2. ASSUME NEW t \in Tokens, AcceptsCreateSecret(secret[inst[r]]),
             secret' = [secret EXCEPT ![inst[r]] =
                            [state |-> "active", token |-> t]],
             Goto(r, "createRG", t) \/ Fails(r)
      PROVE  Inv'
  <2>1. /\ Moves(r, "createSecret") /\ pc'[r] \in {"createRG", "idle"}
        /\ pc'[r] = "createRG" => token'[r] = t
    BY <1>2, InFlight, GotoEffect, FailsEffect
  <2>2. Sets(secret', secret, inst[r], [state |-> "active", token |-> t])
    BY <1>2, InFlight DEF Sets
  <2> QED BY <1>2, <2>1, <2>2, SecretCreated
             DEF AcceptsCreateSecret, platformVars
<1> QED BY <1>1, <1>2

LEMMA CreateReplicationGroupSafe ==
  ASSUME Inv, TypeOK', NEW r \in Requests, CreateReplicationGroup(r)
  PROVE  Inv'
<1> USE DEF CreateReplicationGroup
<1>1. CASE Goto(r, "undoPG", token[r])
  <2>1. /\ Moves(r, "createRG") /\ pc'[r] = "undoPG" /\ token'[r] = token[r]
    BY <1>1, InFlight, GotoEffect
  <2>2. CASE UNCHANGED rg
    <3>1. UNCHANGED <<opdata, promised>>
      BY <1>1, <2>1, InFlight, ReturnEffect DEF platformVars
    <3> QED BY <2>1, <2>2, <3>1, GroupRefused
  <2>3. CASE rg' = [rg EXCEPT ![inst[r]] =
                        [status |-> "creating", token |-> token[r]]]
    <3>1. UNCHANGED <<opdata, promised>>
      BY <1>1, <2>1, InFlight, ReturnEffect DEF platformVars
    <3>2. Sets(rg', rg, inst[r], [status |-> "creating", token |-> token[r]])
      BY <2>3, InFlight DEF Sets
    <3> QED BY <2>1, <3>1, <3>2, GroupAnswerLost
  <2> QED BY <2>2, <2>3
<1>2. CASE /\ rg' = [rg EXCEPT ![inst[r]] =
                        [status |-> "creating", token |-> token[r]]]
           /\ Return(r, "accepted", NoToken)
           /\ opdata' = [opdata EXCEPT ![inst[r]] = "provisioning"]
           /\ promised' = promised \cup {inst[r]}
  <2>1. Moves(r, "createRG") /\ pc'[r] = "idle"
    BY <1>2, InFlight, ReturnEffect
  <2>2. /\ Sets(rg', rg, inst[r], [status |-> "creating", token |-> token[r]])
        /\ Sets(opdata', opdata, inst[r], "provisioning")
    BY <1>2, InFlight DEF Sets
  <2> QED BY <1>2, <2>1, <2>2, GroupAccepted
<1> QED BY <1>1, <1>2

LEMMA UndoParameterGroupSafe ==
  ASSUME Inv, TypeOK', NEW r \in Requests, UndoParameterGroup(r)
  PROVE  Inv'
<1> USE DEF UndoParameterGroup
<1>1. /\ Moves(r, "undoPG") /\ pc'[r] = "undoSecret" /\ token'[r] = token[r]
  BY InFlight, GotoEffect
<1>2. CASE UNCHANGED pg
  BY <1>1, <1>2, ParameterGroupKept DEF platformVars
<1>3. CASE /\ AcceptsDeleteParameterGroup(pg[inst[r]], rg[inst[r]])
           /\ pg' = [pg EXCEPT ![inst[r]] = "absent"]
  <2>1. Sets(pg', pg, inst[r], "absent")
    BY <1>3, InFlight DEF Sets
  <2> QED BY <1>1, <1>3, <2>1, ParameterGroupUndone
             DEF AcceptsDeleteParameterGroup, platformVars
<1> QED BY <1>2, <1>3

LEMMA UndoAuthTokenSecretSafe ==
  ASSUME Inv, TypeOK', NEW r \in Requests, UndoAuthTokenSecret(r)
  PROVE  Inv'
<1> USE DEF UndoAuthTokenSecret
<1>1. CASE UNCHANGED secret
  BY <1>1, FailureSafe DEF awsVars, platformVars
<1>2. CASE /\ AcceptsDeleteSecret(secret[inst[r]])
           /\ secret' = [secret EXCEPT ![inst[r]].state = "scheduled"]
  <2>1. Moves(r, "undoSecret") /\ pc'[r] = "idle"
    BY InFlight, FailsEffect
  <2>2. Sets(secret', secret, inst[r], [state |-> "scheduled",
                            token |-> secret[inst[r]].token])
    BY <1>2, InFlight, ScheduledSets
  <2> QED BY <1>2, <2>1, <2>2, SecretUndone
             DEF AcceptsDeleteSecret, platformVars
<1> QED BY <1>1, <1>2

LEMMA DeleteReplicationGroupSafe ==
  ASSUME Inv, TypeOK', NEW r \in Requests, DeleteReplicationGroup(r)
  PROVE  Inv'
<1> USE DEF DeleteReplicationGroup
<1>1. CASE Fails(r) /\ UNCHANGED <<rg, promised>>
  BY <1>1, FailureSafe DEF awsVars, platformVars
<1>2. CASE /\ AcceptsDeleteReplicationGroup(rg[inst[r]])
           /\ rg' = [rg EXCEPT ![inst[r]].status = "deleting"]
           /\ promised' = promised \ {inst[r]}
           /\ Goto(r, "deleteSecret", NoToken) \/ Fails(r)
  <2>1. Moves(r, "deleteRG") /\ pc'[r] \in {"deleteSecret", "idle"}
    BY <1>2, InFlight, GotoEffect, FailsEffect
  <2>2. Sets(rg', rg, inst[r], [status |-> "deleting",
                                token |-> rg[inst[r]].token])
    BY <1>2, InFlight, StatusSets
       DEF Exists, AcceptsDeleteReplicationGroup
  <2> QED BY <1>2, <2>1, <2>2, GroupDeleted
<1> QED BY <1>1, <1>2

LEMMA DeleteAuthTokenSecretSafe ==
  ASSUME Inv, TypeOK', NEW r \in Requests, DeleteAuthTokenSecret(r)
  PROVE  Inv'
<1> USE DEF DeleteAuthTokenSecret
<1>1. CASE Fails(r) /\ UNCHANGED <<secret, opdata>>
  BY <1>1, FailureSafe DEF awsVars, platformVars
<1>2. CASE /\ AcceptsDeleteSecret(secret[inst[r]])
           /\ secret' = [secret EXCEPT ![inst[r]].state = "scheduled"]
           /\ \/ /\ Return(r, "accepted", NoToken)
                 /\ opdata' = [opdata EXCEPT ![inst[r]] = "deprovisioning"]
              \/ Fails(r) /\ UNCHANGED opdata
  <2>1. Moves(r, "deleteSecret") /\ pc'[r] = "idle"
    BY <1>2, InFlight, ReturnEffect, FailsEffect
  <2>2. Sets(secret', secret, inst[r], [state |-> "scheduled",
                            token |-> secret[inst[r]].token])
    BY <1>2, InFlight, ScheduledSets
  <2>3. opdata' = opdata \/ Sets(opdata', opdata, inst[r], "deprovisioning")
    BY <1>2, InFlight DEF Sets
  <2> QED BY <1>2, <2>1, <2>2, <2>3, SecretDeleted DEF AcceptsDeleteSecret
<1> QED BY <1>1, <1>2

\* A 410 changes the operation of one instance at most.
LEMMA GoneEffect ==
  ASSUME Inv, NEW r \in Requests, pc[r] # "idle", Gone(r)
  PROVE  /\ Moves(r, pc[r]) /\ pc'[r] = "idle"
         /\ opdata' = opdata \/ Sets(opdata', opdata, inst[r], "none")
  BY InFlight, ReturnEffect DEF Gone, Sets

LEMMA ProgressStateSafe ==
  ASSUME Inv, TypeOK', NEW r \in Requests, ProgressState(r)
  PROVE  Inv'
<1> USE DEF ProgressState
<1>1. CASE Goto(r, "deletePG", NoToken)
  <2>1. /\ Moves(r, "describe") /\ pc'[r] = "deletePG"
        /\ action'[r] = action[r]
    BY <1>1, InFlight, GotoEffect
  <2>2. /\ action[r] = "deprovisioning" /\ ~Exists(rg[inst[r]])
        /\ UNCHANGED <<pg, secret, rg, opdata, promised>>
    BY <1>1, <2>1, InFlight, ReturnEffect, FailsEffect
       DEF Gone, awsVars
  <2> QED BY <2>1, <2>2, DeletionSeen
<1>2. CASE Gone(r)
  BY <1>2, GoneEffect, AnswerSafe DEF Sets
<1>3. CASE Return(r, ProviderStatesMapping(rg[inst[r]].status), NoToken)
           /\ UNCHANGED opdata
  BY <1>3, InFlight, ReturnEffect, AnswerSafe
<1>4. CASE Fails(r) /\ UNCHANGED opdata
  BY <1>4, FailureSafe DEF platformVars
<1> QED BY <1>1, <1>2, <1>3, <1>4

LEMMA DeleteCacheParameterGroupSafe ==
  ASSUME Inv, TypeOK', NEW r \in Requests, DeleteCacheParameterGroup(r)
  PROVE  Inv'
<1> USE DEF DeleteCacheParameterGroup
<1>1. CASE UNCHANGED pg
  <2>1. CASE Gone(r)
    BY <1>1, <2>1, GoneEffect, AnswerSafe DEF Sets, awsVars
  <2>2. CASE Fails(r) /\ UNCHANGED opdata
    BY <1>1, <2>2, FailureSafe DEF awsVars, platformVars
  <2> QED BY <2>1, <2>2
<1>2. CASE pg' = [pg EXCEPT ![inst[r]] = "absent"]
  <2>1. /\ Moves(r, "deletePG") /\ pc'[r] = "idle"
        /\ opdata' = opdata \/ Sets(opdata', opdata, inst[r], "none")
    BY InFlight, GoneEffect, FailsEffect
  <2>2. Sets(pg', pg, inst[r], "absent")
    BY <1>2, InFlight DEF Sets
  <2> QED BY <2>1, <2>2, ParameterGroupDeleted
<1> QED BY <1>1, <1>2

LEMMA DescribeForCredentialsSafe ==
  ASSUME Inv, TypeOK', NEW r \in Requests, DescribeForCredentials(r)
  PROVE  Inv'
<1> USE DEF DescribeForCredentials
<1>1. CASE Exists(rg[inst[r]]) /\ Goto(r, "bindSecret", rg[inst[r]].token)
  <2>1. /\ Moves(r, "bindDescribe") /\ pc'[r] = "bindSecret"
        /\ token'[r] = rg[inst[r]].token
    BY <1>1, InFlight, GotoEffect
  <2> QED BY <1>1, <2>1, EndpointSeen DEF awsVars, platformVars
<1>2. CASE Return(r, "dropped", NoToken)
  BY <1>2, InFlight, ReturnEffect, AnswerSafe DEF platformVars
<1>3. CASE Fails(r)
  BY <1>3, FailureSafe
<1> QED BY <1>1, <1>2, <1>3

LEMMA GetAuthTokenSafe ==
  ASSUME Inv, TypeOK', NEW r \in Requests, GetAuthToken(r)
  PROVE  Inv'
<1> USE DEF GetAuthToken
<1>1. CASE Return(r, "credentials", secret[inst[r]].token)
  BY <1>1, InFlight, ReturnEffect, AnswerSafe DEF platformVars
<1>2. CASE Fails(r)
  BY <1>2, FailureSafe
<1> QED BY <1>1, <1>2
-----------------------------------------------------------------------------
LEMMA SafetyInit == Init => Inv
<1> SUFFICES ASSUME Init PROVE Inv
  OBVIOUS
<1>1. TypeOK
  BY TypeInit
<1>2. \A i \in Instances, r \in Requests, c \in SUBSET Calls : ~At(r, i, c)
  BY DEF Init, At, Calls, ProvisionCalls, DeprovisionCalls,
         LastOperationCalls, BindCalls
<1>3. \A r \in Requests : pc[r] = "idle"
  BY DEF Init
<1>4. TokenAgreement /\ PromiseKept /\ DeprovisionSettled
        /\ GroupNeedsParameters
  BY DEF Init, TokenAgreement, PromiseKept, DeprovisionSettled,
         GroupNeedsParameters, Exists, NoReplicationGroup, NoSecret
<1>5. SoleOwner /\ ParameterGroupIsLock /\ LostSecretStaysLost
  BY <1>3 DEF SoleOwner, ParameterGroupIsLock, LostSecretStaysLost, At,
              OwnerCalls, WaitingCalls
<1>6. OwnerReady /\ BindSeesItsToken /\ DeletersHarmless /\ PollersHarmless
  BY <1>3 DEF OwnerReady, BindSeesItsToken, DeletersHarmless,
              PollersHarmless, At, LastOperationCalls
<1> QED BY <1>1, <1>4, <1>5, <1>6 DEF Inv

LEMMA SafetyStep == Inv /\ [Next]_vars => Inv'
<1> SUFFICES ASSUME Inv, [Next]_vars PROVE Inv'
  OBVIOUS
<1>1. TypeOK'
  BY TypeStep DEF Inv
<1>2. ASSUME NEW r \in Requests, NEW i \in Instances, Begin(r, i)
      PROVE  Inv'
  BY <1>1, <1>2, BeginSafe
<1>3. ASSUME NEW r \in Requests, Call(r)
      PROVE  Inv'
  BY <1>1, <1>3, CreateCacheParameterGroupSafe, ModifyCacheParameterGroupSafe,
     CreateAuthTokenSecretSafe, CreateReplicationGroupSafe,
     UndoParameterGroupSafe, UndoAuthTokenSecretSafe,
     DeleteReplicationGroupSafe, DeleteAuthTokenSecretSafe,
     ProgressStateSafe, DeleteCacheParameterGroupSafe,
     DescribeForCredentialsSafe, GetAuthTokenSafe DEF Call
<1>4. ASSUME NEW r \in Requests, ContextEnds(r)
      PROVE  Inv'
  BY <1>1, <1>4, Quiet DEF ContextEnds, Same, platformVars
<1>5. CASE Crash
  <2>1. \A q \in Requests : Neutral(q)
    BY <1>5 DEF Crash, Neutral
  <2> QED BY <1>1, <1>5, <2>1, Quiet DEF Crash, platformVars
<1>6. ASSUME NEW i \in Instances, Background(i)
      PROVE  Inv'
  BY <1>1, <1>6, BackgroundSafe
<1>7. CASE UNCHANGED vars
  BY <1>1, <1>7, Quiet DEF vars, awsVars, Same
<1> QED BY <1>2, <1>3, <1>4, <1>5, <1>6, <1>7 DEF Next

(* Whatever requests run concurrently, fail, lose answers or die, at every *)
(* position of a request the stored resources are as Inv says.             *)
THEOREM Safety == Spec => []Inv
  BY SafetyInit, SafetyStep, PTL DEF Spec

(* A stored password always opens the group of that name.                  *)
THEOREM TokensAgree == Spec => []TokenAgreement
<1>1. Inv => TokenAgreement
  BY DEF Inv
<1> QED BY <1>1, Safety, PTL

(* An accepted creation is not undone before its deletion is asked for.    *)
THEOREM PromisesKept == Spec => []PromiseKept
<1>1. Inv => PromiseKept
  BY DEF Inv
<1> QED BY <1>1, Safety, PTL

(* An accepted deletion is not undone while the platform polls it.         *)
THEOREM DeprovisionsSettled == Spec => []DeprovisionSettled
<1>1. Inv => DeprovisionSettled
  BY DEF Inv
<1> QED BY <1>1, Safety, PTL

(* At most one Provision of an instance is past the creation of the        *)
(* secret, and the secret is the one it created.                           *)
THEOREM OwnerIsSole == Spec => []SoleOwner
<1>1. Inv => SoleOwner
  BY DEF Inv
<1> QED BY <1>1, Safety, PTL

-----------------------------------------------------------------------------
\* Only its own last step takes a request from deletePG to a 410.
LEMMA GoneStep ==
  ASSUME Inv, [Next]_vars, NEW r \in Requests, pc[r] = "deletePG",
         pc'[r] = "idle", reply'[r] = "gone"
  PROVE  /\ pg'[inst[r]] = "absent"
         /\ ~Exists(rg'[inst[r]])
         /\ secret'[inst[r]].state # "active"
<1> USE DEF Inv
<1>1. /\ inst[r] \in Instances /\ CallTypeOK
      /\ pg \in [Instances -> ParameterGroups]
  BY InFlight
<1>2. ~Exists(rg[inst[r]]) /\ secret[inst[r]].state = "scheduled"
  BY <1>1 DEF PollersHarmless, At, LastOperationCalls
<1>3. ASSUME NEW q \in Requests \ {r}, Call(q)
      PROVE  FALSE
  <2>1. pc'[r] = pc[r]
    BY <1>1, <1>3 DEF Call, CreateCacheParameterGroup,
       ModifyCacheParameterGroup, CreateAuthTokenSecret,
       CreateReplicationGroup, UndoParameterGroup, UndoAuthTokenSecret,
       DeleteReplicationGroup, DeleteAuthTokenSecret, ProgressState,
       DeleteCacheParameterGroup, DescribeForCredentials, GetAuthToken,
       Goto, Return, Fails, Gone, CallTypeOK
  <2> QED BY <2>1
<1>4. ASSUME Call(r)
      PROVE  DeleteCacheParameterGroup(r)
  BY <1>4 DEF Call, CreateCacheParameterGroup, ModifyCacheParameterGroup,
     CreateAuthTokenSecret, CreateReplicationGroup, UndoParameterGroup,
     UndoAuthTokenSecret, DeleteReplicationGroup, DeleteAuthTokenSecret,
     ProgressState, DescribeForCredentials, GetAuthToken
<1>5. ASSUME NEW q \in Requests, NEW i \in Instances, Begin(q, i)
      PROVE  FALSE
  BY <1>1, <1>5 DEF Begin, Provision, Deprovision, LastOperation, Bind,
                    Enter, CallTypeOK
<1>6. ~Crash
  BY <1>1 DEF Crash, CallTypeOK
<1>7. ASSUME NEW q \in Requests, ContextEnds(q)
      PROVE  FALSE
  BY <1>7 DEF ContextEnds
<1>8. ASSUME NEW i \in Instances, Background(i)
      PROVE  FALSE
  BY <1>8 DEF Background, CreationEnds, Snapshot, DeletionEnds, PurgeSecret,
              callVars
<1>9. ~UNCHANGED vars
  BY DEF vars
<1>10. DeleteCacheParameterGroup(r)
  BY <1>3, <1>4, <1>5, <1>6, <1>7, <1>8, <1>9 DEF Next
<1>11. reply'[r] = "gone" => ~Fails(r)
  BY <1>1 DEF Fails, Return, CallTypeOK
<1> QED BY <1>1, <1>2, <1>10, <1>11 DEF DeleteCacheParameterGroup

(* A 410 for a deletion says the truth: no group, no parameter group and   *)
(* no readable secret is left.                                             *)
THEOREM GoneIsGone == Spec => GoneMeansGone
<1>1. Inv /\ [Next]_vars =>
        [\A r \in Requests :
            pc[r] = "deletePG" /\ pc'[r] = "idle" /\ reply'[r] = "gone" =>
                /\ pg'[inst[r]] = "absent"
                /\ ~Exists(rg'[inst[r]])
                /\ secret'[inst[r]].state # "active"]_vars
  BY GoneStep
<1> QED BY <1>1, Safety, PTL DEF Spec, GoneMeansGone
=============================================================================
