---------------------------- MODULE Provisioner ----------------------------
(***************************************************************************)
(* KeycloakProvisioner.provision (keycloak.py 42-49, 121-150): the         *)
(* declared resources are ensured one after the other, and a failure is    *)
(* noted and passed over.  Several provisioners may run against one        *)
(* Keycloak at a time, and each may be run again.                          *)
(*                                                                         *)
(* The admin client is the caller's and Keycloak is behind it; both are    *)
(* the environment.  An ensure_* call looks a resource up, acts on what it *)
(* saw, and may fail before or after it had its effect.                    *)
(***************************************************************************)
EXTENDS Naturals, Sequences, FiniteSets

CONSTANTS
  Provisioners, \* provisioners that may run
  DryRuns,      \* those with provisioning_dry_run
  Realm, Client,
  RealmRoles,   \* the lists config.realm_roles and config.client_roles, in
  ClientRoles,  \* which a role may be declared twice
  MaxRuns,      \* bound of the model on the runs of one provisioner
  MaxDrift      \* bound of the model on the changes others make

(* The operations of a run, in order.                                      *)
Operations == <<Realm, Client>> \o RealmRoles \o ClientRoles
Positions  == 1..Len(Operations)
Items      == {Operations[i] : i \in Positions}

ASSUME DeclarationAssumption ==
  /\ DryRuns \subseteq Provisioners
  /\ RealmRoles \in Seq(Items) /\ ClientRoles \in Seq(Items)
  /\ MaxRuns \in Nat /\ MaxDrift \in Nat

VARIABLES
  keycloak, \* what Keycloak holds of each declared item
  drift,    \* how often others have changed an item
  pc,       \* where each provisioner is
  next,     \* its loop variable
  seen,     \* what the admin client's look-up found
  result,   \* the ProvisioningResult
  runs,     \* how often it was run
  clean     \* known to the properties: what has held since the run began

vars == <<keycloak, drift, pc, next, seen, result, runs, clean>>

States  == {"absent", "stale", "current"}
Classes == {"created", "updated", "unchanged", "failed", "planned"}
Results == [Classes -> Seq(Items)]

NoResult == [c \in Classes |-> << >>]

(* A resource lives in its realm, a client role in its client as well.     *)
RoleOfClient(item) == \E i \in 1..Len(ClientRoles) : ClientRoles[i] = item
ParentExists(kc, item) ==
  /\ item # Realm => kc[Realm] # "absent"
  /\ RoleOfClient(item) => kc[Client] # "absent"

AllCurrent == \A item \in Items : keycloak[item] = "current"

Init ==
  /\ keycloak \in {kc \in [Items -> States] :
                     \A item \in Items : kc[item] # "absent" => ParentExists(kc, item)}
  /\ drift = 0
  /\ pc = [p \in Provisioners |-> "idle"]
  /\ next = [p \in Provisioners |-> 1]
  /\ seen = [p \in Provisioners |-> "absent"]
  /\ result = [p \in Provisioners |-> NoResult]
  /\ runs = [p \in Provisioners |-> 0]
  /\ clean = [p \in Provisioners |-> [drift |-> FALSE, work |-> FALSE]]

(* Somebody else changes a resource.                                       *)
Drift(item) ==
  /\ drift < MaxDrift
  /\ keycloak[item] = "current"
  /\ keycloak' = [keycloak EXCEPT ![item] = "stale"]
  /\ drift' = drift + 1
  /\ clean' = [p \in Provisioners |-> [drift |-> FALSE, work |-> FALSE]]
  /\ UNCHANGED <<pc, next, seen, result, runs>>

(***************************************************************************)
(* provision()                                                             *)
(***************************************************************************)

Goto(p, label) == pc' = [pc EXCEPT ![p] = label]

(* Slip: the loop starts before the first operation.                       *)
BeginBefore(p) ==
  /\ pc[p] \in {"idle", "done", "interrupted"} /\ runs[p] < MaxRuns
  /\ runs' = [runs EXCEPT ![p] = @ + 1]
  /\ clean' = [clean EXCEPT ![p] = [drift |-> TRUE, work |-> AllCurrent]]
  /\ next' = [next EXCEPT ![p] = 0]
  /\ seen' = [seen EXCEPT ![p] = "absent"]
  /\ UNCHANGED <<keycloak, drift>>

(* A call, the first one or after another one of the same provisioner.     *)
Begin(p) ==
  /\ pc[p] \in {"idle", "done", "interrupted"} /\ runs[p] < MaxRuns
  /\ runs' = [runs EXCEPT ![p] = @ + 1]
  /\ clean' = [clean EXCEPT ![p] = [drift |-> TRUE, work |-> AllCurrent]]
  /\ next' = [next EXCEPT ![p] = 1]
  /\ seen' = [seen EXCEPT ![p] = "absent"]
  /\ UNCHANGED <<keycloak, drift>>

Plan(p) ==
  /\ p \in DryRuns
  /\ Begin(p)
  /\ result' = [result EXCEPT ![p] = [NoResult EXCEPT !["planned"] = Operations]]
  /\ Goto(p, "done")

Start(p) ==
  /\ p \notin DryRuns
  /\ Begin(p)
  /\ result' = [result EXCEPT ![p] = NoResult]
  /\ Goto(p, "loop")

Item(p) == Operations[next[p]]

(* The operation is over, and its item goes into one of the lists.         *)
Record(p, class) ==
  /\ result' = [result EXCEPT ![p][class] = Append(@, Item(p))]
  /\ next' = [next EXCEPT ![p] = @ + 1]
  /\ Goto(p, "loop")
  /\ UNCHANGED <<drift, runs, clean>>

LookUp(p) ==
  /\ pc[p] = "loop" /\ next[p] <= Len(Operations)
  /\ seen' = [seen EXCEPT ![p] = keycloak[Item(p)]]
  /\ Goto(p, "ensuring")
  /\ UNCHANGED <<keycloak, drift, next, result, runs, clean>>

(* Keycloak creates what does not exist yet, and updates what does.        *)
CanApply(p) ==
  /\ ParentExists(keycloak, Item(p))
  /\ seen[p] = "absent" => keycloak[Item(p)] = "absent"

Apply(p) == keycloak' = [keycloak EXCEPT ![Item(p)] = "current"]

(* Slip: what is not created is an update.                                 *)
EnsureReturnsTwoWays(p) ==
  /\ pc[p] = "ensuring"
  /\ \/ seen[p] = "absent"  /\ CanApply(p) /\ Apply(p) /\ Record(p, "created")
     \/ seen[p] = "stale"   /\ CanApply(p) /\ Apply(p) /\ Record(p, "updated")
     \/ seen[p] = "current" /\ Record(p, "updated") /\ UNCHANGED keycloak
  /\ UNCHANGED seen

EnsureReturns(p) ==
  /\ pc[p] = "ensuring"
  /\ \/ seen[p] = "absent"  /\ CanApply(p) /\ Apply(p) /\ Record(p, "created")
     \/ seen[p] = "stale"   /\ CanApply(p) /\ Apply(p) /\ Record(p, "updated")
     \/ seen[p] = "current" /\ Record(p, "unchanged") /\ UNCHANGED keycloak
  /\ UNCHANGED seen

(* Slips: the first failure ends the run, a failure looks like no change.  *)
EnsureRaisesAndStops(p) ==
  /\ pc[p] = "ensuring"
  /\ result' = [result EXCEPT ![p]["failed"] = Append(@, Item(p))]
  /\ Goto(p, "done")
  /\ UNCHANGED <<keycloak, drift, next, seen, runs, clean>>

EnsureRaisesQuietly(p) ==
  /\ pc[p] = "ensuring"
  /\ Record(p, "unchanged")
  /\ UNCHANGED <<keycloak, seen>>

(* A call that does not return may have had its effect all the same.       *)
MayApply(p) == UNCHANGED keycloak \/ (seen[p] # "current" /\ CanApply(p) /\ Apply(p))

(* Keycloak refuses, cannot be reached, or the answer is lost after the    *)
(* fact.                                                                   *)
EnsureRaises(p) ==
  /\ pc[p] = "ensuring"
  /\ Record(p, "failed")
  /\ MayApply(p)
  /\ UNCHANGED seen

(* What "except Exception" lets through ends the run without a result.     *)
Interrupt(p) ==
  /\ pc[p] = "ensuring"
  /\ result' = [result EXCEPT ![p] = NoResult]
  /\ Goto(p, "interrupted")
  /\ MayApply(p)
  /\ UNCHANGED <<drift, next, seen, runs, clean>>

ReturnResult(p) ==
  /\ pc[p] = "loop" /\ next[p] > Len(Operations)
  /\ Goto(p, "done")
  /\ UNCHANGED <<keycloak, drift, next, seen, result, runs, clean>>

Continue(p) ==
  LookUp(p) \/ EnsureReturns(p) \/ EnsureRaises(p) \/ Interrupt(p) \/ ReturnResult(p)

Next ==
  \/ \E item \in Items : Drift(item)
  \/ \E p \in Provisioners : Plan(p) \/ Start(p) \/ Continue(p)

Spec == Init /\ [][Next]_vars

(***************************************************************************)
(* Properties.                                                             *)
(***************************************************************************)

TypeOK ==
  /\ keycloak \in [Items -> States]
  /\ drift \in 0..MaxDrift
  /\ pc \in [Provisioners -> {"idle", "loop", "ensuring", "done", "interrupted"}]
  /\ next \in [Provisioners -> 1..(Len(Operations) + 1)]
  /\ seen \in [Provisioners -> States]
  /\ result \in [Provisioners -> Results]
  /\ runs \in [Provisioners -> 0..MaxRuns]
  /\ clean \in [Provisioners -> [drift : BOOLEAN, work : BOOLEAN]]

Count(s, item) == Cardinality({i \in 1..Len(s) : s[i] = item})

Reported(p, item) ==
  Count(result[p]["created"], item) + Count(result[p]["updated"], item)
  + Count(result[p]["unchanged"], item) + Count(result[p]["failed"], item)

(* A finished run accounts for every declared resource, as often as it is  *)
(* declared, in one of the four lists, whatever failed on the way; a dry   *)
(* run plans them all and reports nothing else.  (keycloak.py 134-150)     *)
EveryItemIsReported ==
  \A p \in Provisioners : pc[p] = "done" =>
    IF p \in DryRuns THEN result[p] = [NoResult EXCEPT !["planned"] = Operations]
    ELSE \A item \in Items : Count(Operations, item) = Reported(p, item)

Failed(p) == {result[p]["failed"][i] : i \in 1..Len(result[p]["failed"])}

(* Every resource a run does not report as failed is what was declared,    *)
(* though other runs interleave and calls fail before or after their       *)
(* effect -- unless others changed something during the run.               *)
(* (keycloak.py 138-149)                                                   *)
ReportedIsCurrent ==
  \A p \in Provisioners \ DryRuns : pc[p] = "done" /\ clean[p].drift =>
    \A item \in Items \ Failed(p) : keycloak[item] = "current"

(* A run over a Keycloak that holds what was declared changes nothing and  *)
(* reports no change, also when an earlier run got there while reporting   *)
(* failures or being interrupted.  (keycloak.py 138-149)                   *)
RerunIsIdle ==
  \A p \in Provisioners : clean[p].work =>
    /\ AllCurrent
    /\ result[p]["created"] = << >> /\ result[p]["updated"] = << >>

(***************************************************************************)
(* The inductive invariant behind them, in parts.                          *)
(***************************************************************************)

Working(p) == p \notin DryRuns /\ pc[p] \in {"loop", "ensuring", "done"}

(* The loop has reported what it has passed.                               *)
Passed(p, item) == Cardinality({i \in 1..(next[p] - 1) : Operations[i] = item})

Accounts(p) ==
  /\ Working(p) => \A item \in Items : Passed(p, item) = Reported(p, item)
  /\ p \in DryRuns => /\ pc[p] \in {"idle", "done"}
                      /\ pc[p] = "done" =>
                           result[p] = [NoResult EXCEPT !["planned"] = Operations]
  /\ pc[p] = "ensuring" => next[p] \in Positions
  /\ pc[p] = "done" /\ p \notin DryRuns => next[p] = Len(Operations) + 1

ReportInv == \A p \in Provisioners : Accounts(p)

(* What it has passed without a failure is current, and so is what the     *)
(* look-up saw to be.                                                      *)
CurrentInv ==
  \A p \in Provisioners : Working(p) /\ clean[p].drift =>
    /\ \A i \in 1..(next[p] - 1) :
         Operations[i] \in Failed(p) \/ keycloak[Operations[i]] = "current"
    /\ pc[p] = "ensuring" /\ seen[p] = "current" => keycloak[Item(p)] = "current"

IdleInv ==
  \A p \in Provisioners : clean[p].work /\ pc[p] = "ensuring" => seen[p] = "current"

IInv == TypeOK /\ ReportInv /\ CurrentInv /\ IdleInv /\ RerunIsIdle

=============================================================================
