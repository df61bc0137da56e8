------------------------- MODULE ProvisionerProofs -------------------------
(***************************************************************************)
(* Proofs about Provisioner, for any number of provisioners, any declared  *)
(* roles and any number of runs and of changes by others.                  *)
(***************************************************************************)
EXTENDS Provisioner, FiniteSetTheorems, TLAPS

(* The operations are a list of items.                                     *)
LEMMA OperationsType ==
  /\ Operations \in Seq(Items)
  /\ Len(Operations) \in Nat
  /\ \A i \in 1..Len(Operations) : Operations[i] \in Items
<1> DEFINE X == {Realm, Client} \cup Items
<1>1. <<Realm, Client>> \in Seq(X)
  OBVIOUS
<1>2. RealmRoles \in Seq(X) /\ ClientRoles \in Seq(X)
  <2>1. ASSUME NEW s \in Seq(Items) PROVE s \in Seq(X)
    OBVIOUS
  <2> QED BY <2>1, DeclarationAssumption
<1> HIDE DEF X
<1>3. Operations \in Seq(X)
  BY <1>1, <1>2 DEF Operations
<1>4. \A i \in 1..Len(Operations) : Operations[i] \in Items
  BY DEF Items, Positions
<1>5. ASSUME NEW s \in Seq(X), \A i \in 1..Len(s) : s[i] \in Items
      PROVE  s \in Seq(Items)
  BY <1>5
<1> QED BY <1>3, <1>4, <1>5

(* Count over the first n positions.  One more counts if it holds the item.*)
Among(s, n, item) == Cardinality({i \in 1..n : s[i] = item})

LEMMA CountUpTo ==
  ASSUME NEW n \in Nat, NEW s, NEW item
  PROVE  /\ Among(s, n, item) \in Nat
         /\ Among(s, n + 1, item) =
              Among(s, n, item) + (IF s[n + 1] = item THEN 1 ELSE 0)
<1> USE DEF Among
<1> DEFINE S(m) == {i \in 1..m : s[i] = item}
<1>1. IsFiniteSet(S(n)) /\ Cardinality(S(n)) \in Nat
  <2>1. IsFiniteSet(1..n) /\ S(n) \subseteq 1..n
    BY FS_Interval
  <2>2. IsFiniteSet(S(n))
    BY <2>1, FS_Subset
  <2> QED BY <2>2, FS_CardinalityType
<1>2. CASE s[n + 1] = item
  <2>1. S(n + 1) = S(n) \cup {n + 1} /\ n + 1 \notin S(n)
    BY <1>2
  <2>2. Cardinality(S(n) \cup {n + 1}) = Cardinality(S(n)) + 1
    BY <1>1, <2>1, FS_AddElement
  <2> QED BY <1>1, <1>2, <2>1, <2>2
<1>3. CASE s[n + 1] # item
  <2>1. S(n + 1) = S(n)
    BY <1>3
  <2> QED BY <1>1, <1>3, <2>1
<1> QED BY <1>2, <1>3

LEMMA CountNothing == ASSUME NEW item PROVE Count(<< >>, item) = 0
BY FS_EmptySet DEF Count

LEMMA CountAppend ==
  ASSUME NEW S, NEW s \in Seq(S), NEW x \in S, NEW item
  PROVE  /\ Count(s, item) \in Nat
         /\ Count(Append(s, x), item) = Count(s, item) + (IF x = item THEN 1 ELSE 0)
<1>0. Len(s) \in Nat
  OBVIOUS
<1>1. PICK n \in Nat, t \in {Append(s, x)} : n = Len(s) /\ t = Append(s, x)
  BY <1>0
<1>2. /\ Len(t) = n + 1 /\ t[n + 1] = x
      /\ \A i \in 1..n : t[i] = s[i]
  BY <1>1
<1>3. Count(s, item) = Among(s, n, item) /\ Count(t, item) = Among(t, n + 1, item)
  BY <1>1, <1>2 DEF Count, Among
<1>4. Among(t, n, item) = Among(s, n, item)
  <2>1. {i \in 1..n : t[i] = item} = {i \in 1..n : s[i] = item}
    BY <1>2
  <2> QED BY <2>1 DEF Among
<1>5. /\ Among(s, n, item) \in Nat
      /\ Among(t, n + 1, item) = Among(t, n, item) + (IF x = item THEN 1 ELSE 0)
  BY <1>2, CountUpTo
<1> QED BY <1>1, <1>3, <1>4, <1>5

LEMMA InitIInv == Init => IInv
<1> SUFFICES ASSUME Init PROVE IInv
  OBVIOUS
<1>1. NoResult \in Results
  BY DEF NoResult, Results
<1>2. keycloak \in [Items -> States]
  BY DEF Init
<1>3. next \in [Provisioners -> 1..(Len(Operations) + 1)]
  BY OperationsType DEF Init
<1>4. drift \in 0..MaxDrift /\ runs \in [Provisioners -> 0..MaxRuns]
  BY DeclarationAssumption DEF Init
<1>5. TypeOK
  BY <1>1, <1>2, <1>3, <1>4 DEF Init, TypeOK, States
<1> QED BY <1>5 DEF Init, IInv, ReportInv, Accounts, CurrentInv, IdleInv, RerunIsIdle, Working

(* What a provisioner has reported stays right while it does nothing.      *)
LEMMA AccountsKept ==
  ASSUME NEW q \in Provisioners, Accounts(q),
         pc'[q] = pc[q], next'[q] = next[q], result'[q] = result[q]
  PROVE  Accounts(q)'
BY DEF Accounts, Working, Passed, Reported

(* Others change something: no run can rely on anything any more.          *)
LEMMA DriftStep == ASSUME IInv, NEW x \in Items, Drift(x) PROVE IInv'
<1> USE DEF IInv
<1>1. TypeOK'
  BY DeclarationAssumption DEF Drift, TypeOK, States
<1>2. ReportInv'
  BY DEF Drift, ReportInv, Accounts, Working, Reported, Passed
<1> QED BY <1>1, <1>2 DEF Drift, CurrentInv, IdleInv, RerunIsIdle, Working

(* A run begins: it has passed and reported nothing.                       *)
LEMMA StartStep == ASSUME IInv, NEW p \in Provisioners, Start(p) PROVE IInv'
<1> USE DEF IInv
<1>1. /\ p \notin DryRuns
      /\ keycloak' = keycloak /\ drift' = drift
      /\ clean' = [clean EXCEPT ![p] = [drift |-> TRUE, work |-> AllCurrent]]
      /\ next' = [next EXCEPT ![p] = 1]
      /\ seen' = [seen EXCEPT ![p] = "absent"]
      /\ result' = [result EXCEPT ![p] = NoResult]
      /\ pc' = [pc EXCEPT ![p] = "loop"]
      /\ runs' = [runs EXCEPT ![p] = @ + 1] /\ runs[p] < MaxRuns
  BY DEF Start, Begin, Goto
<1>2. NoResult \in Results /\ AllCurrent \in BOOLEAN
  BY DEF NoResult, Results, AllCurrent
<1>3. TypeOK'
  BY <1>1, <1>2, OperationsType, DeclarationAssumption DEF TypeOK, States
<1>4. /\ pc'[p] = "loop" /\ next'[p] = 1 /\ result'[p] = NoResult
      /\ clean'[p].work = AllCurrent
      /\ \A q \in Provisioners \ {p} :
           /\ pc'[q] = pc[q] /\ next'[q] = next[q] /\ result'[q] = result[q]
           /\ clean'[q] = clean[q] /\ seen'[q] = seen[q]
  BY <1>1 DEF TypeOK
<1>5. ReportInv'
  <2>1. ASSUME NEW item \in Items PROVE Passed(p, item)' = Reported(p, item)'
    <3>1. Reported(p, item)' = 0
      BY <1>4, CountNothing DEF Reported, NoResult, Classes
    <3>2. {i \in 1..(next'[p] - 1) : Operations[i] = item} = {}
      BY <1>4
    <3>3. Passed(p, item)' = 0
      BY <3>2, FS_EmptySet DEF Passed
    <3> QED BY <3>1, <3>3
  <2>2. Accounts(p)'
    BY <1>1, <1>4, <2>1 DEF Accounts
  <2>3. ASSUME NEW q \in Provisioners, q # p PROVE Accounts(q)'
    BY <1>4, <2>3, AccountsKept DEF ReportInv
  <2> QED BY <2>2, <2>3 DEF ReportInv
<1>6. CurrentInv'
  BY <1>1, <1>4 DEF CurrentInv, Working, Failed, Item
<1>7. IdleInv'
  BY <1>4 DEF IdleInv
<1>8. RerunIsIdle'
  <2>1. AllCurrent' = AllCurrent
    BY <1>1 DEF AllCurrent
  <2>2. NoResult["created"] = << >> /\ NoResult["updated"] = << >>
    BY DEF NoResult, Classes
  <2> QED BY <1>4, <2>1, <2>2 DEF RerunIsIdle
<1> QED BY <1>3, <1>5, <1>6, <1>7, <1>8

(* A dry run reports its plan and nothing else.                            *)
LEMMA PlanStep == ASSUME IInv, NEW p \in Provisioners, Plan(p) PROVE IInv'
<1> USE DEF IInv
<1> DEFINE plan == [NoResult EXCEPT !["planned"] = Operations]
<1>1. /\ p \in DryRuns
      /\ keycloak' = keycloak /\ drift' = drift
      /\ clean' = [clean EXCEPT ![p] = [drift |-> TRUE, work |-> AllCurrent]]
      /\ next' = [next EXCEPT ![p] = 1]
      /\ seen' = [seen EXCEPT ![p] = "absent"]
      /\ result' = [result EXCEPT ![p] = plan]
      /\ pc' = [pc EXCEPT ![p] = "done"]
      /\ runs' = [runs EXCEPT ![p] = @ + 1] /\ runs[p] < MaxRuns
  BY DEF Plan, Begin, Goto
<1>2. plan \in Results /\ AllCurrent \in BOOLEAN
  <2>1. NoResult \in [Classes -> Seq(Items)]
    BY DEF NoResult
  <2>2. plan \in [Classes -> Seq(Items)]
    BY <2>1, OperationsType
  <2> QED BY <2>2 DEF Results, AllCurrent
<1>3. plan["created"] = << >> /\ plan["updated"] = << >>
  BY DEF NoResult, Classes
<1> HIDE DEF plan
<1>4. TypeOK'
  BY <1>1, <1>2, OperationsType, DeclarationAssumption DEF TypeOK, States
<1>5. /\ pc'[p] = "done" /\ result'[p] = plan
      /\ clean'[p].work = AllCurrent
      /\ \A q \in Provisioners \ {p} :
           /\ pc'[q] = pc[q] /\ next'[q] = next[q] /\ result'[q] = result[q]
           /\ clean'[q] = clean[q] /\ seen'[q] = seen[q]
  BY <1>1 DEF TypeOK
<1>6. ReportInv'
  <2>1. Accounts(p)'
    BY <1>1, <1>5 DEF Accounts, Working, plan
  <2>2. ASSUME NEW q \in Provisioners, q # p PROVE Accounts(q)'
    BY <1>5, <2>2, AccountsKept DEF ReportInv
  <2> QED BY <2>1, <2>2 DEF ReportInv
<1>7. CurrentInv' /\ IdleInv'
  BY <1>1, <1>5 DEF CurrentInv, IdleInv, Working, Failed, Item
<1>8. RerunIsIdle'
  <2>1. AllCurrent' = AllCurrent
    BY <1>1 DEF AllCurrent
  <2> QED BY <1>3, <1>5, <2>1 DEF RerunIsIdle
<1> QED BY <1>4, <1>6, <1>7, <1>8

(* The look-up sees what is there.                                         *)
LEMMA LookUpStep == ASSUME IInv, NEW p \in Provisioners, LookUp(p) PROVE IInv'
<1> USE DEF IInv
<1>1. /\ pc[p] = "loop" /\ next[p] <= Len(Operations)
      /\ seen' = [seen EXCEPT ![p] = keycloak[Item(p)]]
      /\ pc' = [pc EXCEPT ![p] = "ensuring"]
      /\ keycloak' = keycloak /\ drift' = drift /\ next' = next
      /\ result' = result /\ runs' = runs /\ clean' = clean
  BY DEF LookUp, Goto
<1>2. next[p] \in Positions /\ Item(p) \in Items
  BY <1>1, OperationsType DEF TypeOK, Positions, Item
<1>3. TypeOK'
  BY <1>1, <1>2 DEF TypeOK
<1>4. /\ pc'[p] = "ensuring" /\ seen'[p] = keycloak[Item(p)]
      /\ \A q \in Provisioners \ {p} : pc'[q] = pc[q] /\ seen'[q] = seen[q]
  BY <1>1 DEF TypeOK
<1>5. p \notin DryRuns
  BY <1>1 DEF ReportInv, Accounts
<1>6. ReportInv'
  BY <1>1, <1>2, <1>4, <1>5 DEF ReportInv, Accounts, Working, Passed, Reported
<1>7. CurrentInv'
  BY <1>1, <1>4, <1>5 DEF CurrentInv, Working, Failed, Item
<1>8. IdleInv'
  BY <1>1, <1>2, <1>4 DEF IdleInv, RerunIsIdle, AllCurrent
<1>9. RerunIsIdle'
  BY <1>1 DEF RerunIsIdle, AllCurrent
<1> QED BY <1>3, <1>6, <1>7, <1>8, <1>9

(* An operation that is over, whichever way, goes into one list.  It can   *)
(* only make its item current.                                             *)
LEMMA RecordStep ==
  ASSUME IInv, NEW p \in Provisioners,
         NEW class \in {"created", "updated", "unchanged", "failed"},
         pc[p] = "ensuring", Record(p, class), seen' = seen,
         keycloak' = keycloak \/ (Apply(p) /\ seen[p] # "current"),
         clean[p].drift => class = "failed" \/ keycloak'[Item(p)] = "current",
         class \in {"created", "updated"} => seen[p] # "current"
  PROVE  IInv'
<1> USE DEF IInv
<1> DEFINE x == Item(p)
           r == [result[p] EXCEPT ![class] = Append(@, x)]
<1>1. /\ result' = [result EXCEPT ![p] = r]
      /\ next' = [next EXCEPT ![p] = @ + 1]
      /\ pc' = [pc EXCEPT ![p] = "loop"]
      /\ drift' = drift /\ runs' = runs /\ clean' = clean
  BY DEF Record, Goto, TypeOK
<1>2. /\ next[p] \in Positions /\ x = Operations[next[p]] /\ x \in Items
      /\ next[p] \in Nat /\ next[p] + 1 \in 1..(Len(Operations) + 1)
  BY OperationsType DEF ReportInv, Accounts, Positions, Item
<1>3. result[p] \in Results /\ class \in Classes /\ result[p][class] \in Seq(Items)
  BY DEF TypeOK, Results, Classes
<1>4. /\ r \in Results /\ r[class] = Append(result[p][class], x)
      /\ \A c \in Classes \ {class} : r[c] = result[p][c]
  <2>1. Append(result[p][class], x) \in Seq(Items)
    BY <1>2, <1>3
  <2> QED BY <1>3, <2>1 DEF Results
<1> HIDE DEF r
<1>5. /\ keycloak' \in [Items -> States]
      /\ \A item \in Items : keycloak[item] = "current" => keycloak'[item] = "current"
  BY <1>2 DEF Apply, TypeOK, States
<1>6. TypeOK'
  BY <1>1, <1>2, <1>4, <1>5 DEF TypeOK
<1>7. /\ pc'[p] = "loop" /\ next'[p] = next[p] + 1 /\ result'[p] = r
      /\ \A q \in Provisioners \ {p} :
           pc'[q] = pc[q] /\ next'[q] = next[q] /\ result'[q] = result[q]
  BY <1>1 DEF TypeOK
<1>8. p \notin DryRuns /\ Working(p)
  BY DEF ReportInv, Accounts, Working
<1>9. ReportInv'
  <2>1. ASSUME NEW item \in Items PROVE (Passed(p, item) = Reported(p, item))'
    <3> DEFINE one == IF x = item THEN 1 ELSE 0
    <3>1. /\ Passed(p, item) = Reported(p, item)
          /\ Passed(p, item) \in Nat
          /\ Passed(p, item)' = Passed(p, item) + one
      <4>1. PICK n \in Nat : n = next[p] - 1 /\ n + 1 = next[p]
        BY <1>2 DEF Positions
      <4>2. Operations[n + 1] = x
        BY <1>2, <4>1
      <4>3. /\ Among(Operations, n, item) \in Nat
            /\ Among(Operations, n + 1, item) = Among(Operations, n, item) + one
        BY <4>2, CountUpTo
      <4>4. Passed(p, item) = Among(Operations, n, item)
        BY <4>1 DEF Passed, Among
      <4>5. next'[p] - 1 = n + 1
        BY <1>2, <1>7, <4>1
      <4>6. Passed(p, item)' = Among(Operations, n + 1, item)
        BY <4>5 DEF Passed, Among
      <4>7. Passed(p, item) = Reported(p, item)
        BY <1>8 DEF ReportInv, Accounts
      <4> QED BY <4>3, <4>4, <4>6, <4>7
    <3>2. Count(r[class], item) = Count(result[p][class], item) + one
      BY <1>2, <1>3, <1>4, CountAppend
    <3>3. \A c \in Classes : Count(result[p][c], item) \in Nat
      BY <1>2, <1>3, CountAppend DEF Results
    <3>4. \A c \in Classes \ {class} : Count(r[c], item) = Count(result[p][c], item)
      BY <1>4
    <3>5. Reported(p, item)' =
            Count(r["created"], item) + Count(r["updated"], item)
            + Count(r["unchanged"], item) + Count(r["failed"], item)
      BY <1>7 DEF Reported
    <3>6. one \in Nat
      OBVIOUS
    <3> HIDE DEF one
    <3>7. Reported(p, item)' = Reported(p, item) + one
      BY <3>2, <3>3, <3>4, <3>5, <3>6 DEF Reported, Classes
    <3> QED BY <3>1, <3>7
  <2>2. Accounts(p)'
    BY <1>7, <1>8, <2>1 DEF Accounts
  <2>3. ASSUME NEW q \in Provisioners, q # p PROVE Accounts(q)'
    BY <1>7, <2>3, AccountsKept DEF ReportInv
  <2> QED BY <2>2, <2>3 DEF ReportInv
<1>10. CurrentInv'
  <2> SUFFICES ASSUME NEW q \in Provisioners, Working(q)', clean'[q].drift
      PROVE  /\ \A i \in 1..(next'[q] - 1) :
                  Operations[i] \in Failed(q)' \/ keycloak'[Operations[i]] = "current"
             /\ pc'[q] = "ensuring" /\ seen'[q] = "current" =>
                  keycloak'[Item(q)'] = "current"
    BY DEF CurrentInv
  <2>1. Working(q) /\ clean[q].drift
    BY <1>1, <1>7, <1>8 DEF Working
  <2>2. \A i \in 1..(next[q] - 1) :
          Operations[i] \in Failed(q) \/ keycloak[Operations[i]] = "current"
    BY <2>1 DEF CurrentInv
  <2>3. next[q] \in 1..(Len(Operations) + 1)
    BY DEF TypeOK
  <2>4. \A i \in 1..(next[q] - 1) :
          Operations[i] \in Failed(q) \/ keycloak'[Operations[i]] = "current"
    BY <1>5, <2>2, <2>3, OperationsType
  <2>5. CASE q # p
    <3>1. next'[q] = next[q] /\ Failed(q)' = Failed(q) /\ Item(q)' = Item(q)
      BY <1>7, <2>5 DEF Failed, Item
    <3>2. pc[q] = "ensuring" => Item(q) \in Items
      BY OperationsType DEF ReportInv, Accounts, Positions, Item
    <3> QED BY <1>5, <1>7, <2>1, <2>4, <2>5, <3>1, <3>2 DEF CurrentInv
  <2>6. CASE q = p
    <3>1. /\ Failed(p) \subseteq Failed(p)'
          /\ class = "failed" => x \in Failed(p)'
      <4>1. CASE class = "failed"
        <5>1. ASSUME NEW s \in Seq(Items), NEW y \in Items
              PROVE  {s[i] : i \in 1..Len(s)} \cup {y} \subseteq
                       {Append(s, y)[i] : i \in 1..Len(Append(s, y))}
          <6>1. /\ Len(s) \in Nat /\ Len(Append(s, y)) = Len(s) + 1
                /\ \A i \in 1..Len(s) : Append(s, y)[i] = s[i]
                /\ Append(s, y)[Len(s) + 1] = y
            OBVIOUS
          <6> QED BY <6>1
        <5>2. /\ result[p]["failed"] \in Seq(Items)
              /\ result'[p]["failed"] = Append(result[p]["failed"], x)
          BY <1>3, <1>4, <1>7, <4>1
        <5> DEFINE old == result[p]["failed"]
                   new == result'[p]["failed"]
        <5> HIDE DEF old, new
        <5>4. {old[i] : i \in 1..Len(old)} \cup {x} \subseteq {new[i] : i \in 1..Len(new)}
          <6>1. old \in Seq(Items) /\ new = Append(old, x)
            BY <5>2 DEF old, new
          <6> QED BY <1>2, <5>1, <6>1
        <5>3. {result[p]["failed"][i] : i \in 1..Len(result[p]["failed"])} \cup {x} \subseteq
                {result'[p]["failed"][i] : i \in 1..Len(result'[p]["failed"])}
          BY <5>4 DEF old, new
        <5> QED BY <5>3 DEF Failed
      <4>2. CASE class # "failed"
        BY <1>4, <1>7, <4>2 DEF Failed, Classes
      <4> QED BY <4>1, <4>2
    <3>2. x \in Failed(p)' \/ keycloak'[x] = "current"
      BY <2>1, <2>6, <3>1
    <3>3. \A i \in 1..next[p] : i \in 1..(next[p] - 1) \/ i = next[p]
      BY <1>2
    <3>4. next'[p] - 1 = next[p]
      BY <1>2, <1>7
    <3> QED BY <1>2, <1>7, <2>4, <2>6, <3>1, <3>2, <3>3, <3>4
  <2> QED BY <2>5, <2>6
<1>11. IdleInv'
  BY <1>1, <1>7 DEF IdleInv
<1>12. RerunIsIdle'
  <2>1. AllCurrent => AllCurrent'
    BY <1>5 DEF AllCurrent
  <2>2. clean[p].work => seen[p] = "current"
    BY DEF IdleInv
  <2>3. clean[p].work => /\ r["created"] = result[p]["created"]
                         /\ r["updated"] = result[p]["updated"]
    BY <1>4, <2>2 DEF Classes
  <2> QED BY <1>1, <1>7, <2>1, <2>3 DEF RerunIsIdle
<1> QED BY <1>6, <1>9, <1>10, <1>11, <1>12

LEMMA EnsureStep ==
  ASSUME IInv, NEW p \in Provisioners, EnsureReturns(p) \/ EnsureRaises(p)
  PROVE  IInv'
<1> USE DEF IInv
<1>0. Item(p) \in Items /\ keycloak \in [Items -> States] /\ pc[p] = "ensuring"
      /\ seen' = seen
  BY OperationsType DEF EnsureReturns, EnsureRaises, ReportInv, Accounts, Positions, Item, TypeOK
<1>1. Apply(p) => keycloak'[Item(p)] = "current"
  BY <1>0 DEF Apply
<1>2. CASE EnsureRaises(p)
  BY <1>0, <1>2, RecordStep DEF EnsureRaises, MayApply
<1>3. CASE EnsureReturns(p)
  <2>1. CASE seen[p] = "absent" /\ Apply(p) /\ Record(p, "created")
    BY <1>0, <1>1, <2>1, RecordStep
  <2>2. CASE seen[p] = "stale" /\ Apply(p) /\ Record(p, "updated")
    BY <1>0, <1>1, <2>2, RecordStep
  <2>3. CASE seen[p] = "current" /\ Record(p, "unchanged") /\ UNCHANGED keycloak
    <3>1. Working(p)
      BY <1>0 DEF ReportInv, Accounts, Working
    <3>2. clean[p].drift => keycloak[Item(p)] = "current"
      BY <1>0, <2>3, <3>1 DEF CurrentInv
    <3> QED BY <1>0, <2>3, <3>2, RecordStep
  <2> QED BY <1>3, <2>1, <2>2, <2>3 DEF EnsureReturns
<1> QED BY <1>2, <1>3

(* An interrupted run has no result.                                       *)
LEMMA InterruptStep == ASSUME IInv, NEW p \in Provisioners, Interrupt(p) PROVE IInv'
<1> USE DEF IInv
<1>1. NoResult \in Results /\ NoResult["created"] = << >> /\ NoResult["updated"] = << >>
  BY DEF NoResult, Results, Classes
<1>2. /\ pc' = [pc EXCEPT ![p] = "interrupted"] /\ result' = [result EXCEPT ![p] = NoResult]
      /\ drift' = drift /\ next' = next /\ seen' = seen
      /\ runs' = runs /\ clean' = clean /\ pc[p] = "ensuring"
  BY DEF Interrupt, Goto
<1>3. /\ keycloak' \in [Items -> States]
      /\ \A item \in Items : keycloak[item] = "current" => keycloak'[item] = "current"
  BY OperationsType DEF Interrupt, MayApply, Apply, TypeOK, States
<1>4. TypeOK'
  BY <1>1, <1>2, <1>3 DEF TypeOK
<1>5. /\ pc'[p] = "interrupted" /\ result'[p] = NoResult /\ p \notin DryRuns
      /\ \A q \in Provisioners \ {p} : pc'[q] = pc[q] /\ result'[q] = result[q]
  BY <1>2 DEF TypeOK, ReportInv, Accounts
<1>6. ReportInv'
  BY <1>2, <1>5 DEF ReportInv, Accounts, Working, Passed, Reported
<1>7. CurrentInv'
  <2> SUFFICES ASSUME NEW q \in Provisioners, Working(q)', clean'[q].drift
               PROVE  /\ \A i \in 1..(next'[q] - 1) :
                           Operations[i] \in Failed(q)' \/ keycloak'[Operations[i]] = "current"
                      /\ pc'[q] = "ensuring" /\ seen'[q] = "current" => keycloak'[Item(q)'] = "current"
    BY DEF CurrentInv
  <2>1. /\ q # p /\ Working(q) /\ clean[q].drift /\ Failed(q)' = Failed(q) /\ Item(q)' = Item(q)
        /\ next'[q] = next[q] /\ pc'[q] = pc[q] /\ seen'[q] = seen[q]
    BY <1>2, <1>5 DEF Working, Failed, Item
  <2>2. \A i \in 1..(next[q] - 1) : Operations[i] \in Items
    <3>1. next[q] \in 1..(Len(Operations) + 1)
      BY DEF TypeOK
    <3> QED BY <3>1, OperationsType
  <2>3. pc[q] = "ensuring" => Item(q) \in Items
    BY OperationsType DEF ReportInv, Accounts, Positions, Item
  <2> QED BY <1>3, <2>1, <2>2, <2>3 DEF CurrentInv
<1>8. IdleInv'
  BY <1>2, <1>5 DEF IdleInv
<1>9. RerunIsIdle'
  BY <1>1, <1>2, <1>3, <1>5 DEF RerunIsIdle, AllCurrent
<1> QED BY <1>4, <1>6, <1>7, <1>8, <1>9

(* A run that returns has passed every operation.                          *)
LEMMA ReturnStep == ASSUME IInv, NEW p \in Provisioners, ReturnResult(p) PROVE IInv'
<1> USE DEF IInv
<1>1. /\ pc' = [pc EXCEPT ![p] = "done"] /\ pc[p] = "loop" /\ next[p] > Len(Operations)
      /\ keycloak' = keycloak /\ drift' = drift /\ next' = next /\ seen' = seen
      /\ result' = result /\ runs' = runs /\ clean' = clean
  BY DEF ReturnResult, Goto
<1>2. TypeOK'
  BY <1>1 DEF TypeOK
<1>3. /\ pc'[p] = "done" /\ p \notin DryRuns
      /\ \A q \in Provisioners \ {p} : pc'[q] = pc[q]
  BY <1>1 DEF TypeOK, ReportInv, Accounts
<1>4. next[p] = Len(Operations) + 1
  BY <1>1, OperationsType DEF TypeOK
<1>5. ReportInv'
  BY <1>1, <1>3, <1>4 DEF ReportInv, Accounts, Working, Passed, Reported
<1>6. CurrentInv' /\ IdleInv'
  BY <1>1, <1>3 DEF CurrentInv, IdleInv, Working, Failed, Item
<1>7. RerunIsIdle'
  BY <1>1 DEF RerunIsIdle, AllCurrent
<1> QED BY <1>2, <1>5, <1>6, <1>7

THEOREM Invariance == Spec => []IInv
<1>1. IInv /\ UNCHANGED vars => IInv'
  BY DEF vars, IInv, TypeOK, ReportInv, Accounts, CurrentInv, IdleInv, RerunIsIdle,
         Working, Passed, Reported, Failed, Item, AllCurrent
<1>2. IInv /\ Next => IInv'
  BY DriftStep, StartStep, PlanStep, LookUpStep, EnsureStep, InterruptStep, ReturnStep
     DEF Next, Continue
<1> QED
  BY InitIInv, <1>1, <1>2, PTL DEF Spec

(* The variables keep their types.                                         *)
THEOREM TypeCorrect == Spec => []TypeOK
BY Invariance, PTL DEF IInv

(* A finished run accounts for every declaration once, whatever failed     *)
(* (keycloak.py 134-150).                                                  *)
THEOREM EverythingIsReported == Spec => []EveryItemIsReported
<1>1. IInv => EveryItemIsReported
  <2> SUFFICES ASSUME IInv, NEW p \in Provisioners, pc[p] = "done", p \notin DryRuns,
                      NEW item \in Items
               PROVE  Count(Operations, item) = Reported(p, item)
    BY DEF IInv, ReportInv, Accounts, EveryItemIsReported
  <2>1. next[p] = Len(Operations) + 1 /\ Passed(p, item) = Reported(p, item)
    BY DEF IInv, ReportInv, Accounts, Working
  <2>2. next[p] - 1 = Len(Operations)
    BY <2>1, OperationsType
  <2> QED BY <2>1, <2>2 DEF Passed, Count
<1> QED BY <1>1, Invariance, PTL

(* What a run does not report as failed is as declared, unless others      *)
(* changed something meanwhile (keycloak.py 138-149).                      *)
THEOREM ReportsAreCurrent == Spec => []ReportedIsCurrent
<1>1. IInv => ReportedIsCurrent
  <2> SUFFICES ASSUME IInv, NEW p \in Provisioners \ DryRuns, pc[p] = "done",
                      clean[p].drift, NEW item \in Items \ Failed(p)
               PROVE  keycloak[item] = "current"
    BY DEF ReportedIsCurrent
  <2>1. PICK i \in 1..Len(Operations) : Operations[i] = item
    BY DEF Items, Positions
  <2>2. next[p] = Len(Operations) + 1 /\ Working(p)
    BY DEF IInv, ReportInv, Accounts, Working
  <2>3. next[p] - 1 = Len(Operations)
    BY <2>2, OperationsType
  <2> QED BY <2>1, <2>2, <2>3 DEF IInv, CurrentInv
<1> QED BY <1>1, Invariance, PTL

(* A run over a Keycloak that holds what was declared changes nothing      *)
(* (keycloak.py 138-149).                                                  *)
THEOREM RerunsAreIdle == Spec => []RerunIsIdle
BY Invariance, PTL DEF IInv

=============================================================================
