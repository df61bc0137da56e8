------------------------ MODULE NatsConnectionProofs ------------------------
(* Proofs about NatsConnection, and about the log LoggedPing keeps of it,  *)
(* for every client object.                                                *)
EXTENDS LoggedPing, FiniteSetTheorems, TLAPS

(* The initial states satisfy the inductive invariant.                     *)
LEMMA InitIInv == Init => IInv
BY ClientsAssumption
   DEF Init, IInv, TypeOK, CleanupInv, LeakIsReported, CleanupIsTried,
       FailureIsNotMasked, Closable, Conns, PCs, Open

(* What the network does to the connection changes nothing of the ping; an *)
(* open connection stays open or is closed.                                *)
LEMMA NetworkStep == IInv /\ Network => IInv'
BY DEF IInv, TypeOK, CleanupInv, LeakIsReported, CleanupIsTried,
       FailureIsNotMasked, Closable, Network, Drop, Reconnect, GiveUp, Conns, Open,
       given

(* Every step of the ping preserves the invariant: the places before the   *)
(* cleanup first.                                                          *)
LEMMA TryStep ==
  ASSUME IInv,
         Connect \/ ConnectEnds \/ SkipFlush \/ Flush \/ FlushEnds \/ CancelFlush
  PROVE  IInv'
<1> USE ClientsAssumption DEF IInv, TypeOK, CleanupInv, LeakIsReported,
        CleanupIsTried, FailureIsNotMasked, Closable, Conns, PCs, Open, Results, given
<1>1. CASE Connect
  BY <1>1 DEF Connect
<1>2. CASE ConnectEnds
  BY <1>2 DEF ConnectEnds, End
<1>3. CASE SkipFlush
  BY <1>3 DEF SkipFlush, LeaveTry
<1>4. CASE Flush
  BY <1>4 DEF Flush
<1>5. CASE FlushEnds
  BY <1>5 DEF FlushEnds, LeaveTry
<1>6. CASE CancelFlush
  BY <1>6 DEF CancelFlush, LeaveTry
<1> QED
  BY <1>1, <1>2, <1>3, <1>4, <1>5, <1>6

(* ... then the cleanup.  A drain that does not do the job is followed by  *)
(* a close, if the client can be closed.                                   *)
LEMMA CleanupStep ==
  ASSUME IInv,
         SkipDrain \/ DrainSync \/ DrainAsync \/ DrainEnds
         \/ SkipClose \/ CloseSync \/ CloseAsync \/ CloseEnds \/ CancelAway
  PROVE  IInv'
<1> USE DEF IInv, TypeOK, CleanupInv, LeakIsReported,
        CleanupIsTried, FailureIsNotMasked, Closable, Conns, PCs, Open, Results, given
<1>0. client.drain \in Styles /\ client.close \in Styles
  BY ClientsAssumption DEF Interfaces
<1>1. CASE SkipDrain
  BY <1>1 DEF SkipDrain
<1>2. CASE DrainSync
  BY <1>2 DEF DrainSync, End
<1>3. CASE DrainAsync
  BY <1>3 DEF DrainAsync
<1>4. CASE DrainEnds
  BY <1>4 DEF DrainEnds, End
<1>5. CASE SkipClose
  BY <1>0, <1>5 DEF SkipClose, End, Styles
<1>6. CASE CloseSync
  BY <1>0, <1>6 DEF CloseSync, End, Styles
<1>7. CASE CloseAsync
  BY <1>0, <1>7 DEF CloseAsync, Styles
<1>8. CASE CloseEnds
  BY <1>8 DEF CloseEnds, End
<1>9. CASE CancelAway
  BY <1>9 DEF CancelAway, Awaits, End
<1> QED
  BY <1>1, <1>2, <1>3, <1>4, <1>5, <1>6, <1>7, <1>8, <1>9

(* The invariant holds throughout.                                         *)
THEOREM Invariance == Spec => []IInv
<1>1. IInv /\ UNCHANGED vars => IInv'
  BY DEF IInv, TypeOK, CleanupInv, LeakIsReported, CleanupIsTried,
         FailureIsNotMasked, Closable, vars
<1>2. IInv /\ Next => IInv'
  BY NetworkStep, TryStep, CleanupStep DEF Next, Step, Cancel
<1> QED
  BY InitIInv, <1>1, <1>2, PTL DEF Spec

(* The variables keep their types: a ping has a result just when it is     *)
(* over (factories.py 107-127).                                            *)
THEOREM TypeCorrect == Spec => []TypeOK
BY Invariance, PTL DEF IInv

(* The connection of a client that can be closed outlives its ping only if *)
(* the caller gets the cleanup's own exception or was cancelled            *)
(* (factories.py 117-123, 275-285).                                        *)
THEOREM LeaksAreReported == Spec => []LeakIsReported
BY Invariance, PTL DEF IInv

(* A ping that got a client it can close tries to, drain first and close   *)
(* only where drain did not do the job (factories.py 122-123, 275-285).    *)
THEOREM CleanupTried == Spec => []CleanupIsTried
BY Invariance, PTL DEF IInv

(* A flush that failed or was cancelled never looks like a good ping       *)
(* (factories.py 117-123).                                                 *)
THEOREM FailureShows == Spec => []FailureIsNotMasked
BY Invariance, PTL DEF IInv

(***************************************************************************)
(* The records of a ping: sequences.                                       *)
(***************************************************************************)

(* Short sequences are their elements.                                     *)
LEMMA Zero == ASSUME NEW S, NEW t \in Seq(S), Len(t) = 0 PROVE t = << >>
OBVIOUS

LEMMA One == ASSUME NEW S, NEW t \in Seq(S), Len(t) = 1 PROVE t = <<t[1]>>
OBVIOUS

LEMMA Two == ASSUME NEW S, NEW t \in Seq(S), Len(t) = 2 PROVE t = <<t[1], t[2]>>
OBVIOUS

LEMMA Three == ASSUME NEW S, NEW t \in Seq(S), Len(t) = 3 PROVE t = <<t[1], t[2], t[3]>>
OBVIOUS

(* The part of a sequence from m to n.                                     *)
LEMMA Part ==
  ASSUME NEW S, NEW t \in Seq(S), NEW m \in 1..(Len(t) + 1), NEW n \in (m - 1)..Len(t)
  PROVE  /\ SubSeq(t, m, n) \in Seq(S) /\ Len(SubSeq(t, m, n)) = n - m + 1
         /\ \A i \in 1..(n - m + 1) : SubSeq(t, m, n)[i] = t[m + i - 1]
OBVIOUS

(* The concatenation of two sequences.                                     *)
LEMMA Joined ==
  ASSUME NEW S, NEW t \in Seq(S), NEW u \in Seq(S)
  PROVE  /\ t \o u \in Seq(S) /\ Len(t \o u) = Len(t) + Len(u)
         /\ \A i \in 1..Len(t) : (t \o u)[i] = t[i]
         /\ \A i \in 1..Len(u) : (t \o u)[Len(t) + i] = u[i]
OBVIOUS

(* What is written is read at the end.                                     *)
LEMMA WriteReads ==
  ASSUME NEW l, NEW messages, NEW functions, Reads(l, messages, functions),
         NEW m \in {"function_start", "function_end", "function_error"},
         NEW t \in Seq(Decorated),
         NEW more, Len(more) = Len(messages) + Len(t),
         \A i \in 1..Len(messages) : more[i] = messages[i],
         \A i \in 1..Len(t) : more[Len(messages) + i] = m /\ functions[Len(messages) + i] = t[i]
  PROVE  Reads(l \o Write(m, t), more, functions)
<1> DEFINE w == Write(m, t)
           n == Len(messages)
<1>1. l \in Seq(Records) /\ Len(l) = n /\ n \in Nat
  BY DEF Reads
<1>2. /\ Len(t) \in Nat /\ w \in Seq(Records) /\ Len(w) = Len(t)
      /\ \A i \in 1..Len(t) : w[i] = [message |-> m, function |-> t[i]]
  <2>1. DOMAIN t = 1..Len(t) /\ \A i \in 1..Len(t) : t[i] \in Decorated
    OBVIOUS
  <2>2. \A i \in 1..Len(t) : [message |-> m, function |-> t[i]] \in Records
    BY <2>1 DEF Records
  <2> QED BY <2>1, <2>2 DEF Write
<1> HIDE DEF w
<1>3. /\ l \o w \in Seq(Records) /\ Len(l \o w) = n + Len(t)
      /\ \A i \in 1..n : (l \o w)[i] = l[i]
      /\ \A i \in 1..Len(t) : (l \o w)[n + i] = w[i]
  <2>1. /\ l \o w \in Seq(Records) /\ Len(l \o w) = Len(l) + Len(w)
        /\ \A i \in 1..Len(l) : (l \o w)[i] = l[i]
        /\ \A i \in 1..Len(w) : (l \o w)[Len(l) + i] = w[i]
    <3>1. l \in Seq(Records) /\ w \in Seq(Records)
      BY <1>1, <1>2
    <3> QED BY <3>1, Joined
  <2> QED BY <1>1, <1>2, <2>1
<1>4. ASSUME NEW i \in 1..(n + Len(t))
      PROVE  (l \o w)[i] = [message |-> more[i], function |-> functions[i]]
  <2>1. CASE i \in 1..n
    BY <1>3, <2>1 DEF Reads
  <2>2. CASE i \notin 1..n
    <3>1. PICK j \in 1..Len(t) : i = n + j
      <4>1. i - n \in 1..Len(t) /\ n + (i - n) = i
        BY <1>1, <1>2, <2>2
      <4> QED BY <4>1
    <3> QED BY <1>2, <1>3, <3>1
  <2> QED BY <2>1, <2>2
<1> QED BY <1>3, <1>4 DEF Reads, w

(* Writing about one call.                                                 *)
LEMMA WriteOne ==
  ASSUME NEW l, NEW messages, NEW functions, Reads(l, messages, functions),
         NEW m \in {"function_start", "function_end", "function_error"},
         NEW a \in Decorated, functions[Len(messages) + 1] = a,
         NEW more, Len(more) = Len(messages) + 1, more[Len(messages) + 1] = m,
         \A i \in 1..Len(messages) : more[i] = messages[i]
  PROVE  Reads(l \o Write(m, <<a>>), more, functions)
<1>1. PICK t : t = <<a>>
  OBVIOUS
<1>2. t \in Seq(Decorated) /\ Len(t) = 1 /\ t[1] = a
  BY <1>1
<1>3. Len(more) = Len(messages) + Len(t) /\ \A i \in 1..Len(messages) : more[i] = messages[i]
  BY <1>2
<1>4. \A i \in 1..Len(t) : more[Len(messages) + i] = m /\ functions[Len(messages) + i] = t[i]
  <2>1. \A i \in 1..1 : i = 1
    OBVIOUS
  <2> QED BY <1>2, <2>1
<1>5. t \in Seq(Decorated)
  BY <1>2
<1>6. Reads(l \o Write(m, t), more, functions)
  BY <1>3, <1>4, <1>5, WriteReads
<1> QED BY <1>1, <1>6

(* Writing about two calls.                                                *)
LEMMA WriteTwo ==
  ASSUME NEW l, NEW messages, NEW functions, Reads(l, messages, functions),
         NEW m \in {"function_start", "function_end", "function_error"},
         NEW a \in Decorated, functions[Len(messages) + 1] = a,
         NEW b \in Decorated, functions[Len(messages) + 2] = b,
         NEW more, Len(more) = Len(messages) + 2,
         more[Len(messages) + 1] = m, more[Len(messages) + 2] = m,
         \A i \in 1..Len(messages) : more[i] = messages[i]
  PROVE  Reads(l \o Write(m, <<a, b>>), more, functions)
<1>1. PICK t : t = <<a, b>>
  OBVIOUS
<1>2. t \in Seq(Decorated) /\ Len(t) = 2 /\ t[1] = a /\ t[2] = b
  BY <1>1
<1>3. Len(more) = Len(messages) + Len(t) /\ \A i \in 1..Len(messages) : more[i] = messages[i]
  BY <1>2
<1>4. \A i \in 1..Len(t) : more[Len(messages) + i] = m /\ functions[Len(messages) + i] = t[i]
  <2>1. \A i \in 1..2 : i = 1 \/ i = 2
    OBVIOUS
  <2> QED BY <1>2, <2>1
<1>5. t \in Seq(Decorated)
  BY <1>2
<1>6. Reads(l \o Write(m, t), more, functions)
  BY <1>3, <1>4, <1>5, WriteReads
<1> QED BY <1>1, <1>6

(* Nothing is read of a call that is cancelled.                            *)
LEMMA RecordMeans ==
  /\ \A t : Record("cancelled", t) = << >>
  /\ \A t : Record("returned", t) = Write("function_end", t)
  /\ \A r \in {"connect error", "flush error", "cleanup error"} :
       \A t : Record(r, t) = Write("function_error", t)
BY DEF Record

(* Writing nothing leaves the log as it is.                                *)
LEMMA NothingReads ==
  ASSUME NEW l, NEW messages, NEW functions, Reads(l, messages, functions)
  PROVE  l \o << >> = l
BY DEF Reads

(* A call more, a call less.                                               *)
LEMMA Pushed ==
  ASSUME NEW a \in Decorated, NEW b \in Decorated, NEW c \in Decorated
  PROVE  <<a, b>> \o <<c>> = <<a, b, c>>
<1>1. PICK t : t = <<a, b>>
  OBVIOUS
<1>2. PICK u : u = <<c>>
  OBVIOUS
<1>3. t \in Seq(Decorated) /\ Len(t) = 2 /\ t[1] = a /\ t[2] = b
  BY <1>1
<1>4. u \in Seq(Decorated) /\ Len(u) = 1 /\ u[1] = c
  BY <1>2
<1>5. /\ t \o u \in Seq(Decorated) /\ Len(t \o u) = Len(t) + Len(u)
      /\ \A i \in 1..Len(t) : (t \o u)[i] = t[i]
      /\ \A i \in 1..Len(u) : (t \o u)[Len(t) + i] = u[i]
  <2>1. t \in Seq(Decorated) /\ u \in Seq(Decorated)
    BY <1>3, <1>4
  <2> QED BY <2>1, Joined
<1>6. Len(t \o u) = 3 /\ (t \o u)[1] = a /\ (t \o u)[2] = b /\ (t \o u)[3] = c
  BY <1>3, <1>4, <1>5
<1>7. t \o u = <<a, b, c>>
  BY <1>5, <1>6, Three
<1> QED BY <1>1, <1>2, <1>7

(* The innermost call.                                                     *)
LEMMA Popped ==
  ASSUME NEW a \in Decorated, NEW b \in Decorated, NEW c \in Decorated, open = <<a, b, c>>
  PROVE  SubSeq(open, 1, Len(open) - 1) = <<a, b>> /\ Innermost(1) = <<c>>
<1>1. open \in Seq(Decorated) /\ Len(open) = 3 /\ 3 - 1 = 2 /\ open[1] = a /\ open[2] = b
  OBVIOUS
<1>2. /\ SubSeq(open, 1, 2) \in Seq(Decorated) /\ Len(SubSeq(open, 1, 2)) = 2
      /\ SubSeq(open, 1, 2)[1] = a /\ SubSeq(open, 1, 2)[2] = b
  BY <1>1, Part
<1>3. SubSeq(open, 1, 2) = <<a, b>>
  BY <1>2, Two
<1>4. Innermost(1) = <<c>>
  BY DEF Innermost
<1> QED BY <1>1, <1>3, <1>4

(* A call stack of three, the innermost call first, and its parts.         *)
LEMMA EndedMeans ==
  ASSUME NEW a \in Decorated, NEW b \in Decorated, NEW c \in Decorated, open = <<a, b, c>>
  PROVE  /\ Len(open) = 3
         /\ SubSeq(Innermost(Len(open)), 1, 1) = <<c>>
         /\ SubSeq(Innermost(Len(open)), 1 + 1, Len(open)) = <<b, a>>
         /\ SubSeq(Innermost(Len(open)), 1, Len(open)) = <<c, b, a>>
         /\ SubSeq(Innermost(Len(open)), Len(open) + 1, Len(open)) = << >>
<1> DEFINE ended == Innermost(Len(open))
<1>1. Len(open) = 3 /\ ended = <<c, b, a>>
  BY DEF Innermost
<1> HIDE DEF ended
<1>2. ended \in Seq(Decorated) /\ Len(ended) = 3 /\ ended[1] = c /\ ended[2] = b /\ ended[3] = a
  BY <1>1
<1>3. SubSeq(ended, 1, 1) = <<c>>
  <2>1. /\ SubSeq(ended, 1, 1) \in Seq(Decorated) /\ Len(SubSeq(ended, 1, 1)) = 1
        /\ SubSeq(ended, 1, 1)[1] = c
    BY <1>2, Part
  <2> QED BY <2>1, One
<1>4. SubSeq(ended, 2, 3) = <<b, a>>
  <2>1. /\ SubSeq(ended, 2, 3) \in Seq(Decorated) /\ Len(SubSeq(ended, 2, 3)) = 2
        /\ SubSeq(ended, 2, 3)[1] = b /\ SubSeq(ended, 2, 3)[2] = a
    BY <1>2, Part
  <2> QED BY <2>1, Two
<1>5. SubSeq(ended, 4, 3) = << >>
  <2>1. SubSeq(ended, 4, 3) \in Seq(Decorated) /\ Len(SubSeq(ended, 4, 3)) = 0
    BY <1>2, Part
  <2> QED BY <2>1, Zero
<1>6. SubSeq(ended, 1, 3) = <<c, b, a>>
  <2>1. /\ SubSeq(ended, 1, 3) \in Seq(Decorated) /\ Len(SubSeq(ended, 1, 3)) = 3
        /\ SubSeq(ended, 1, 3)[1] = c /\ SubSeq(ended, 1, 3)[2] = b /\ SubSeq(ended, 1, 3)[3] = a
    BY <1>2, Part
  <2> QED BY <2>1, Three
<1>7. 1 + 1 = 2 /\ 3 + 1 = 4
  OBVIOUS
<1> QED BY <1>1, <1>3, <1>4, <1>5, <1>6, <1>7 DEF ended

(* What the messages become with one more record, or with the last ones.   *)
LEMMA ReturnGrows ==
  ASSUME NEW s, NEW e, NEW M, M = <<s, s, s, s, e>>, NEW N, N = <<s, s, s, s, e, e>>
  PROVE  /\ Len(M) = 5 /\ Len(N) = Len(M) + 1 /\ N[Len(M) + 1] = e
         /\ \A i \in 1..Len(M) : N[i] = M[i]
<1>1. \A i \in 1..5 : i = 1 \/ i = 2 \/ i = 3 \/ i = 4 \/ i = 5
  OBVIOUS
<1>2. Len(M) = 5 /\ Len(N) = 5 + 1
  OBVIOUS
<1>3. N[5 + 1] = e
  OBVIOUS
<1>4. \A i \in 1..5 : N[i] = M[i]
  BY <1>1
<1> QED BY <1>2, <1>3, <1>4

(* The start of the cleanup.                                               *)
LEMMA EnterGrows ==
  ASSUME NEW s, NEW e, NEW M, M = <<s, s, s, s, e, e>>, NEW N, N = <<s, s, s, s, e, e, s>>
  PROVE  /\ Len(M) = 6 /\ Len(N) = Len(M) + 1 /\ N[Len(M) + 1] = s
         /\ \A i \in 1..Len(M) : N[i] = M[i]
<1>1. \A i \in 1..6 : i = 1 \/ i = 2 \/ i = 3 \/ i = 4 \/ i = 5 \/ i = 6
  OBVIOUS
<1>2. Len(M) = 6 /\ Len(N) = 6 + 1
  OBVIOUS
<1>3. N[6 + 1] = s
  OBVIOUS
<1>4. \A i \in 1..6 : N[i] = M[i]
  BY <1>1
<1> QED BY <1>2, <1>3, <1>4

(* The error of a connect and those around it.                             *)
LEMMA ErrorGrows ==
  ASSUME NEW s, NEW e, NEW x, NEW M, M = <<s, s, s, s, e>>,
         NEW N, N = <<s, s, s, s, e, x, x, x>>
  PROVE  /\ Len(M) = 5 /\ Len(N) = 8 /\ \A i \in 1..5 : N[i] = M[i]
         /\ N[5 + 1] = x /\ N[5 + 2] = x /\ N[5 + 3] = x
<1>1. \A i \in 1..5 : i = 1 \/ i = 2 \/ i = 3 \/ i = 4 \/ i = 5
  OBVIOUS
<1>2. Len(M) = 5 /\ Len(N) = 8
  OBVIOUS
<1>3. N[5 + 1] = x /\ N[5 + 2] = x /\ N[5 + 3] = x
  OBVIOUS
<1>4. \A i \in 1..5 : N[i] = M[i]
  BY <1>1
<1> QED BY <1>2, <1>3, <1>4

(* The messages of the last three records, after the seven of a ping that  *)
(* reached the cleanup: y of the cleanup, z of ping and check.             *)
LEMMA CleanupGrows ==
  ASSUME NEW s, NEW e, NEW y, NEW z, NEW M, M = <<s, s, s, s, e, e, s>>,
         NEW N, N = <<s, s, s, s, e, e, s, y>>,
         NEW R, R = <<s, s, s, s, e, e, s, y, z, z>>
  PROVE  /\ Len(M) = 7 /\ Len(N) = Len(M) + 1 /\ N[Len(M) + 1] = y
         /\ \A i \in 1..Len(M) : N[i] = M[i]
         /\ Len(N) = 8 /\ Len(R) = Len(N) + 2 /\ R[Len(N) + 1] = z /\ R[Len(N) + 2] = z
         /\ \A i \in 1..Len(N) : R[i] = N[i]
<1>1. \A i \in 1..8 : i = 1 \/ i = 2 \/ i = 3 \/ i = 4 \/ i = 5 \/ i = 6 \/ i = 7 \/ i = 8
  OBVIOUS
<1>2. \A i \in 1..7 : i = 1 \/ i = 2 \/ i = 3 \/ i = 4 \/ i = 5 \/ i = 6 \/ i = 7
  OBVIOUS
<1>3. Len(M) = 7
  OBVIOUS
<1>4. Len(N) = 8 /\ N[7 + 1] = y /\ 7 + 1 = 8
  OBVIOUS
<1>5. Len(R) = 8 + 2
  OBVIOUS
<1>6. R[8 + 1] = z /\ R[8 + 2] = z
  OBVIOUS
<1>7. \A i \in 1..7 : N[i] = M[i]
  BY <1>2
<1>8. \A i \in 1..8 : R[i] = N[i]
  BY <1>1
<1> QED BY <1>3, <1>4, <1>5, <1>6, <1>7, <1>8

(* Who the records are about, place by place.                              *)
LEMMA StoryTells ==
  /\ Story[5 + 1] = "connect" /\ Story[6 + 1] = "_close_async_client"
  /\ Story[7 + 1] = "_close_async_client" /\ Story[8 + 1] = "ping" /\ Story[8 + 2] = "check"
  /\ ShortStory[5 + 1] = "connect" /\ ShortStory[5 + 2] = "ping" /\ ShortStory[5 + 3] = "check"
  /\ \A i \in 1..5 : ShortStory[i] = Story[i]
<1>1. Story[5 + 1] = "connect" /\ Story[6 + 1] = "_close_async_client"
  BY DEF Story
<1>2. Story[7 + 1] = "_close_async_client"
  BY DEF Story
<1>3. Story[8 + 1] = "ping" /\ Story[8 + 2] = "check"
  BY DEF Story
<1>4. ShortStory[5 + 1] = "connect" /\ ShortStory[5 + 2] = "ping" /\ ShortStory[5 + 3] = "check"
  BY DEF ShortStory
<1>5. \A i \in 1..5 : ShortStory[i] = Story[i]
  <2>1. \A i \in 1..5 : i = 1 \/ i = 2 \/ i = 3 \/ i = 4 \/ i = 5
    OBVIOUS
  <2> QED BY <2>1 DEF ShortStory, Story
<1> QED BY <1>1, <1>2, <1>3, <1>4, <1>5

(* The calls that write records.                                           *)
LEMMA AreDecorated ==
  /\ "check" \in Decorated /\ "ping" \in Decorated /\ "connect" \in Decorated
  /\ "connect_kwargs" \in Decorated /\ "_close_async_client" \in Decorated
BY DEF Decorated

(***************************************************************************)
(* Every step keeps the log what LogInv says it is.                        *)
(***************************************************************************)

(* Nothing is written at first.                                            *)
LEMMA LogInitInv == LoggedInit => LogInv
BY DEF LoggedInit, Init, LogInv, Reads

(* check, ping and connect start; connect_kwargs starts and ends.          *)
LEMMA BeginCheckStep == IInv /\ LogInv /\ BeginCheck => LogInv'
<1> SUFFICES ASSUME IInv, LogInv, BeginCheck PROVE LogInv'
  OBVIOUS
<1> DEFINE s == "function_start"
           e == "function_end"
           t == <<"check", "ping", "connect", "connect_kwargs">>
           M == <<s, s, s, s>>
           N == <<s, s, s, s, e>>
<1>1. /\ pc = "start" /\ pc' = "connecting" /\ result = "none" /\ result' = "none"
      /\ open' = <<"check", "ping", "connect">> /\ pending' = pending
      /\ log' = log \o Write(s, t) \o Write(e, <<"connect_kwargs">>)
  BY DEF BeginCheck, Connect, IInv, TypeOK
<1>2. Reads(log, << >>, Story)
  BY <1>1 DEF LogInv
<1>3. Len(M) = 4 /\ Len(N) = 4 + 1 /\ N[4 + 1] = e /\ \A i \in 1..4 : N[i] = M[i] /\ M[i] = s
  OBVIOUS
<1>4. t \in Seq(Decorated) /\ Len(t) = 4 /\ \A i \in 1..4 : Story[i] = t[i]
  BY DEF Story, Decorated
<1>5. Story[4 + 1] = "connect_kwargs" /\ "connect_kwargs" \in Decorated
  BY DEF Story, Decorated
<1> HIDE DEF t, M, N
<1>6. Reads(log \o Write(s, t), M, Story)
  <2>1. PICK none : none = << >>
    OBVIOUS
  <2>2. Len(none) = 0 /\ Len(M) = Len(none) + Len(t) /\ \A i \in 1..Len(none) : M[i] = none[i]
    BY <1>3, <1>4, <2>1
  <2>3. \A i \in 1..Len(t) : M[Len(none) + i] = s /\ Story[Len(none) + i] = t[i]
    BY <1>3, <1>4, <2>2
  <2>4. Reads(log, none, Story)
    BY <1>2, <2>1
  <2> QED BY <1>4, <2>2, <2>3, <2>4, WriteReads
<1>7. /\ Len(N) = Len(M) + 1 /\ N[Len(M) + 1] = e /\ \A i \in 1..Len(M) : N[i] = M[i]
      /\ Story[Len(M) + 1] = "connect_kwargs"
  BY <1>3, <1>5
<1>8. Reads(log \o Write(s, t) \o Write(e, <<"connect_kwargs">>), N, Story)
  BY <1>5, <1>6, <1>7, WriteOne
<1>9. Reads(log', N, Story)
  BY <1>1, <1>8 DEF t
<1> QED BY <1>1, <1>9 DEF LogInv, N

(* connect returns, or its error leaves all three.                         *)
LEMMA ConnectedStep == IInv /\ LogInv /\ Connected => LogInv'
<1> SUFFICES ASSUME IInv, LogInv, Connected PROVE LogInv'
  OBVIOUS
<1> DEFINE s == "function_start"
           e == "function_end"
           x == "function_error"
<1>1. /\ pc = "connecting" /\ result = "none" /\ pending' = pending
      /\ \/ pc' = "flush" /\ result' = "none"
         \/ pc' = "done" /\ result' = "connect error"
  BY DEF Connected, ConnectEnds, End, IInv, TypeOK
<1>2. PICK M : M = <<s, s, s, s, e>>
  OBVIOUS
<1>3. open = <<"check", "ping", "connect">> /\ Reads(log, M, Story)
  BY <1>1, <1>2 DEF LogInv
<1>4. CASE pc' = "flush" /\ result' = "none"
  <2>1. open' = SubSeq(open, 1, Len(open) - 1) /\ log' = log \o Write(e, Innermost(1))
    BY <1>4, RecordMeans DEF Connected
  <2>2. SubSeq(open, 1, Len(open) - 1) = <<"check", "ping">> /\ Innermost(1) = <<"connect">>
    BY <1>3, Popped, AreDecorated
  <2>3. open' = <<"check", "ping">>
    BY <2>1, <2>2
  <2>4. PICK N : N = <<s, s, s, s, e, e>>
    OBVIOUS
  <2>5. /\ Len(M) = 5 /\ Len(N) = Len(M) + 1 /\ N[Len(M) + 1] = e
        /\ \A i \in 1..Len(M) : N[i] = M[i]
    BY <1>2, <2>4, ReturnGrows
  <2> HIDE DEF s, e, x
  <2>6. e \in {"function_start", "function_end", "function_error"}
    BY DEF e
  <2>7. Story[Len(M) + 1] = "connect" /\ "connect" \in Decorated
    BY <2>5, StoryTells, AreDecorated
  <2>8. Reads(log \o Write(e, <<"connect">>), N, Story)
    BY <1>3, <2>5, <2>6, <2>7, WriteOne
  <2>9. Reads(log', N, Story)
    BY <2>1, <2>2, <2>8
  <2> QED BY <1>1, <1>4, <2>3, <2>4, <2>9 DEF LogInv, s, e
<1>5. CASE pc' = "done" /\ result' = "connect error"
  <2>1. PICK t : t = <<"connect", "ping", "check">>
    OBVIOUS
  <2>2. open' = << >> /\ log' = log \o Write(x, t) \o Write(x, << >>)
    <3>1. /\ SubSeq(Innermost(Len(open)), 1, Len(open)) = <<"connect", "ping", "check">>
          /\ SubSeq(Innermost(Len(open)), Len(open) + 1, Len(open)) = << >>
      BY <1>3, EndedMeans, AreDecorated
    <3>2. /\ open' = << >>
          /\ log' = log \o Record("connect error", t) \o Record("connect error", << >>)
      <4>1. Unwind(Len(open), "connect error", "connect error")
        BY <1>5 DEF Connected
      <4> QED BY <2>1, <3>1, <4>1 DEF Unwind
    <3>3. /\ Record("connect error", t) = Write(x, t)
          /\ Record("connect error", << >>) = Write(x, << >>)
      BY RecordMeans
    <3> QED BY <3>2, <3>3
  <2>3. Write(x, << >>) = << >>
    BY DEF Write
  <2>4. PICK N : N = <<s, s, s, s, e, x, x, x>>
    OBVIOUS
  <2>5. /\ Len(M) = 5 /\ Len(N) = 8 /\ (\A i \in 1..5 : N[i] = M[i])
        /\ N[5 + 1] = x /\ N[5 + 2] = x /\ N[5 + 3] = x
    BY <1>2, <2>4, ErrorGrows
  <2>6. t \in Seq(Decorated) /\ Len(t) = 3 /\ t[1] = "connect" /\ t[2] = "ping" /\ t[3] = "check"
    BY <2>1, AreDecorated
  <2>7. x \in {"function_start", "function_end", "function_error"}
    OBVIOUS
  <2> HIDE DEF s, e, x
  <2>8. Reads(log, M, ShortStory)
    BY <1>3, <2>5, StoryTells DEF Reads
  <2>9. Len(N) = Len(M) + Len(t) /\ \A i \in 1..Len(M) : N[i] = M[i]
    BY <2>5, <2>6
  <2>10. \A i \in 1..Len(t) : N[Len(M) + i] = x /\ ShortStory[Len(M) + i] = t[i]
    <3>1. \A i \in 1..3 : i = 1 \/ i = 2 \/ i = 3
      OBVIOUS
    <3> QED BY <2>5, <2>6, <3>1, StoryTells
  <2>11. Reads(log \o Write(x, t), N, ShortStory)
    BY <2>6, <2>7, <2>8, <2>9, <2>10, WriteReads
  <2>12. Reads(log', N, ShortStory)
    BY <2>2, <2>3, <2>11, NothingReads
  <2> QED BY <1>1, <1>5, <2>2, <2>4, <2>12 DEF LogInv, s, e, x
<1> QED BY <1>1, <1>4, <1>5

(* The record of the cleanup's start.                                      *)
LEMMA EnterRecords ==
  ASSUME NEW l,
         Reads(l, <<"function_start", "function_start", "function_start", "function_start",
                    "function_end", "function_end">>, Story)
  PROVE  Reads(l \o Write("function_start", <<"_close_async_client">>),
               <<"function_start", "function_start", "function_start", "function_start",
                 "function_end", "function_end", "function_start">>, Story)
<1> DEFINE s == "function_start"
           e == "function_end"
<1>1. PICK M : M = <<s, s, s, s, e, e>>
  OBVIOUS
<1>2. PICK N : N = <<s, s, s, s, e, e, s>>
  OBVIOUS
<1>3. Reads(l, M, Story)
  BY <1>1
<1> HIDE DEF s, e
<1>4. /\ Len(M) = 6 /\ Len(N) = Len(M) + 1 /\ N[Len(M) + 1] = s
      /\ \A i \in 1..Len(M) : N[i] = M[i]
  BY <1>1, <1>2, EnterGrows
<1>5. Story[Len(M) + 1] = "_close_async_client" /\ "_close_async_client" \in Decorated
  BY <1>4, StoryTells, AreDecorated
<1>6. s \in {"function_start", "function_end", "function_error"}
  BY DEF s
<1>7. Reads(l \o Write(s, <<"_close_async_client">>), N, Story)
  BY <1>3, <1>4, <1>5, <1>6, WriteOne
<1> QED BY <1>2, <1>7 DEF s, e

(* A flush that is over starts the cleanup.                                *)
LEMMA EnterStep ==
  ASSUME IInv, LogInv, pc \in {"flush", "flushing"}, pc' = "drain", result' = "none",
         pending' \in {"returned", "flush error", "cancelled"}, Enter(<<"_close_async_client">>)
  PROVE  LogInv'
<1> DEFINE s == "function_start"
           e == "function_end"
<1>1. open = <<"check", "ping">> /\ Reads(log, <<s, s, s, s, e, e>>, Story)
  BY DEF LogInv
<1>2. /\ open' = open \o <<"_close_async_client">>
      /\ log' = log \o Write(s, <<"_close_async_client">>)
  BY DEF Enter
<1>3. open' = <<"check", "ping", "_close_async_client">>
  BY <1>1, <1>2, Pushed, AreDecorated
<1>4. Reads(log', <<s, s, s, s, e, e, s>>, Story)
  BY <1>1, <1>2, EnterRecords
<1> QED BY <1>3, <1>4 DEF LogInv

(* The records of an end of the cleanup, when none of them is withheld.    *)
LEMMA CleanupRecords ==
  ASSUME NEW l, NEW y \in {"function_end", "function_error"},
         NEW z \in {"function_end", "function_error"},
         Reads(l, <<"function_start", "function_start", "function_start", "function_start",
                    "function_end", "function_end", "function_start">>, Story)
  PROVE  /\ Reads(l \o Write(y, <<"_close_async_client">>),
                  <<"function_start", "function_start", "function_start", "function_start",
                    "function_end", "function_end", "function_start", y>>, Story)
         /\ Reads(l \o Write(y, <<"_close_async_client">>) \o Write(z, <<"ping", "check">>),
                  <<"function_start", "function_start", "function_start", "function_start",
                    "function_end", "function_end", "function_start", y, z, z>>, Story)
<1> DEFINE s == "function_start"
           e == "function_end"
<1>1. PICK M : M = <<s, s, s, s, e, e, s>>
  OBVIOUS
<1>2. PICK N : N = <<s, s, s, s, e, e, s, y>>
  OBVIOUS
<1>3. PICK R : R = <<s, s, s, s, e, e, s, y, z, z>>
  OBVIOUS
<1>4. /\ Len(M) = 7 /\ Len(N) = Len(M) + 1 /\ N[Len(M) + 1] = y
      /\ \A i \in 1..Len(M) : N[i] = M[i]
      /\ Len(N) = 8 /\ Len(R) = Len(N) + 2 /\ R[Len(N) + 1] = z /\ R[Len(N) + 2] = z
      /\ \A i \in 1..Len(N) : R[i] = N[i]
  BY <1>1, <1>2, <1>3, CleanupGrows
<1>5. y \in {"function_start", "function_end", "function_error"}
      /\ z \in {"function_start", "function_end", "function_error"}
  OBVIOUS
<1>6. Reads(l, M, Story)
  BY <1>1
<1>7. /\ Story[Len(M) + 1] = "_close_async_client"
      /\ Story[Len(N) + 1] = "ping" /\ Story[Len(N) + 2] = "check"
      /\ "_close_async_client" \in Decorated /\ "ping" \in Decorated /\ "check" \in Decorated
  BY <1>4, StoryTells, AreDecorated
<1>8. Reads(l \o Write(y, <<"_close_async_client">>), N, Story)
  BY <1>4, <1>5, <1>6, <1>7, WriteOne
<1>9. Reads(l \o Write(y, <<"_close_async_client">>) \o Write(z, <<"ping", "check">>), R, Story)
  <2>1. PICK L : L = l \o Write(y, <<"_close_async_client">>)
    OBVIOUS
  <2>2. Reads(L, N, Story)
    BY <1>8, <2>1
  <2>3. /\ Len(R) = Len(N) + 2 /\ R[Len(N) + 1] = z /\ R[Len(N) + 2] = z
        /\ \A i \in 1..Len(N) : R[i] = N[i]
    BY <1>4
  <2>4. Reads(L \o Write(z, <<"ping", "check">>), R, Story)
    BY <1>5, <1>7, <2>2, <2>3, WriteTwo
  <2> QED BY <2>1, <2>4
<1> QED BY <1>2, <1>3, <1>8, <1>9

(* The end of the cleanup is the end of ping and check.                    *)
LEMMA UnwindStep ==
  ASSUME LogInv, pc \in {"drain", "draining", "close", "closing"},
         pc' = "done", pending' = pending, NEW inner, result' # "none",
         \/ result' = "cleanup error" /\ inner = "cleanup error"
         \/ result' = pending /\ inner = "returned",
         Unwind(1, inner, result')
  PROVE  LogInv'
<1> DEFINE s == "function_start"
           e == "function_end"
           x == "function_error"
<1>2. /\ open = <<"check", "ping", "_close_async_client">>
      /\ Reads(log, <<s, s, s, s, e, e, s>>, Story)
  BY DEF LogInv
<1>3. /\ open' = << >>
      /\ log' = log \o Record(inner, <<"_close_async_client">>)
                    \o Record(result', <<"ping", "check">>)
  <2>1. /\ SubSeq(Innermost(Len(open)), 1, 1) = <<"_close_async_client">>
        /\ SubSeq(Innermost(Len(open)), 1 + 1, Len(open)) = <<"ping", "check">>
    BY <1>2, EndedMeans, AreDecorated
  <2> QED BY <2>1 DEF Unwind
<1>4. ASSUME NEW y \in {e, x}, NEW z \in {e, x}
      PROVE  /\ Reads(log \o Write(y, <<"_close_async_client">>), <<s, s, s, s, e, e, s, y>>, Story)
             /\ Reads(log \o Write(y, <<"_close_async_client">>) \o Write(z, <<"ping", "check">>),
                      <<s, s, s, s, e, e, s, y, z, z>>, Story)
  BY <1>2, CleanupRecords
<1>5. CASE result' = "cleanup error" /\ inner = "cleanup error"
  <2>1. log' = log \o Write(x, <<"_close_async_client">>) \o Write(x, <<"ping", "check">>)
    BY <1>3, <1>5, RecordMeans
  <2>2. Reads(log', <<s, s, s, s, e, e, s, x, x, x>>, Story)
    BY <1>4, <2>1
  <2> QED BY <1>3, <1>5, <2>2 DEF LogInv
<1>6. CASE result' = "returned" /\ inner = "returned"
  <2>1. log' = log \o Write(e, <<"_close_async_client">>) \o Write(e, <<"ping", "check">>)
    BY <1>3, <1>6, RecordMeans
  <2>2. Reads(log', <<s, s, s, s, e, e, s, e, e, e>>, Story)
    BY <1>4, <2>1
  <2> QED BY <1>3, <1>6, <2>2 DEF LogInv
<1>7. CASE result' = "flush error" /\ inner = "returned"
  <2>1. log' = log \o Write(e, <<"_close_async_client">>) \o Write(x, <<"ping", "check">>)
    BY <1>3, <1>7, RecordMeans
  <2>2. Reads(log', <<s, s, s, s, e, e, s, e, x, x>>, Story)
    BY <1>4, <2>1
  <2> QED BY <1>3, <1>7, <2>2 DEF LogInv
<1>8. CASE result' = "cancelled" /\ inner = "returned"
  <2>1. log' = log \o Write(e, <<"_close_async_client">>) \o << >>
    BY <1>3, <1>8, RecordMeans
  <2>2. Reads(log', <<s, s, s, s, e, e, s, e>>, Story)
    BY <1>4, <2>1, NothingReads
  <2> QED BY <1>3, <1>8, <2>2 DEF LogInv
<1> QED BY <1>5, <1>6, <1>7, <1>8 DEF LogInv

(* A step of the cleanup writes only when it ends it.                      *)
LEMMA CleanupLogStep == IInv /\ LogInv /\ Cleanup => LogInv'
<1> SUFFICES ASSUME IInv, LogInv, Cleanup PROVE LogInv'
  OBVIOUS
<1> DEFINE inner == IF result' = "cleanup error" THEN result' ELSE "returned"
<1>1. /\ pc \in {"drain", "draining", "close", "closing"} /\ pending' = pending
      /\ result = "none" /\ pending \in Results
      /\ \/ pc' \in {"draining", "close", "closing"} /\ result' = "none"
         \/ pc' = "done" /\ result' \in {pending, "cleanup error"}
  BY DEF Cleanup, SkipDrain, DrainSync, DrainAsync, DrainEnds,
         SkipClose, CloseSync, CloseAsync, CloseEnds, End, IInv, TypeOK, CleanupInv
<1>2. CASE pc' \in {"draining", "close", "closing"} /\ result' = "none"
  <2>1. open' = open /\ log' = log
    BY <1>2 DEF Cleanup
  <2> QED BY <1>1, <1>2, <2>1 DEF LogInv
<1>3. CASE pc' = "done" /\ result' \in {pending, "cleanup error"}
  <2>1. result' # "none"
    BY <1>1, <1>3 DEF Results
  <2>2. Unwind(1, inner, result')
    BY <2>1 DEF Cleanup
  <2> QED BY <1>1, <1>3, <2>1, <2>2, UnwindStep
<1> QED BY <1>1, <1>2, <1>3

(* A cancellation of any other await writes nothing.                       *)
LEMMA CancelledStep == IInv /\ LogInv /\ Cancelled => LogInv'
<1> SUFFICES ASSUME IInv, LogInv, Cancelled PROVE LogInv'
  OBVIOUS
<1>1. /\ pc \in {"connecting", "draining", "closing"}
      /\ pc' = "done" /\ result' = "cancelled" /\ pending' = pending
      /\ Unwind(Len(open), "cancelled", "cancelled")
  BY DEF Cancelled, CancelAway, Awaits, End
<1>2. PICK c \in {"connect", "_close_async_client"} : open = <<"check", "ping", c>>
  BY <1>1 DEF LogInv
<1>3. open' = << >> /\ log' = log \o << >> \o << >>
  <2>1. "check" \in Decorated /\ "ping" \in Decorated /\ c \in Decorated
    BY AreDecorated
  <2>2. /\ open' = << >>
        /\ log' = log \o Record("cancelled", <<c, "ping", "check">>) \o Record("cancelled", << >>)
    <3>1. /\ SubSeq(Innermost(Len(open)), 1, Len(open)) = <<c, "ping", "check">>
          /\ SubSeq(Innermost(Len(open)), Len(open) + 1, Len(open)) = << >>
      BY <1>2, <2>1, EndedMeans
    <3> QED BY <1>1, <3>1 DEF Unwind
  <2> QED BY <2>2, RecordMeans
<1>4. log' = log
  <2>1. PICK messages : Reads(log, messages, Story)
    BY <1>1 DEF LogInv
  <2> QED BY <1>3, <2>1, NothingReads
<1> QED BY <1>1, <1>3, <1>4 DEF LogInv

(* Every step preserves LogInv.                                            *)
LEMMA LogStep == IInv /\ LogInv /\ [LoggedNext]_loggedVars => LogInv'
<1> SUFFICES ASSUME IInv, LogInv, [LoggedNext]_loggedVars PROVE LogInv'
  OBVIOUS
<1>1. CASE BeginCheck
  BY <1>1, BeginCheckStep
<1>2. CASE Connected
  BY <1>2, ConnectedStep
<1>3. CASE Flushing
  BY <1>3 DEF Flushing, Flush, LogInv
<1>4. CASE BeginCleanup
  BY <1>4, EnterStep DEF BeginCleanup, SkipFlush, FlushEnds, LeaveTry, IInv, TypeOK
<1>5. CASE Cleanup
  BY <1>5, CleanupLogStep
<1>6. CASE CancelledFlush
  BY <1>6, EnterStep DEF CancelledFlush, CancelFlush, LeaveTry, IInv, TypeOK
<1>7. CASE Cancelled
  BY <1>7, CancelledStep
<1>8. CASE Network /\ UNCHANGED <<open, log>>
  BY <1>8 DEF Network, LogInv
<1>9. CASE UNCHANGED loggedVars
  BY <1>9 DEF loggedVars, vars, LogInv
<1> QED
  BY <1>1, <1>2, <1>3, <1>4, <1>5, <1>6, <1>7, <1>8, <1>9 DEF LoggedNext, LoggedStep

(* With the records, the check makes the steps of the connection.          *)
THEOREM LoggedPings == LoggedSpec => Spec
<1>1. LoggedInit => Init
  BY DEF LoggedInit
<1>2. [LoggedNext]_loggedVars => [Next]_vars
  BY DEF LoggedNext, LoggedStep, loggedVars, BeginCheck, Connected, Flushing, BeginCleanup,
         CancelledFlush, Cleanup, Cancelled, Next, Step, Cancel
<1> QED BY <1>1, <1>2, PTL DEF LoggedSpec, Spec

(* The log has the shape LogInv gives it, throughout.                      *)
THEOREM LoggedInvariance == LoggedSpec => [](IInv /\ LogInv)
<1>1. LoggedSpec => []IInv
  BY LoggedPings, Invariance, PTL
<1>2. IInv /\ LogInv /\ IInv' /\ [LoggedNext]_loggedVars => LogInv'
  BY LogStep
<1> QED BY <1>1, <1>2, LogInitInv, PTL DEF LoggedSpec

(***************************************************************************)
(* What a reader makes of such a log.                                      *)
(***************************************************************************)

(* A log in which f is opened at place o[f] and closed at place c[f] only, *)
(* if that many records are written.                                       *)
Tells(M, S, o, c) ==
  /\ Reads(log, M, S)
  /\ o \in [Decorated -> Nat] /\ c \in [Decorated -> Nat]
  /\ \A i \in 1..Len(M) :
       /\ S[i] \in Decorated
       /\ M[i] = "function_start" => i = o[S[i]]
       /\ M[i] # "function_start" => i = c[S[i]]
  /\ \A f \in Decorated :
       /\ o[f] \in 1..Len(M) => M[o[f]] = "function_start" /\ S[o[f]] = f
       /\ c[f] \in 1..Len(M) => M[c[f]] \in {"function_end", "function_error"} /\ S[c[f]] = f

(* The records about a call are at its two places.                         *)
LEMMA Places ==
  ASSUME NEW M, NEW S, NEW o, NEW c, Tells(M, S, o, c)
  PROVE  /\ DOMAIN log = 1..Len(M) /\ Len(M) \in Nat
         /\ \A f \in Decorated :
              /\ Starts(f) = {o[f]} \cap 1..Len(M)
              /\ Closings(f) = {c[f]} \cap 1..Len(M)
              /\ \A m \in {"function_end", "function_error"} :
                   At(m, f) # {} <=> c[f] \in 1..Len(M) /\ M[c[f]] = m
<1>1. DOMAIN log = 1..Len(M) /\ Len(M) \in Nat
  BY DEF Tells, Reads
<1>2. ASSUME NEW f \in Decorated, NEW m, NEW i
      PROVE  i \in At(m, f) <=> i \in 1..Len(M) /\ M[i] = m /\ S[i] = f
  <2>1. ASSUME i \in 1..Len(M)
        PROVE  log[i] = [message |-> m, function |-> f] <=> M[i] = m /\ S[i] = f
    <3>1. log[i] = [message |-> M[i], function |-> S[i]]
      BY <2>1 DEF Tells, Reads
    <3> QED BY <3>1
  <2> QED BY <1>1, <2>1 DEF At
<1>3. ASSUME NEW f \in Decorated
      PROVE  Starts(f) = {o[f]} \cap 1..Len(M)
  <2>1. ASSUME NEW i PROVE i \in Starts(f) <=> i \in {o[f]} \cap 1..Len(M)
    <3>1. i \in Starts(f) <=> i \in 1..Len(M) /\ M[i] = "function_start" /\ S[i] = f
      BY <1>2 DEF Starts
    <3> QED BY <3>1 DEF Tells
  <2> QED BY <2>1
<1>4. ASSUME NEW f \in Decorated
      PROVE  Closings(f) = {c[f]} \cap 1..Len(M)
  <2>1. ASSUME NEW i PROVE i \in Closings(f) <=> i \in {c[f]} \cap 1..Len(M)
    <3>1. i \in Closings(f) <=>
            i \in 1..Len(M) /\ M[i] \in {"function_end", "function_error"} /\ S[i] = f
      BY <1>2 DEF Closings
    <3>2. \A m \in {"function_end", "function_error"} : m # "function_start"
      OBVIOUS
    <3> QED BY <3>1, <3>2 DEF Tells
  <2> QED BY <2>1
<1>5. ASSUME NEW f \in Decorated, NEW m \in {"function_end", "function_error"}
      PROVE  At(m, f) # {} <=> c[f] \in 1..Len(M) /\ M[c[f]] = m
  <2>1. ASSUME At(m, f) # {} PROVE c[f] \in 1..Len(M) /\ M[c[f]] = m
    <3>1. PICK i : i \in At(m, f)
      BY <2>1
    <3>2. i \in 1..Len(M) /\ M[i] = m /\ S[i] = f
      BY <1>2, <3>1
    <3>3. m # "function_start"
      OBVIOUS
    <3> QED BY <3>2, <3>3 DEF Tells
  <2>2. ASSUME c[f] \in 1..Len(M), M[c[f]] = m PROVE At(m, f) # {}
    <3>1. c[f] \in At(m, f)
      BY <1>2, <2>2 DEF Tells
    <3> QED BY <3>1
  <2> QED BY <2>1, <2>2
<1> QED BY <1>1, <1>3, <1>4, <1>5

(* What is unclosed, and how the calls nest.                               *)
LEMMA Reader ==
  ASSUME NEW M, NEW S, NEW o, NEW c, Tells(M, S, o, c)
  PROVE  /\ \A f \in Decorated :
              f \in Unclosed <=> o[f] \in 1..Len(M) /\ c[f] \notin 1..Len(M)
         /\ Unclosed \subseteq Decorated
         /\ (/\ \A f \in Decorated : o[f] \in 1..Len(M) => o[f] < c[f]
             /\ \A f, g \in Decorated : o[f] < o[g] /\ o[g] < c[f] => c[g] < c[f])
            => \A f, g \in Decorated : \A i \in Starts(f), j \in Starts(g), k \in Closings(f) :
                 i < j /\ j < k => \E l \in Closings(g) : j < l /\ l < k
<1>1. /\ Len(M) \in Nat
      /\ \A f \in Decorated :
           Starts(f) = {o[f]} \cap 1..Len(M) /\ Closings(f) = {c[f]} \cap 1..Len(M)
  BY Places
<1>2. \A f \in Decorated : o[f] \in Nat /\ c[f] \in Nat
  BY DEF Tells
<1>3. ASSUME NEW x, NEW A
      PROVE  Cardinality({x} \cap A) = IF x \in A THEN 1 ELSE 0
  <2>1. CASE x \in A
    <3>1. {x} \cap A = {x}
      BY <2>1
    <3> QED BY <2>1, <3>1, FS_Singleton
  <2>2. CASE x \notin A
    <3>1. {x} \cap A = {}
      BY <2>2
    <3> QED BY <2>2, <3>1, FS_EmptySet
  <2> QED BY <2>1, <2>2
<1>4. ASSUME NEW f \in Decorated
      PROVE  f \in Unclosed <=> o[f] \in 1..Len(M) /\ c[f] \notin 1..Len(M)
  <2>1. f \in Unclosed <=> Cardinality(Starts(f)) > Cardinality(Closings(f))
    BY DEF Unclosed
  <2>2. /\ Cardinality(Starts(f)) = IF o[f] \in 1..Len(M) THEN 1 ELSE 0
        /\ Cardinality(Closings(f)) = IF c[f] \in 1..Len(M) THEN 1 ELSE 0
    BY <1>1, <1>3
  <2> QED BY <2>1, <2>2
<1>5. ASSUME \A f \in Decorated : o[f] \in 1..Len(M) => o[f] < c[f],
             \A f, g \in Decorated : o[f] < o[g] /\ o[g] < c[f] => c[g] < c[f],
             NEW f \in Decorated, NEW g \in Decorated,
             NEW i \in Starts(f), NEW j \in Starts(g), NEW k \in Closings(f), i < j, j < k
      PROVE  \E l \in Closings(g) : j < l /\ l < k
  <2>1. i = o[f] /\ j = o[g] /\ k = c[f] /\ k \in 1..Len(M) /\ j \in 1..Len(M)
    BY <1>1
  <2>2. j < c[g] /\ c[g] < k
    BY <1>5, <2>1
  <2>3. c[g] \in Closings(g)
    BY <1>1, <1>2, <2>1, <2>2
  <2> QED BY <2>2, <2>3
<1>6. Unclosed \subseteq Decorated
  BY DEF Unclosed
<1> QED BY <1>4, <1>5, <1>6

(* Where a call is opened and closed in Story.                             *)
OpenedAt ==
  [f \in Decorated |-> CASE f = "check" -> 1 [] f = "ping" -> 2 [] f = "connect" -> 3
                         [] f = "connect_kwargs" -> 4 [] f = "_close_async_client" -> 7]
ClosedAt ==
  [f \in Decorated |-> CASE f = "check" -> 10 [] f = "ping" -> 9 [] f = "connect" -> 6
                         [] f = "connect_kwargs" -> 5 [] f = "_close_async_client" -> 8]

(* In ShortStory, where nothing is cleaned up.                             *)
ShortOpenedAt ==
  [f \in Decorated |-> CASE f = "check" -> 1 [] f = "ping" -> 2 [] f = "connect" -> 3
                         [] f = "connect_kwargs" -> 4 [] f = "_close_async_client" -> 0]
ShortClosedAt ==
  [f \in Decorated |-> CASE f = "check" -> 8 [] f = "ping" -> 7 [] f = "connect" -> 6
                         [] f = "connect_kwargs" -> 5 [] f = "_close_async_client" -> 0]

(* These functions, place by place.                                        *)
LEMMA StoryPlaces ==
  /\ OpenedAt \in [Decorated -> Nat] /\ ClosedAt \in [Decorated -> Nat]
  /\ OpenedAt["check"] = 1 /\ OpenedAt["ping"] = 2 /\ OpenedAt["connect"] = 3
  /\ OpenedAt["connect_kwargs"] = 4 /\ OpenedAt["_close_async_client"] = 7
  /\ ClosedAt["check"] = 10 /\ ClosedAt["ping"] = 9 /\ ClosedAt["connect"] = 6
  /\ ClosedAt["connect_kwargs"] = 5 /\ ClosedAt["_close_async_client"] = 8
BY DEF OpenedAt, ClosedAt, Decorated

LEMMA ShortStoryPlaces ==
  /\ ShortOpenedAt \in [Decorated -> Nat] /\ ShortClosedAt \in [Decorated -> Nat]
  /\ ShortOpenedAt["check"] = 1 /\ ShortOpenedAt["ping"] = 2 /\ ShortOpenedAt["connect"] = 3
  /\ ShortOpenedAt["connect_kwargs"] = 4 /\ ShortOpenedAt["_close_async_client"] = 0
  /\ ShortClosedAt["check"] = 8 /\ ShortClosedAt["ping"] = 7 /\ ShortClosedAt["connect"] = 6
  /\ ShortClosedAt["connect_kwargs"] = 5 /\ ShortClosedAt["_close_async_client"] = 0
BY DEF ShortOpenedAt, ShortClosedAt, Decorated

(* The places nest.                                                        *)
LEMMA StoryNests ==
  /\ \A f \in Decorated : OpenedAt[f] < ClosedAt[f]
  /\ \A f, g \in Decorated :
       OpenedAt[f] < OpenedAt[g] /\ OpenedAt[g] < ClosedAt[f] => ClosedAt[g] < ClosedAt[f]
BY StoryPlaces DEF Decorated

LEMMA ShortStoryNests ==
  /\ \A f \in Decorated : ShortOpenedAt[f] \in 1..8 => ShortOpenedAt[f] < ShortClosedAt[f]
  /\ \A f, g \in Decorated :
       ShortOpenedAt[f] < ShortOpenedAt[g] /\ ShortOpenedAt[g] < ShortClosedAt[f] =>
         ShortClosedAt[g] < ShortClosedAt[f]
BY ShortStoryPlaces DEF Decorated

(* The stories, place by place.                                            *)
LEMMA StoryAt ==
  /\ Story[1] = "check" /\ Story[2] = "ping" /\ Story[3] = "connect"
  /\ Story[4] = "connect_kwargs" /\ Story[5] = "connect_kwargs" /\ Story[6] = "connect"
  /\ Story[7] = "_close_async_client" /\ Story[8] = "_close_async_client"
  /\ Story[9] = "ping" /\ Story[10] = "check"
<1>1. Story[1] = "check" /\ Story[2] = "ping" /\ Story[3] = "connect"
  BY DEF Story
<1>2. Story[4] = "connect_kwargs" /\ Story[5] = "connect_kwargs" /\ Story[6] = "connect"
  BY DEF Story
<1>3. Story[7] = "_close_async_client" /\ Story[8] = "_close_async_client"
  BY DEF Story
<1>4. Story[9] = "ping" /\ Story[10] = "check"
  BY DEF Story
<1> QED BY <1>1, <1>2, <1>3, <1>4

LEMMA ShortStoryAt ==
  /\ ShortStory[1] = "check" /\ ShortStory[2] = "ping" /\ ShortStory[3] = "connect"
  /\ ShortStory[4] = "connect_kwargs" /\ ShortStory[5] = "connect_kwargs"
  /\ ShortStory[6] = "connect" /\ ShortStory[7] = "ping" /\ ShortStory[8] = "check"
<1>1. ShortStory[1] = "check" /\ ShortStory[2] = "ping" /\ ShortStory[3] = "connect"
  BY DEF ShortStory
<1>2. ShortStory[4] = "connect_kwargs" /\ ShortStory[5] = "connect_kwargs"
  BY DEF ShortStory
<1>3. ShortStory[6] = "connect" /\ ShortStory[7] = "ping" /\ ShortStory[8] = "check"
  BY DEF ShortStory
<1> QED BY <1>1, <1>2, <1>3

(* Any beginning of a ping that gets a client is told.                     *)
LEMMA StoryTold ==
  ASSUME NEW M, Reads(log, M, Story), NEW n \in 0..10, Len(M) = n,
         \A i \in 1..n : IF i \in {1, 2, 3, 4, 7} THEN M[i] = "function_start"
                         ELSE M[i] \in {"function_end", "function_error"}
  PROVE  Tells(M, Story, OpenedAt, ClosedAt)
<1>1. ASSUME NEW i \in 1..n
      PROVE  /\ Story[i] \in Decorated
             /\ i \in {1, 2, 3, 4, 7} => i = OpenedAt[Story[i]]
             /\ i \notin {1, 2, 3, 4, 7} => i = ClosedAt[Story[i]]
  <2>1. i \in {1, 2, 3, 4, 5} \/ i \in {6, 7, 8, 9, 10}
    OBVIOUS
  <2>2. CASE i \in {1, 2, 3, 4, 5}
    BY <2>2, StoryAt, StoryPlaces, AreDecorated
  <2>3. CASE i \in {6, 7, 8, 9, 10}
    BY <2>3, StoryAt, StoryPlaces, AreDecorated
  <2> QED BY <2>1, <2>2, <2>3
<1>2. ASSUME NEW f \in Decorated
      PROVE  /\ OpenedAt[f] \in {1, 2, 3, 4, 7} /\ Story[OpenedAt[f]] = f
             /\ ClosedAt[f] \notin {1, 2, 3, 4, 7} /\ Story[ClosedAt[f]] = f
  BY StoryAt, StoryPlaces DEF Decorated
<1>3. \A i \in 1..n : M[i] = "function_start" <=> i \in {1, 2, 3, 4, 7}
  OBVIOUS
<1> QED BY <1>1, <1>2, <1>3, StoryPlaces DEF Tells

(* So is a ping whose connect failed.                                      *)
LEMMA ShortStoryTold ==
  ASSUME NEW M, Reads(log, M, ShortStory), Len(M) = 8,
         \A i \in 1..8 : IF i \in {1, 2, 3, 4} THEN M[i] = "function_start"
                         ELSE M[i] \in {"function_end", "function_error"}
  PROVE  Tells(M, ShortStory, ShortOpenedAt, ShortClosedAt)
<1>1. ASSUME NEW i \in 1..8
      PROVE  /\ ShortStory[i] \in Decorated
             /\ i \in {1, 2, 3, 4} => i = ShortOpenedAt[ShortStory[i]]
             /\ i \notin {1, 2, 3, 4} => i = ShortClosedAt[ShortStory[i]]
  <2>1. i \in {1, 2, 3, 4} \/ i \in {5, 6, 7, 8}
    OBVIOUS
  <2>2. CASE i \in {1, 2, 3, 4}
    BY <2>2, ShortStoryAt, ShortStoryPlaces, AreDecorated
  <2>3. CASE i \in {5, 6, 7, 8}
    BY <2>3, ShortStoryAt, ShortStoryPlaces, AreDecorated
  <2> QED BY <2>1, <2>2, <2>3
<1>2. ASSUME NEW f \in Decorated
      PROVE  /\ ShortOpenedAt[f] \in 1..8 =>
                  ShortOpenedAt[f] \in {1, 2, 3, 4} /\ ShortStory[ShortOpenedAt[f]] = f
             /\ ShortClosedAt[f] \in 1..8 =>
                  ShortClosedAt[f] \notin {1, 2, 3, 4} /\ ShortStory[ShortClosedAt[f]] = f
  BY ShortStoryAt, ShortStoryPlaces DEF Decorated
<1>3. \A i \in 1..8 : M[i] = "function_start" <=> i \in {1, 2, 3, 4}
  OBVIOUS
<1> QED BY <1>1, <1>2, <1>3, ShortStoryPlaces DEF Tells

(* The messages of the ten shapes of a log.                                *)
LEMMA Patterns ==
  ASSUME NEW s, NEW e, NEW y, NEW z
  PROVE  /\ LET M == <<s, s, s, s, e>>
            IN  Len(M) = 5 /\ \A i \in 1..5 : M[i] = IF i \in {1, 2, 3, 4, 7} THEN s ELSE e
         /\ LET M == <<s, s, s, s, e, e>>
            IN  Len(M) = 6 /\ \A i \in 1..6 : M[i] = IF i \in {1, 2, 3, 4, 7} THEN s ELSE e
         /\ LET M == <<s, s, s, s, e, e, s>>
            IN  Len(M) = 7 /\ \A i \in 1..7 : M[i] = IF i \in {1, 2, 3, 4, 7} THEN s ELSE e
         /\ LET M == <<s, s, s, s, e, e, s, e>>
            IN  Len(M) = 8 /\ \A i \in 1..8 : M[i] = IF i \in {1, 2, 3, 4, 7} THEN s ELSE e
         /\ LET M == <<s, s, s, s, e, e, s, y, z, z>>
            IN  /\ Len(M) = 10 /\ M[9] = z /\ M[10] = z
                /\ \A i \in 1..10 : \/ i \in {1, 2, 3, 4, 7} /\ M[i] = s
                                    \/ i \notin {1, 2, 3, 4, 7} /\ M[i] \in {e, y, z}
         /\ LET M == <<s, s, s, s, e, z, z, z>>
            IN  /\ Len(M) = 8 /\ M[7] = z /\ M[8] = z
                /\ \A i \in 1..8 : \/ i \in {1, 2, 3, 4} /\ M[i] = s
                                   \/ i \notin {1, 2, 3, 4} /\ M[i] \in {e, z}
<1>1. /\ \A i \in 1..5 : i = 1 \/ i = 2 \/ i = 3 \/ i = 4 \/ i = 5
      /\ \A i \in 1..6 : i = 1 \/ i = 2 \/ i = 3 \/ i = 4 \/ i = 5 \/ i = 6
      /\ \A i \in 1..7 : i = 1 \/ i = 2 \/ i = 3 \/ i = 4 \/ i = 5 \/ i = 6 \/ i = 7
      /\ \A i \in 1..8 : i = 1 \/ i = 2 \/ i = 3 \/ i = 4 \/ i = 5 \/ i = 6 \/ i = 7 \/ i = 8
  OBVIOUS
<1>2. \A i \in 1..10 : i = 1 \/ i = 2 \/ i = 3 \/ i = 4 \/ i = 5 \/ i = 6 \/ i = 7 \/ i = 8
                       \/ i = 9 \/ i = 10
  OBVIOUS
<1>3. LET M == <<s, s, s, s, e>>
      IN  Len(M) = 5 /\ \A i \in 1..5 : M[i] = IF i \in {1, 2, 3, 4, 7} THEN s ELSE e
  BY <1>1
<1>4. LET M == <<s, s, s, s, e, e>>
      IN  Len(M) = 6 /\ \A i \in 1..6 : M[i] = IF i \in {1, 2, 3, 4, 7} THEN s ELSE e
  BY <1>1
<1>5. LET M == <<s, s, s, s, e, e, s>>
      IN  Len(M) = 7 /\ \A i \in 1..7 : M[i] = IF i \in {1, 2, 3, 4, 7} THEN s ELSE e
  BY <1>1
<1>6. LET M == <<s, s, s, s, e, e, s, e>>
      IN  Len(M) = 8 /\ \A i \in 1..8 : M[i] = IF i \in {1, 2, 3, 4, 7} THEN s ELSE e
  BY <1>1
<1>7. LET M == <<s, s, s, s, e, e, s, y, z, z>>
      IN  /\ Len(M) = 10 /\ M[9] = z /\ M[10] = z
          /\ \A i \in 1..10 : \/ i \in {1, 2, 3, 4, 7} /\ M[i] = s
                              \/ i \notin {1, 2, 3, 4, 7} /\ M[i] \in {e, y, z}
  BY <1>2
<1>8. LET M == <<s, s, s, s, e, z, z, z>>
      IN  /\ Len(M) = 8 /\ M[7] = z /\ M[8] = z
          /\ \A i \in 1..8 : \/ i \in {1, 2, 3, 4} /\ M[i] = s
                             \/ i \notin {1, 2, 3, 4} /\ M[i] \in {e, z}
  BY <1>1
<1> QED BY <1>3, <1>4, <1>5, <1>6, <1>7, <1>8

(* A call is closed after all those it started.                            *)
Nested ==
  \A f, g \in Decorated : \A i \in Starts(f), j \in Starts(g), k \in Closings(f) :
    i < j /\ j < k => \E l \in Closings(g) : j < l /\ l < k

(* What the log of a ping that got a client says, place by place.          *)
LEMMA StoryRead ==
  ASSUME NEW M, Reads(log, M, Story), NEW n \in {0, 5, 6, 7, 8, 10}, Len(M) = n,
         \A i \in 1..n : IF i \in {1, 2, 3, 4, 7} THEN M[i] = "function_start"
                         ELSE M[i] \in {"function_end", "function_error"}
  PROVE  /\ Nested
         /\ n \in {0, 10} => Unclosed = {}
         /\ n = 5 => Unclosed = {"check", "ping", "connect"}
         /\ n \in {6, 8} => Unclosed = {"check", "ping"}
         /\ n = 7 => Unclosed = {"check", "ping", "_close_async_client"}
         /\ n # 10 => \A f \in {"check", "ping"}, m \in {"function_end", "function_error"} :
                        At(m, f) = {}
         /\ n = 10 => \A m \in {"function_end", "function_error"} :
                        /\ At(m, "check") # {} <=> M[10] = m
                        /\ At(m, "ping") # {} <=> M[9] = m
<1>1. Tells(M, Story, OpenedAt, ClosedAt)
  <2>1. n \in 0..10
    OBVIOUS
  <2> QED BY <2>1, StoryTold
<1>2. Nested
  BY <1>1, Reader, StoryNests DEF Nested
<1>3. ASSUME NEW f \in Decorated
      PROVE  f \in Unclosed <=> OpenedAt[f] \in 1..n /\ ClosedAt[f] \notin 1..n
  BY <1>1, Reader
<1>4. Unclosed \subseteq Decorated
  BY <1>1, Reader
<1>5. /\ "check" \in Unclosed <=> n \in {5, 6, 7, 8}
      /\ "ping" \in Unclosed <=> n \in {5, 6, 7, 8}
      /\ "connect" \in Unclosed <=> n = 5
      /\ "connect_kwargs" \notin Unclosed
      /\ "_close_async_client" \in Unclosed <=> n = 7
  <2>1. /\ "check" \in Unclosed <=> 1 \in 1..n /\ 10 \notin 1..n
        /\ "ping" \in Unclosed <=> 2 \in 1..n /\ 9 \notin 1..n
        /\ "connect" \in Unclosed <=> 3 \in 1..n /\ 6 \notin 1..n
        /\ "connect_kwargs" \in Unclosed <=> 4 \in 1..n /\ 5 \notin 1..n
        /\ "_close_async_client" \in Unclosed <=> 7 \in 1..n /\ 8 \notin 1..n
    BY <1>3, StoryPlaces, AreDecorated
  <2> QED BY <2>1
<1>6. ASSUME NEW m \in {"function_end", "function_error"}
      PROVE  /\ At(m, "check") # {} <=> n = 10 /\ M[10] = m
             /\ At(m, "ping") # {} <=> n = 10 /\ M[9] = m
  <2>1. /\ At(m, "check") # {} <=> 10 \in 1..n /\ M[10] = m
        /\ At(m, "ping") # {} <=> 9 \in 1..n /\ M[9] = m
    BY <1>1, Places, StoryPlaces, AreDecorated
  <2> QED BY <2>1
<1>7. /\ n \in {0, 10} => Unclosed = {}
      /\ n = 5 => Unclosed = {"check", "ping", "connect"}
      /\ n \in {6, 8} => Unclosed = {"check", "ping"}
      /\ n = 7 => Unclosed = {"check", "ping", "_close_async_client"}
  <2>1. CASE n \in {0, 10}
    <3>1. \A f \in Decorated : f \notin Unclosed
      BY <1>5, <2>1 DEF Decorated
    <3> QED BY <1>4, <2>1, <3>1
  <2>2. CASE n = 5
    <3>1. \A f \in Decorated : f \in Unclosed <=> f \in {"check", "ping", "connect"}
      BY <1>5, <2>2 DEF Decorated
    <3> QED BY <1>4, <2>2, <3>1, AreDecorated
  <2>3. CASE n \in {6, 8}
    <3>1. \A f \in Decorated : f \in Unclosed <=> f \in {"check", "ping"}
      BY <1>5, <2>3 DEF Decorated
    <3> QED BY <1>4, <2>3, <3>1, AreDecorated
  <2>4. CASE n = 7
    <3>1. \A f \in Decorated : f \in Unclosed <=> f \in {"check", "ping", "_close_async_client"}
      BY <1>5, <2>4 DEF Decorated
    <3> QED BY <1>4, <2>4, <3>1, AreDecorated
  <2> QED BY <2>1, <2>2, <2>3, <2>4
<1>8. n # 10 => \A f \in {"check", "ping"}, m \in {"function_end", "function_error"} : At(m, f) = {}
  BY <1>6
<1> QED BY <1>2, <1>6, <1>7, <1>8

(* The same of a ping whose connect failed.                                *)
LEMMA ShortStoryRead ==
  ASSUME NEW M, Reads(log, M, ShortStory), Len(M) = 8,
         \A i \in 1..8 : IF i \in {1, 2, 3, 4} THEN M[i] = "function_start"
                         ELSE M[i] \in {"function_end", "function_error"}
  PROVE  /\ Nested /\ Unclosed = {}
         /\ \A m \in {"function_end", "function_error"} :
              /\ At(m, "check") # {} <=> M[8] = m
              /\ At(m, "ping") # {} <=> M[7] = m
<1>1. Tells(M, ShortStory, ShortOpenedAt, ShortClosedAt)
  BY ShortStoryTold
<1>2. Nested
  BY <1>1, Reader, ShortStoryNests DEF Nested
<1>3. ASSUME NEW f \in Decorated PROVE f \notin Unclosed
  <2>1. f \in Unclosed <=> ShortOpenedAt[f] \in 1..8 /\ ShortClosedAt[f] \notin 1..8
    BY <1>1, Reader
  <2> QED BY <2>1, ShortStoryPlaces DEF Decorated
<1>4. Unclosed = {}
  BY <1>1, <1>3, Reader
<1>5. ASSUME NEW m \in {"function_end", "function_error"}
      PROVE  /\ At(m, "check") # {} <=> M[8] = m
             /\ At(m, "ping") # {} <=> M[7] = m
  <2>1. /\ At(m, "check") # {} <=> 8 \in 1..8 /\ M[8] = m
        /\ At(m, "ping") # {} <=> 7 \in 1..8 /\ M[7] = m
    <3>1. \A f \in Decorated : At(m, f) # {} <=> ShortClosedAt[f] \in 1..8 /\ M[ShortClosedAt[f]] = m
      <4>1. \A f \in Decorated : \A k \in {"function_end", "function_error"} :
              At(k, f) # {} <=> ShortClosedAt[f] \in 1..Len(M) /\ M[ShortClosedAt[f]] = k
        BY <1>1, Places, Zenon
      <4> QED BY <4>1
    <3> QED BY <3>1, ShortStoryPlaces, AreDecorated
  <2> QED BY <2>1
<1> QED BY <1>2, <1>4, <1>5

(* The same for the shapes that LogInv names.                              *)
Silent ==
  \A f \in {"check", "ping"}, m \in {"function_end", "function_error"} : At(m, f) = {}

(* Before the first record.                                                *)
LEMMA NoneRead == Reads(log, << >>, Story) => Nested /\ Silent /\ Unclosed = {}
<1> SUFFICES ASSUME Reads(log, << >>, Story) PROVE Nested /\ Silent /\ Unclosed = {}
  OBVIOUS
<1>1. PICK M : M = << >>
  OBVIOUS
<1>2. Reads(log, M, Story) /\ Len(M) = 0
  BY <1>1
<1> QED BY <1>2, StoryRead DEF Silent

(* While connect runs.                                                     *)
LEMMA ConnectingRead ==
  ASSUME NEW s, NEW e, s = "function_start", e = "function_end",
         Reads(log, <<s, s, s, s, e>>, Story)
  PROVE  Nested /\ Silent /\ Unclosed = {"check", "ping", "connect"}
<1>1. PICK M : M = <<s, s, s, s, e>>
  OBVIOUS
<1>2. Reads(log, M, Story)
  BY <1>1
<1>3. Len(M) = 5 /\ \A i \in 1..5 : M[i] = IF i \in {1, 2, 3, 4, 7} THEN s ELSE e
  BY <1>1, Patterns
<1> QED BY <1>2, <1>3, StoryRead DEF Silent

(* While the client flushes.                                               *)
LEMMA FlushingRead ==
  ASSUME NEW s, NEW e, s = "function_start", e = "function_end",
         Reads(log, <<s, s, s, s, e, e>>, Story)
  PROVE  Nested /\ Silent /\ Unclosed = {"check", "ping"}
<1>1. PICK M : M = <<s, s, s, s, e, e>>
  OBVIOUS
<1>2. Reads(log, M, Story)
  BY <1>1
<1>3. Len(M) = 6 /\ \A i \in 1..6 : M[i] = IF i \in {1, 2, 3, 4, 7} THEN s ELSE e
  BY <1>1, Patterns
<1> QED BY <1>2, <1>3, StoryRead DEF Silent

(* While the cleanup runs.                                                 *)
LEMMA CleaningRead ==
  ASSUME NEW s, NEW e, s = "function_start", e = "function_end",
         Reads(log, <<s, s, s, s, e, e, s>>, Story)
  PROVE  Nested /\ Silent /\ Unclosed = {"check", "ping", "_close_async_client"}
<1>1. PICK M : M = <<s, s, s, s, e, e, s>>
  OBVIOUS
<1>2. Reads(log, M, Story)
  BY <1>1
<1>3. Len(M) = 7 /\ \A i \in 1..7 : M[i] = IF i \in {1, 2, 3, 4, 7} THEN s ELSE e
  BY <1>1, Patterns
<1> QED BY <1>2, <1>3, StoryRead DEF Silent

(* After a cleanup, when nothing else is recorded.                         *)
LEMMA CleanedRead ==
  ASSUME NEW s, NEW e, s = "function_start", e = "function_end",
         Reads(log, <<s, s, s, s, e, e, s, e>>, Story)
  PROVE  Nested /\ Silent /\ Unclosed = {"check", "ping"}
<1>1. PICK M : M = <<s, s, s, s, e, e, s, e>>
  OBVIOUS
<1>2. Reads(log, M, Story)
  BY <1>1
<1>3. Len(M) = 8 /\ \A i \in 1..8 : M[i] = IF i \in {1, 2, 3, 4, 7} THEN s ELSE e
  BY <1>1, Patterns
<1> QED BY <1>2, <1>3, StoryRead DEF Silent

(* Both check and ping are closed, with this message.                      *)
Both(m) ==
  /\ \A f \in {"check", "ping"} : At(m, f) # {}
  /\ \A f \in {"check", "ping"}, o \in {"function_end", "function_error"} : o # m => At(o, f) = {}

(* At the end of a ping that got a client.                                 *)
LEMMA EndedRead ==
  ASSUME NEW s, NEW e, s = "function_start", e = "function_end",
         NEW y \in {"function_end", "function_error"}, NEW z \in {"function_end", "function_error"},
         Reads(log, <<s, s, s, s, e, e, s, y, z, z>>, Story)
  PROVE  Nested /\ Both(z) /\ Unclosed = {}
<1>1. PICK M : M = <<s, s, s, s, e, e, s, y, z, z>>
  OBVIOUS
<1>2. Reads(log, M, Story)
  BY <1>1
<1>3. /\ Len(M) = 10 /\ M[9] = z /\ M[10] = z
      /\ \A i \in 1..10 : \/ i \in {1, 2, 3, 4, 7} /\ M[i] = s
                          \/ i \notin {1, 2, 3, 4, 7} /\ M[i] \in {e, y, z}
  BY <1>1, Patterns
<1>4. \A i \in 1..10 : IF i \in {1, 2, 3, 4, 7} THEN M[i] = "function_start"
                       ELSE M[i] \in {"function_end", "function_error"}
  BY <1>3
<1>5. /\ Nested /\ Unclosed = {}
      /\ \A m \in {"function_end", "function_error"} :
           /\ At(m, "check") # {} <=> M[10] = m
           /\ At(m, "ping") # {} <=> M[9] = m
  BY <1>2, <1>3, <1>4, StoryRead
<1> QED BY <1>3, <1>5 DEF Both

(* At the end of a ping whose connect failed.                              *)
LEMMA FailedRead ==
  ASSUME NEW s, NEW e, NEW x, s = "function_start", e = "function_end", x = "function_error",
         Reads(log, <<s, s, s, s, e, x, x, x>>, ShortStory)
  PROVE  Nested /\ Both(x) /\ Unclosed = {}
<1>1. PICK M : M = <<s, s, s, s, e, x, x, x>>
  OBVIOUS
<1>2. Reads(log, M, ShortStory)
  BY <1>1
<1>3. /\ Len(M) = 8 /\ M[7] = x /\ M[8] = x
      /\ \A i \in 1..8 : \/ i \in {1, 2, 3, 4} /\ M[i] = s
                         \/ i \notin {1, 2, 3, 4} /\ M[i] \in {e, x}
  BY <1>1, Patterns
<1>4. \A i \in 1..8 : IF i \in {1, 2, 3, 4} THEN M[i] = "function_start"
                      ELSE M[i] \in {"function_end", "function_error"}
  BY <1>3
<1>5. /\ Nested /\ Unclosed = {}
      /\ \A m \in {"function_end", "function_error"} :
           /\ At(m, "check") # {} <=> M[8] = m
           /\ At(m, "ping") # {} <=> M[7] = m
  BY <1>2, <1>3, <1>4, ShortStoryRead
<1> QED BY <1>3, <1>5 DEF Both

(* What runs is what is open.                                              *)
LEMMA Running ==
  ASSUME NEW a, NEW b, NEW c
  PROVE  /\ open = << >> => Range(open) = {}
         /\ open = <<a, b>> => Range(open) = {a, b}
         /\ open = <<a, b, c>> => Range(open) = {a, b, c}
<1>1. open = << >> => Range(open) = {}
  BY DEF Range
<1>2. open = <<a, b>> => Range(open) = {a, b}
  <2>1. \A i \in 1..2 : i = 1 \/ i = 2
    OBVIOUS
  <2> QED BY <2>1 DEF Range
<1>3. open = <<a, b, c>> => Range(open) = {a, b, c}
  <2>1. \A i \in 1..3 : i = 1 \/ i = 2 \/ i = 3
    OBVIOUS
  <2> QED BY <2>1 DEF Range
<1> QED BY <1>1, <1>2, <1>3

(* A log of that shape tells the fate of the check.                        *)
LEMMA LogTells == IInv /\ LogInv => LogTellsTheFate
<1> SUFFICES ASSUME IInv, LogInv PROVE LogTellsTheFate
  OBVIOUS
<1> DEFINE s == "function_start"
           e == "function_end"
           x == "function_error"
<1>0. /\ pc \in PCs /\ (result # "none" <=> pc = "done")
      /\ result \in {"none", "returned", "connect error", "flush error", "cleanup error", "cancelled"}
  BY DEF IInv, TypeOK, Results
<1>1. CASE result = "none"
  <2>1. Nested /\ Silent /\ Unclosed = Range(open)
    <3>1. CASE pc = "start"
      BY <3>1, NoneRead, Running DEF LogInv
    <3>2. CASE pc = "connecting"
      <4>1. open = <<"check", "ping", "connect">> /\ Reads(log, <<s, s, s, s, e>>, Story)
        BY <3>2 DEF LogInv
      <4>2. Range(open) = {"check", "ping", "connect"}
        BY <4>1, Running
      <4> QED BY <4>1, <4>2, ConnectingRead
    <3>3. CASE pc \in {"flush", "flushing"}
      <4>1. open = <<"check", "ping">> /\ Reads(log, <<s, s, s, s, e, e>>, Story)
        BY <3>3 DEF LogInv
      <4>2. Range(open) = {"check", "ping"}
        BY <4>1, Running
      <4> QED BY <4>1, <4>2, FlushingRead
    <3>4. CASE pc \in {"drain", "draining", "close", "closing"}
      <4>1. open = <<"check", "ping", "_close_async_client">> /\ Reads(log, <<s, s, s, s, e, e, s>>, Story)
        BY <3>4 DEF LogInv
      <4>2. Range(open) = {"check", "ping", "_close_async_client"}
        BY <4>1, Running
      <4> QED BY <4>1, <4>2, CleaningRead
    <3> QED BY <1>0, <1>1, <3>1, <3>2, <3>3, <3>4 DEF PCs
  <2> QED BY <1>1, <2>1 DEF LogTellsTheFate, Nested, Silent
<1>2. CASE result = "cancelled"
  <2>1. Nested /\ Silent /\ {"check", "ping"} \subseteq Unclosed
    <3>1. \/ Reads(log, <<s, s, s, s, e>>, Story)
          \/ Reads(log, <<s, s, s, s, e, e, s>>, Story)
          \/ Reads(log, <<s, s, s, s, e, e, s, e>>, Story)
      BY <1>2 DEF LogInv
    <3>2. CASE Reads(log, <<s, s, s, s, e>>, Story)
      BY <3>2, ConnectingRead
    <3>3. CASE Reads(log, <<s, s, s, s, e, e, s>>, Story)
      BY <3>3, CleaningRead
    <3>4. CASE Reads(log, <<s, s, s, s, e, e, s, e>>, Story)
      BY <3>4, CleanedRead
    <3> QED BY <3>1, <3>2, <3>3, <3>4
  <2> QED BY <1>2, <2>1 DEF LogTellsTheFate, Nested, Silent
<1>3. CASE result = "returned"
  <2>1. Nested /\ Both("function_end") /\ Unclosed = {}
    <3>1. Reads(log, <<s, s, s, s, e, e, s, e, e, e>>, Story)
      BY <1>3 DEF LogInv
    <3> QED BY <3>1, EndedRead
  <2> QED BY <1>3, <2>1 DEF LogTellsTheFate, Nested, Both
<1>4. CASE result \in {"connect error", "flush error", "cleanup error"}
  <2>1. Nested /\ Both("function_error") /\ Unclosed = {}
    <3>1. CASE result = "connect error"
      BY <3>1, FailedRead DEF LogInv
    <3>2. CASE result = "flush error"
      <4>1. Reads(log, <<s, s, s, s, e, e, s, e, x, x>>, Story)
        BY <3>2 DEF LogInv
      <4> QED BY <4>1, EndedRead
    <3>3. CASE result = "cleanup error"
      <4>1. Reads(log, <<s, s, s, s, e, e, s, x, x, x>>, Story)
        BY <3>3 DEF LogInv
      <4> QED BY <4>1, EndedRead
    <3> QED BY <1>4, <3>1, <3>2, <3>3
  <2> QED BY <1>4, <2>1 DEF LogTellsTheFate, Nested, Both
<1> QED BY <1>0, <1>1, <1>2, <1>3, <1>4

(* The records of a check, read by themselves, tell how it ended, except   *)
(* that a cancelled one looks like one that still runs                     *)
(* (function_logging.py 55-78, factories.py 107-127, 273-285).             *)
THEOREM FateIsTold == LoggedSpec => []LogTellsTheFate
BY LoggedInvariance, LogTells, PTL

=============================================================================
