-------------------------- MODULE RateLedgerProofs --------------------------
(***************************************************************************)
(* The quota ledger keeps the limits it is given, for every set of models, *)
(* every limit, every request and every length of minute, day and month:   *)
(* the minute limits and the monthly caps always; the daily limits, the    *)
(* concurrency of the key and the account's token pool when attempts end   *)
(* within the age of their lease (the pool, when its models are billed at  *)
(* one rate besides).                                                      *)
(*                                                                         *)
(* Tokens are limited only up to what answers overran their estimates, a   *)
(* bound that is not inductive: it allows for open attempts too, whose     *)
(* overrun is still to come.  What is preserved is the bound on what was   *)
(* promised (Committed): an open attempt counts its estimate, an answered  *)
(* one its tokens less Overrun.                                            *)
(***************************************************************************)
EXTENDS RateLedger, TLAPS, FiniteSetTheorems, FoldLemmas

Finite == IsFiniteSet(attempts) /\ IsFiniteSet(answered)
\* Nothing is recorded before it was sent, nor after now.
Timely ==
  /\ \A a \in attempts : a.at <= now
  /\ \A u \in answered : u.sent <= u.at
\* The sweep forgets no row a window of a day still asks for.
Remembered == \A u \in answered : now - DAY < u.at => u \in usage
\* Attempts end within the age of their lease, when they do.
Short == ~LongAttempts => \A a \in attempts : now <= a.at + LEASE_MAX_AGE
MonthPast == monthly.month <= Month

\* The inductive invariant all limits rest on.
Books == Finite /\ Timely /\ Remembered /\ Short /\ MonthPast
Inv == TypeOK /\ Books

-----------------------------------------------------------------------------
(* The calendar. *)

\* Division and remainder by a window.
LEMMA Division ==
  ASSUME NEW n \in Nat, NEW d \in Nat \ {0}
  PROVE  n \div d \in Nat /\ n % d \in 0 .. d - 1 /\ n = d * (n \div d) + (n % d)
  BY SMT

\* Neither months nor midnights go back.
LEMMA DivisionGrows ==
  ASSUME NEW n \in Nat, NEW d \in Nat \ {0}
  PROVE  /\ n \div d <= (n + 1) \div d
         /\ n - (n % d) <= (n + 1) - ((n + 1) % d)
<1>1. n \div d <= (n + 1) \div d
  BY SMT
<1>2. n - (n % d) = d * (n \div d) /\ n + 1 - ((n + 1) % d) = d * ((n + 1) \div d)
  BY Division
<1>3. ASSUME NEW p \in Nat, NEW q \in Nat, p <= q PROVE d * p <= d * q
  BY <1>3, SMT
<1>4. d * (n \div d) <= d * ((n + 1) \div d)
  BY <1>1, <1>3, Division
<1> QED BY <1>1, <1>2, <1>4

\* The midnight of now is within the last day.
LEMMA MidnightType ==
  ASSUME TypeOK
  PROVE  Midnight \in Int /\ now - DAY <= Midnight /\ Month \in Nat
<1>1. now \in Nat /\ DAY \in Nat \ {0} /\ MONTH \in Nat \ {0}
  BY WindowAssumption DEF TypeOK
<1>2. now % DAY \in 0 .. DAY - 1 /\ now \div MONTH \in Nat
  BY <1>1, Division
<1> QED BY <1>1, <1>2 DEF Midnight, Month

-----------------------------------------------------------------------------
(* The invariant. *)

\* What the ledger counts is finite.
LEMMA CountsType ==
  ASSUME TypeOK, Finite, NEW M, NEW start \in Int
  PROVE  /\ IsFiniteSet(RowsSent(M, start)) /\ IsFiniteSet(OpenSent(M, start))
         /\ IsFiniteSet(Since(M, start)) /\ IsFiniteSet(Leases(M)) /\ IsFiniteSet(Open)
         /\ Cardinality(RowsSent(M, start)) \in Nat
         /\ Cardinality(OpenSent(M, start)) \in Nat
         /\ Cardinality(Since(M, start)) \in Nat
         /\ Cardinality(Leases(M)) \in Nat
         /\ Cardinality(Open) \in Nat
         /\ Cardinality(attempts) \in Nat
         /\ Cardinality(Open) <= Cardinality(attempts)
<1>1. RowsSent(M, start) \subseteq answered /\ Since(M, start) \subseteq answered
  BY DEF RowsSent, Since, TypeOK
<1>2. /\ OpenSent(M, start) \subseteq attempts /\ Leases(M) \subseteq attempts
      /\ Open \subseteq attempts
  BY DEF OpenSent, Open, Leases
<1> QED BY <1>1, <1>2, FS_Subset, FS_CardinalityType DEF Finite

\* At start the books are empty.
LEMMA InitInv == Init => Inv
<1> SUFFICES ASSUME Init PROVE Inv
  OBVIOUS
<1>1. TypeOK
  BY DEF Init, TypeOK, NoMonth
<1>2. Finite /\ Timely /\ Remembered /\ Short
  BY FS_EmptySet DEF Init, Finite, Timely, Remembered, Short
<1>3. MonthPast
  BY <1>1, MidnightType DEF Init, NoMonth, MonthPast
<1> QED BY <1>1, <1>2, <1>3 DEF Inv, Books

\* A dispatch opens one attempt, sent now.
LEMMA DispatchInv ==
  ASSUME Inv, NEW m \in Models, NEW e \in Estimates, Dispatch(m, e)
  PROVE  Inv'
<1> DEFINE new == [id |-> issued, model |-> m, tokens |-> e, at |-> now, served |-> FALSE]
<1>1. /\ attempts' = attempts \cup {new} /\ issued' = issued + 1
      /\ UNCHANGED <<now, usage, answered, lastPrune, monthly>>
  BY DEF Dispatch
<1>2. new \in Attempt /\ new.at = now
  BY RequestAssumption DEF Attempt, Inv, TypeOK
<1> HIDE DEF new
<1>3. TypeOK'
  BY <1>1, <1>2 DEF Inv, TypeOK
<1>4. Finite'
  BY <1>1, FS_AddElement DEF Inv, Books, Finite
<1>5. Timely' /\ Remembered' /\ MonthPast'
  BY <1>1, <1>2 DEF Inv, Books, TypeOK, Timely, Remembered, MonthPast, Month
<1>6. Short'
  BY <1>1, <1>2, WindowAssumption DEF Inv, Books, TypeOK, Short
<1> QED BY <1>3, <1>4, <1>5, <1>6 DEF Inv, Books

\* Serving adds a row dated now, and sweeps only what no window asks for.
LEMMA ServeInv ==
  ASSUME Inv, NEW a \in attempts, NEW actual \in Nat, Serve(a, actual)
  PROVE  Inv'
<1> DEFINE row == RowFor(a, actual)
           done == [id |-> a.id, model |-> a.model, tokens |-> a.tokens,
                    at |-> a.at, served |-> TRUE]
<1>1. /\ usage' = Pruned(usage \cup {row}) /\ answered' = answered \cup {row}
      /\ lastPrune' \in {now, lastPrune}
      /\ monthly' = [month    |-> Month,
                     requests |-> getMonthlyUsage.requests + 1,
                     tokens   |-> getMonthlyUsage.tokens + actual]
      /\ attempts' = (attempts \ {a}) \cup {done}
      /\ UNCHANGED <<now, issued>>
  BY DEF Serve
<1>2. a \in Attempt /\ a.at <= now /\ now \in Nat
  BY DEF Inv, TypeOK, Books, Timely
<1>3. done \in Attempt /\ done.at = a.at
  BY <1>2 DEF Attempt
<1>4. row \in UsageRow /\ row.at = now /\ row.sent = a.at
  BY <1>2 DEF RowFor, Attempt, UsageRow
<1> HIDE DEF row, done
<1>5. getMonthlyUsage \in [month : Nat, requests : Nat, tokens : Nat] /\ Month \in Nat
  BY MidnightType DEF Inv, TypeOK, getMonthlyUsage
<1>6. usage' \subseteq usage \cup {row}
  BY <1>1 DEF Pruned, Sweep
<1>7. TypeOK'
  <2>1. monthly' \in [month : Nat, requests : Nat, tokens : Nat]
    BY <1>1, <1>5
  <2> QED BY <1>1, <1>2, <1>3, <1>4, <1>6, <2>1 DEF Inv, TypeOK
<1>8. Finite'
  BY <1>1, FS_AddElement, FS_RemoveElement DEF Inv, Books, Finite
<1>9. Timely' /\ Short'
  BY <1>1, <1>2, <1>3, <1>4 DEF Inv, Books, Timely, Short
<1>10. Remembered'
  <2> SUFFICES ASSUME NEW u \in answered', now - DAY < u.at PROVE u \in usage'
    BY <1>1 DEF Remembered
  <2>1. u \in usage \cup {row}
    BY <1>1 DEF Inv, Books, Remembered
  <2> QED BY <1>1, <2>1 DEF Pruned, Sweep
<1>11. MonthPast'
  BY <1>1, <1>5 DEF MonthPast, Month
<1> QED BY <1>7, <1>8, <1>9, <1>10, <1>11 DEF Inv, Books

\* An attempt that goes leaves nothing behind.
LEMMA GoneInv ==
  ASSUME Inv, NEW a \in attempts, Release(a) \/ Fail(a)
  PROVE  Inv'
<1>1. attempts' = attempts \ {a} /\ UNCHANGED <<now, issued, usage, answered, lastPrune, monthly>>
  BY DEF Release, Fail
<1>2. Finite'
  BY <1>1, FS_RemoveElement DEF Inv, Books, Finite
<1> QED BY <1>1, <1>2 DEF Inv, Books, TypeOK, Timely, Remembered, Short, MonthPast, Month

\* Time passes, but never past the lease of an attempt that must be short.
LEMMA TickInv ==
  ASSUME Inv, Tick
  PROVE  Inv'
<1>1. /\ now \in Nat /\ now' = now + 1 /\ UNCHANGED <<issued, attempts, usage, answered, lastPrune, monthly>>
      /\ LongAttempts \/ \A a \in attempts : now < a.at + LEASE_MAX_AGE
      /\ \A a \in attempts : a.at \in Nat
      /\ \A u \in answered : u.at \in Nat
  BY DEF Tick, Inv, TypeOK, Attempt, UsageRow
<1>2. TypeOK' /\ Finite' /\ Timely' /\ Short'
  BY <1>1, WindowAssumption DEF Inv, Books, TypeOK, Finite, Timely, Short
<1>3. Remembered'
  BY <1>1, WindowAssumption DEF Inv, Books, Remembered
<1>4. MonthPast'
  <2>1. now \in Nat /\ MONTH \in Nat \ {0}
    BY <1>1, WindowAssumption
  <2>2. now \div MONTH <= (now + 1) \div MONTH
    BY <2>1, DivisionGrows
  <2>3. now \div MONTH \in Nat /\ (now + 1) \div MONTH \in Nat
    BY <2>1, Division
  <2>4. monthly.month \in Nat /\ monthly.month <= now \div MONTH
    BY DEF Inv, Books, MonthPast, TypeOK, Month
  <2>5. monthly.month <= (now + 1) \div MONTH
    BY <2>2, <2>3, <2>4
  <2> QED BY <1>1, <2>5 DEF MonthPast, Month
<1> QED BY <1>2, <1>3, <1>4 DEF Inv, Books

\* A restart forgets what was in flight and keeps the rows.
LEMMA RestartInv ==
  ASSUME Inv, Restart
  PROVE  Inv'
<1>1. attempts' = {} /\ lastPrune' = 0 /\ UNCHANGED <<now, issued, usage, answered, monthly>>
  BY DEF Restart
<1> QED BY <1>1, FS_EmptySet
        DEF Inv, Books, TypeOK, Finite, Timely, Remembered, Short, MonthPast, Month

\* Every step keeps the books.
LEMMA NextInv == Inv /\ [Next]_vars => Inv'
<1> SUFFICES ASSUME Inv, [Next]_vars PROVE Inv'
  OBVIOUS
<1>1. ASSUME NEW m \in Models, NEW e \in Estimates, Dispatch(m, e) PROVE Inv'
  BY <1>1, DispatchInv
<1>2. ASSUME NEW a \in attempts, NEW actual \in 0 .. a.tokens + Overrun, Serve(a, actual)
      PROVE Inv'
  <2>1. actual \in Nat
    BY <1>2, RequestAssumption DEF Inv, TypeOK, Attempt
  <2> QED BY <1>2, <2>1, ServeInv
<1>3. ASSUME NEW a \in attempts, Release(a) \/ Fail(a) PROVE Inv'
  BY <1>3, GoneInv
<1>4. CASE Tick
  BY <1>4, TickInv
<1>5. CASE Restart
  BY <1>5, RestartInv
<1>6. CASE UNCHANGED vars
  BY <1>6 DEF vars, Inv, Books, TypeOK, Finite, Timely, Remembered, Short, MonthPast, Month
<1> QED BY <1>1, <1>2, <1>3, <1>4, <1>5, <1>6 DEF Next

\* The variables of the ledger keep their types, and the inductive invariant
\* holds of every reachable state.
THEOREM InvHolds == Spec => []Inv
  BY InitInv, NextInv, PTL DEF Spec

\* Every counter, row and reservation of the ledger keeps its type.
THEOREM TypeCorrect == Spec => []TypeOK
<1>1. Inv => TypeOK
  BY DEF Inv
<1> QED BY <1>1, InvHolds, PTL

-----------------------------------------------------------------------------
(* What the gates see is never less than what was sent. *)

\* Whatever was sent in a window is seen by its gate, as a lease or as a row.
LEMMA SentCovered ==
  ASSUME Inv, NEW M, NEW start \in Int, now - DAY <= start,
         now - LEASE_MAX_AGE <= start \/ ~LongAttempts
  PROVE  /\ RowsSent(M, start) \subseteq Since(M, start)
         /\ OpenSent(M, start) \subseteq Leases(M)
<1>1. RowsSent(M, start) \subseteq Since(M, start)
  BY WindowAssumption DEF RowsSent, Since, Inv, Books, Timely, Remembered, TypeOK, UsageRow
<1>2. OpenSent(M, start) \subseteq Leases(M)
  <2> SUFFICES ASSUME NEW a \in attempts, a.model \in M, start < a.at
               PROVE  now <= a.at + LEASE_MAX_AGE
    BY DEF OpenSent, Open, Leases
  <2>1. now \in Nat /\ LEASE_MAX_AGE \in Nat /\ a.at \in Nat
    BY WindowAssumption DEF Inv, TypeOK, Attempt
  <2>2. CASE now - LEASE_MAX_AGE <= start
    BY <2>1, <2>2
  <2>3. CASE ~LongAttempts
    BY <2>3 DEF Inv, Books, Short
  <2> QED BY <2>2, <2>3
<1> QED BY <1>1, <1>2

\* So the gate counts no fewer than were sent.
LEMMA SentSeen ==
  ASSUME Inv, NEW M, NEW start \in Int, now - DAY <= start,
         now - LEASE_MAX_AGE <= start \/ ~LongAttempts
  PROVE  Sent(M, start) <= Cardinality(Since(M, start)) + Cardinality(Leases(M))
<1>1. /\ Cardinality(RowsSent(M, start)) <= Cardinality(Since(M, start))
      /\ Cardinality(OpenSent(M, start)) <= Cardinality(Leases(M))
  BY SentCovered, CountsType, FS_Subset DEF Inv, Books
<1> QED BY <1>1, CountsType DEF Sent, Inv, Books

\* One more element is at most one more.
LEMMA OneMore ==
  ASSUME NEW S, NEW x, IsFiniteSet(S)
  PROVE  IsFiniteSet(S \cup {x}) /\ Cardinality(S \cup {x}) <= Cardinality(S) + 1
<1>1. Cardinality(S) \in Nat
  BY FS_CardinalityType
<1> QED BY <1>1, FS_AddElement

\* A step adds at most one to what was sent after an instant, and only a
\* Dispatch of one of the models counted adds anything.
LEMMA SentGrows ==
  ASSUME Inv, Next, NEW M \in SUBSET Models,
         NEW start \in Int, NEW later \in Int, start <= later
  PROVE  \/ Sent(M, later)' <= Sent(M, start)
         \/ \E m \in M, e \in Estimates :
              Dispatch(m, e) /\ Sent(M, later)' <= Sent(M, start) + 1
<1> DEFINE R == RowsSent(M, start)  O == OpenSent(M, start)
           NR == RowsSent(M, later)' NO == OpenSent(M, later)'
<1>1. Inv'
  BY NextInv
<1>2. /\ IsFiniteSet(R) /\ IsFiniteSet(O)
      /\ Cardinality(R) \in Nat /\ Cardinality(O) \in Nat
      /\ Cardinality(NR) \in Nat /\ Cardinality(NO) \in Nat
  <2>1. NR \subseteq answered' /\ NO \subseteq attempts'
    BY DEF RowsSent, OpenSent, Open
  <2>2. IsFiniteSet(answered') /\ IsFiniteSet(attempts')
    BY <1>1 DEF Inv, Books, Finite
  <2>3. Cardinality(NR) \in Nat /\ Cardinality(NO) \in Nat
    BY <2>1, <2>2, FS_Subset, FS_CardinalityType
  <2> QED BY <2>3, CountsType DEF Inv, Books
<1>3. Sent(M, start) = Cardinality(R) + Cardinality(O)
  BY DEF Sent
<1>4. Sent(M, later)' = Cardinality(NR) + Cardinality(NO)
  BY DEF Sent
<1>5. /\ \A u \in answered : u.sent \in Nat
      /\ \A a \in attempts : a.at \in Nat /\ a.model \in Models
  BY DEF Inv, TypeOK, Attempt, UsageRow
<1>6. ASSUME NR \subseteq R, NO \subseteq O PROVE Sent(M, later)' <= Sent(M, start)
  <2>1. Cardinality(NR) <= Cardinality(R) /\ Cardinality(NO) <= Cardinality(O)
    BY <1>2, <1>6, FS_Subset
  <2> HIDE DEF R, O, NR, NO
  <2> QED BY <1>2, <1>3, <1>4, <2>1
<1>7. ASSUME NEW m \in Models, NEW e \in Estimates, Dispatch(m, e)
      PROVE  \/ Sent(M, later)' <= Sent(M, start)
             \/ m \in M /\ Sent(M, later)' <= Sent(M, start) + 1
  <2> DEFINE new == [id |-> issued, model |-> m, tokens |-> e, at |-> now, served |-> FALSE]
  <2>1. attempts' = attempts \cup {new} /\ answered' = answered /\ new.model = m
    BY <1>7 DEF Dispatch
  <2> HIDE DEF new
  <2>2. NR \subseteq R
    BY <2>1, <1>5 DEF RowsSent
  <2>3. CASE m \notin M
    <3>1. NO \subseteq O
      BY <2>1, <2>3, <1>5 DEF OpenSent, Open
    <3> QED BY <2>2, <3>1, <1>6
  <2>4. CASE m \in M
    <3>1. NO \subseteq O \cup {new}
      BY <2>1, <1>5 DEF OpenSent, Open
    <3> HIDE DEF R, O, NR, NO
    <3>2. IsFiniteSet(O \cup {new}) /\ Cardinality(O \cup {new}) <= Cardinality(O) + 1
      BY <1>2, OneMore
    <3>3. Cardinality(NO) <= Cardinality(O \cup {new}) /\ Cardinality(NR) <= Cardinality(R)
      BY <2>2, <3>1, <3>2, <1>2, FS_Subset
    <3>4. Cardinality(O \cup {new}) \in Nat
      BY <3>2, FS_CardinalityType
    <3> QED BY <1>2, <1>3, <1>4, <2>4, <3>2, <3>3, <3>4
  <2> QED BY <2>3, <2>4
<1>8. ASSUME NEW a \in attempts, NEW actual \in 0 .. a.tokens + Overrun, Serve(a, actual)
      PROVE  Sent(M, later)' <= Sent(M, start)
  <2> DEFINE row == RowFor(a, actual)
             done == [id |-> a.id, model |-> a.model, tokens |-> a.tokens,
                      at |-> a.at, served |-> TRUE]
  <2>1. /\ attempts' = (attempts \ {a}) \cup {done} /\ answered' = answered \cup {row}
        /\ row.sent = a.at /\ row.model = a.model /\ done.served = TRUE /\ ~a.served
    BY <1>8 DEF Serve, RowFor
  <2> HIDE DEF row, done
  <2>2. NO \subseteq O \ {a}
    BY <2>1, <1>5 DEF OpenSent, Open
  <2>3. NR \subseteq R \cup {row}
    BY <2>1, <1>5 DEF RowsSent
  <2>4. CASE a \in O
    <3> HIDE DEF R, O, NR, NO
    <3>1. /\ IsFiniteSet(O \ {a}) /\ Cardinality(O \ {a}) = Cardinality(O) - 1
          /\ IsFiniteSet(R \cup {row}) /\ Cardinality(R \cup {row}) <= Cardinality(R) + 1
      BY <1>2, <2>4, OneMore, FS_RemoveElement
    <3>2. Cardinality(NO) <= Cardinality(O) - 1 /\ Cardinality(NR) <= Cardinality(R \cup {row})
      BY <2>2, <2>3, <3>1, FS_Subset
    <3>3. Cardinality(R \cup {row}) \in Nat
      BY <3>1, FS_CardinalityType
    <3> QED BY <1>2, <1>3, <1>4, <3>1, <3>2, <3>3
  <2>5. CASE a \notin O
    <3>1. NR \subseteq R
      BY <2>1, <2>5, <1>5 DEF RowsSent, OpenSent, Open
    <3> QED BY <2>2, <3>1, <1>6
  <2> QED BY <2>4, <2>5
<1>9. ASSUME NEW a \in attempts, Release(a) \/ Fail(a)
      PROVE  Sent(M, later)' <= Sent(M, start)
  <2>1. NR \subseteq R /\ NO \subseteq O
    BY <1>9, <1>5 DEF Release, Fail, RowsSent, OpenSent, Open
  <2> QED BY <2>1, <1>6
<1>10. CASE Tick
  <2>1. NR \subseteq R /\ NO \subseteq O
    BY <1>10, <1>5 DEF Tick, RowsSent, OpenSent, Open
  <2> QED BY <2>1, <1>6
<1>11. CASE Restart
  <2>1. NR \subseteq R /\ NO \subseteq O
    BY <1>11, <1>5 DEF Restart, RowsSent, OpenSent, Open
  <2> QED BY <2>1, <1>6
<1> HIDE DEF R, O, NR, NO
<1>12. CASE \E m \in Models, e \in Estimates : Dispatch(m, e)
  BY <1>7, <1>12
<1> QED BY <1>8, <1>9, <1>10, <1>11, <1>12 DEF Next

\* A limit whose gate every Dispatch passes is kept by every step.
LEMMA LimitStep ==
  ASSUME Inv, Next, NEW M \in SUBSET Models, NEW cap \in Limits,
         NEW start \in Int, NEW later \in Int, start <= later,
         now - DAY <= start, now - LEASE_MAX_AGE <= start \/ ~LongAttempts,
         Fits(cap, Sent(M, start)),
         \A m \in M, e \in Estimates :
           Dispatch(m, e) => Below(cap, Cardinality(Since(M, start)) + Cardinality(Leases(M)))
  PROVE  Fits(cap, Sent(M, later)')
<1> SUFFICES ASSUME cap \in Nat PROVE Sent(M, later)' <= cap
  BY LimitAssumption DEF Fits, Limits
<1> DEFINE sent == Sent(M, start)  next == Sent(M, later)'
           seen == Cardinality(Since(M, start)) + Cardinality(Leases(M))
<1>1. sent <= cap
  BY LimitAssumption DEF Fits
<1>2. sent \in Nat /\ seen \in Nat /\ sent <= seen
  BY SentSeen, CountsType DEF Inv, Books, Sent
<1>3. next \in Nat
  <2>1. RowsSent(M, later)' \subseteq answered' /\ OpenSent(M, later)' \subseteq attempts'
    BY DEF RowsSent, OpenSent, Open
  <2>2. IsFiniteSet(answered') /\ IsFiniteSet(attempts')
    BY NextInv DEF Inv, Books, Finite
  <2> QED BY <2>1, <2>2, FS_Subset, FS_CardinalityType DEF Sent
<1>4. next <= sent \/ (next <= sent + 1 /\ seen < cap)
  BY SentGrows, LimitAssumption DEF Below
<1> HIDE DEF sent, next, seen
<1>5. next <= cap
  BY <1>1, <1>2, <1>3, <1>4
<1> QED BY <1>5 DEF next

\* At first nothing has been sent.
LEMMA NothingSent ==
  ASSUME Init, NEW M, NEW start, NEW cap \in Limits
  PROVE  Fits(cap, Sent(M, start))
<1>1. RowsSent(M, start) = {} /\ OpenSent(M, start) = {}
  BY DEF Init, RowsSent, OpenSent, Open
<1>2. Sent(M, start) = 0
  BY <1>1, FS_EmptySet DEF Sent
<1> QED BY <1>2, LimitAssumption DEF Fits, Limits

\* A limit is a number, or there is none.
LEMMA CapTypes ==
  /\ \A m \in Models : rpm[m] \in Limits /\ rpd[m] \in Limits
  /\ {MinuteCap, DailyCap, MonthRequestCap, Concurrency} \subseteq Limits
  BY LimitAssumption

\* The clock stands or ticks.
LEMMA Clock ==
  ASSUME Inv, Next
  PROVE  /\ now \in Nat /\ now' \in {now, now + 1}
         /\ {MINUTE, DAY} \subseteq Nat \ {0} /\ LEASE_MAX_AGE \in Nat
<1>1. now' \in {now, now + 1}
  BY DEF Next, Dispatch, Serve, Release, Fail, Tick, Restart
<1> QED BY <1>1, WindowAssumption DEF Inv, TypeOK

\* No step takes a window of a minute past its limits.
LEMMA MinuteStep == Inv /\ MinuteKept /\ [Next]_vars => MinuteKept'
<1> SUFFICES ASSUME Inv, MinuteKept, Next PROVE MinuteKept'
  BY DEF vars, MinuteKept, Sent, RowsSent, OpenSent, Open
<1> DEFINE start == now - MINUTE
<1>1. /\ start \in Int /\ now' \in Nat /\ now - DAY <= start
      /\ now - LEASE_MAX_AGE <= start /\ start <= now' - MINUTE /\ MINUTE \in Nat
  BY Clock, WindowAssumption
<1>2. ASSUME NEW m \in Models, NEW later \in Int, later = now' - MINUTE
      PROVE  Fits(rpm[m], Sent({m}, later)')
  <2>1. Fits(rpm[m], Sent({m}, start))
    BY DEF MinuteKept
  <2>2. \A e \in Estimates : Dispatch(m, e) =>
          Below(rpm[m], Cardinality(Since({m}, start)) + Cardinality(Leases({m})))
    BY DEF Dispatch, canMakeRequest, LastMinute
  <2>3. start <= later
    BY <1>1, <1>2
  <2> HIDE DEF start
  <2> QED BY <1>1, <1>2, <2>1, <2>2, <2>3, LimitStep, CapTypes
<1>3. ASSUME NEW later \in Int, later = now' - MINUTE
      PROVE  Fits(MinuteCap, Sent(Models, later)')
  <2>1. Fits(MinuteCap, Sent(Models, start))
    BY DEF MinuteKept
  <2>2. \A m \in Models, e \in Estimates : Dispatch(m, e) =>
          Below(MinuteCap, Cardinality(Since(Models, start)) + Cardinality(Leases(Models)))
    BY DEF Dispatch, canUseProviderMinute, LastMinute
  <2>3. start <= later
    BY <1>1, <1>3
  <2> HIDE DEF start
  <2> QED BY <1>1, <1>3, <2>1, <2>2, <2>3, LimitStep, CapTypes
<1>4. now' - MINUTE \in Int
  BY <1>1
<1> QED BY <1>2, <1>3, <1>4 DEF MinuteKept, Sent, RowsSent, OpenSent, Open

\* No window of a minute ever holds more requests than the model's rpm or the
\* account's minute cap allow, however long attempts stay in flight.
THEOREM MinuteLimits == Spec => []MinuteKept
<1>1. Init => MinuteKept
  BY NothingSent, CapTypes DEF MinuteKept
<1> QED BY <1>1, MinuteStep, InvHolds, PTL DEF Spec

-----------------------------------------------------------------------------
(* The daily limits. *)

\* Midnight does not go back.
LEMMA MidnightGrows == Inv /\ Next => Midnight <= Midnight'
<1> SUFFICES ASSUME Inv, Next PROVE Midnight <= Midnight'
  OBVIOUS
<1>1. now \in Nat /\ DAY \in Nat \ {0} /\ now' \in {now, now + 1}
  BY Clock
<1>2. now - (now % DAY) <= (now + 1) - ((now + 1) % DAY)
  BY <1>1, DivisionGrows
<1>3. CASE now' = now
  <2>1. Midnight \in Int
    BY MidnightType DEF Inv
  <2>2. Midnight' = Midnight
    BY <1>3 DEF Midnight
  <2> QED BY <2>1, <2>2
<1>4. CASE now' = now + 1
  BY <1>2, <1>4 DEF Midnight
<1> QED BY <1>1, <1>3, <1>4

\* From one midnight to the next.
LEMMA MidnightSteps ==
  ASSUME Inv, Next
  PROVE  Midnight \in Int /\ Midnight' \in Int /\ now - DAY <= Midnight /\ Midnight <= Midnight'
<1>1. Midnight \in Int /\ now - DAY <= Midnight
  BY MidnightType DEF Inv
<1>2. now' \in Nat /\ DAY \in Nat \ {0}
  BY Clock
<1>3. now' % DAY \in 0 .. DAY - 1
  BY <1>2, Division
<1>4. Midnight' \in Int
  BY <1>2, <1>3 DEF Midnight
<1> QED BY <1>1, <1>4, MidnightGrows

\* No step takes a day past its limits.
LEMMA DayStep == ~LongAttempts /\ Inv /\ DayKept /\ [Next]_vars => DayKept'
<1> SUFFICES ASSUME ~LongAttempts, Inv, DayKept, Next PROVE DayKept'
  BY DEF vars, DayKept, Sent, RowsSent, OpenSent, Open, Midnight
<1> DEFINE start == now - DAY
<1>1. /\ start \in Int /\ now' \in Nat /\ now - DAY <= start /\ start <= now' - DAY
      /\ DAY \in Nat
  BY Clock
<1>2. ASSUME NEW m \in Models, NEW later \in Int, later = now' - DAY
      PROVE  Fits(rpd[m], Sent({m}, later)')
  <2>1. Fits(rpd[m], Sent({m}, start))
    BY DEF DayKept
  <2>2. \A e \in Estimates : Dispatch(m, e) =>
          Below(rpd[m], Cardinality(Since({m}, start)) + Cardinality(Leases({m})))
    BY DEF Dispatch, canMakeRequest, LastDay
  <2>3. start <= later
    BY <1>1, <1>2
  <2> HIDE DEF start
  <2> QED BY <1>1, <1>2, <2>1, <2>2, <2>3, LimitStep, CapTypes
<1>3. Midnight \in Int /\ Midnight' \in Int /\ now - DAY <= Midnight /\ Midnight <= Midnight'
  BY MidnightSteps
<1>4. ASSUME NEW later \in Int, later = Midnight'
      PROVE  Fits(DailyCap, Sent(Models, later)')
  <2>1. Fits(DailyCap, Sent(Models, Midnight))
    BY DEF DayKept
  <2>2. \A m \in Models, e \in Estimates : Dispatch(m, e) =>
          Below(DailyCap, Cardinality(Since(Models, Midnight)) + Cardinality(Leases(Models)))
    BY DEF Dispatch, canUseProvider, Today
  <2> QED BY <1>3, <1>4, <2>1, <2>2, LimitStep, CapTypes
<1>5. \A m \in Models : Fits(rpd[m], Sent({m}, now - DAY)')
  <2>1. now' - DAY \in Int
    BY <1>1
  <2> QED BY <1>2, <2>1 DEF Sent, RowsSent, OpenSent, Open
<1>6. Fits(DailyCap, Sent(Models, Midnight)')
  BY <1>3, <1>4 DEF Sent, RowsSent, OpenSent, Open
<1> QED BY <1>5, <1>6 DEF DayKept

\* If attempts end within the age of their lease, no window of a day holds more
\* requests than a model's rpd, and no UTC day more than the account's cap.
THEOREM DailyLimits == ASSUME ~LongAttempts PROVE Spec => []DayKept
<1>1. Init => DayKept
  BY NothingSent, CapTypes DEF DayKept
<1>2. DayKept /\ Inv /\ [Next]_vars => DayKept'
  BY DayStep
<1> QED BY <1>1, <1>2, InvHolds, PTL DEF Spec

-----------------------------------------------------------------------------
(* Concurrency and the month. *)

\* A step opens at most one attempt, and only a Dispatch opens one.
LEMMA OpenGrows ==
  ASSUME Inv, Next
  PROVE  /\ Cardinality(Open) \in Nat /\ Cardinality(Open') \in Nat
         /\ \/ Cardinality(Open') <= Cardinality(Open)
            \/ /\ \E m \in Models, e \in Estimates : Dispatch(m, e)
               /\ Cardinality(Open') <= Cardinality(Open) + 1
         /\ \A a \in attempts : \A actual \in 0 .. a.tokens + Overrun :
              Serve(a, actual) => Cardinality(Open') <= Cardinality(Open) - 1
<1>1. IsFiniteSet(Open) /\ IsFiniteSet(attempts')
  BY NextInv, FS_Subset DEF Inv, Books, Finite, Open
<1>2. Open' \subseteq attempts'
  BY DEF Open
<1>3. Cardinality(Open) \in Nat /\ Cardinality(Open') \in Nat /\ IsFiniteSet(Open')
  BY <1>1, <1>2, FS_Subset, FS_CardinalityType
<1>4. ASSUME NEW m \in Models, NEW e \in Estimates, Dispatch(m, e)
      PROVE  Cardinality(Open') <= Cardinality(Open) + 1
  <2> DEFINE new == [id |-> issued, model |-> m, tokens |-> e, at |-> now, served |-> FALSE]
  <2>1. attempts' = attempts \cup {new}
    BY <1>4 DEF Dispatch
  <2> HIDE DEF new
  <2>2. Open' \subseteq Open \cup {new}
    BY <2>1 DEF Open
  <2>3. IsFiniteSet(Open \cup {new}) /\ Cardinality(Open \cup {new}) <= Cardinality(Open) + 1
    BY <1>1, OneMore
  <2>4. Cardinality(Open') <= Cardinality(Open \cup {new}) /\ Cardinality(Open \cup {new}) \in Nat
    BY <2>2, <2>3, FS_Subset, FS_CardinalityType
  <2> QED BY <1>3, <2>3, <2>4
<1>5. ASSUME NEW a \in attempts, NEW actual \in 0 .. a.tokens + Overrun, Serve(a, actual)
      PROVE  Cardinality(Open') <= Cardinality(Open) - 1
  <2> DEFINE done == [id |-> a.id, model |-> a.model, tokens |-> a.tokens,
                      at |-> a.at, served |-> TRUE]
  <2>1. attempts' = (attempts \ {a}) \cup {done} /\ ~a.served /\ done.served = TRUE
    BY <1>5 DEF Serve
  <2> HIDE DEF done
  <2>2. Open' \subseteq Open \ {a} /\ a \in Open
    BY <2>1 DEF Open
  <2>3. IsFiniteSet(Open \ {a}) /\ Cardinality(Open \ {a}) = Cardinality(Open) - 1
    BY <1>1, <2>2, FS_RemoveElement
  <2> QED BY <2>2, <2>3, FS_Subset
<1>6. ASSUME Open' \subseteq Open PROVE Cardinality(Open') <= Cardinality(Open)
  BY <1>1, <1>6, FS_Subset
<1>7. ASSUME NEW a \in attempts, Release(a) \/ Fail(a)
      PROVE  Cardinality(Open') <= Cardinality(Open)
  <2>1. Open' \subseteq Open
    BY <1>7 DEF Release, Fail, Open
  <2> QED BY <2>1, <1>6
<1>8. CASE Tick \/ Restart
  <2>1. Open' \subseteq Open
    BY <1>8 DEF Tick, Restart, Open
  <2> QED BY <2>1, <1>5, <1>6, <1>3
<1>9. ASSUME NEW a \in attempts, NEW actual \in 0 .. a.tokens + Overrun, Serve(a, actual)
      PROVE  Cardinality(Open') <= Cardinality(Open)
  BY <1>3, <1>5, <1>9
<1> QED BY <1>3, <1>4, <1>5, <1>7, <1>8, <1>9 DEF Next

\* The configured concurrency of the key is respected by every reachable state,
\* if attempts end within the age of their lease.
THEOREM ConcurrencyLimit == ASSUME ~LongAttempts PROVE Spec => []ConcurrencyKept
<1>1. Init => ConcurrencyKept
  BY FS_EmptySet, LimitAssumption DEF Init, ConcurrencyKept, Open, Fits, Limits
<1>2. ConcurrencyKept /\ Inv /\ [Next]_vars => ConcurrencyKept'
  <2> SUFFICES ASSUME ConcurrencyKept, Inv, Next PROVE ConcurrencyKept'
    BY DEF vars, ConcurrencyKept, Open
  <2> SUFFICES ASSUME Concurrency \in Nat PROVE Cardinality(Open') <= Concurrency
    BY CapTypes DEF ConcurrencyKept, Fits, Limits
  <2>1. Cardinality(Open) <= Concurrency
    BY LimitAssumption DEF ConcurrencyKept, Fits
  <2>2. ASSUME NEW m \in Models, NEW e \in Estimates, Dispatch(m, e)
        PROVE  Cardinality(Open) < Concurrency
    <3>1. Cardinality(Leases(Models)) < Concurrency
      BY <2>2, LimitAssumption DEF Dispatch, canUseKeyConcurrency, Below
    <3>2. Open \subseteq Leases(Models)
      BY DEF Open, Leases, Inv, TypeOK, Attempt, Books, Short
    <3>3. IsFiniteSet(Leases(Models)) /\ Cardinality(Leases(Models)) \in Nat
      BY CountsType, 0 \in Int DEF Inv, Books
    <3>4. Cardinality(Open) <= Cardinality(Leases(Models))
      BY <3>2, <3>3, FS_Subset
    <3> QED BY <3>1, <3>3, <3>4, OpenGrows
  <2> QED BY <2>1, <2>2, OpenGrows
<1> QED BY <1>1, <1>2, InvHolds, PTL DEF Spec

\* No step takes a month past the cap of the key.
LEMMA MonthStep == Inv /\ MonthRequestsKept /\ [Next]_vars => MonthRequestsKept'
<1> SUFFICES ASSUME Inv, MonthRequestsKept, Next PROVE MonthRequestsKept'
  BY DEF vars, MonthRequestsKept, Open, getMonthlyUsage, Month
<1> SUFFICES ASSUME MonthRequestCap \in Nat
             PROVE  getMonthlyUsage'.requests + Cardinality(Open') <= MonthRequestCap
  BY CapTypes DEF MonthRequestsKept, Fits, Limits
<1> DEFINE settled == getMonthlyUsage.requests  open == Cardinality(Open)
<1>1. settled + open <= MonthRequestCap
  BY LimitAssumption DEF MonthRequestsKept, Fits
<1>2. /\ settled \in Nat /\ getMonthlyUsage'.requests \in Nat
      /\ open \in Nat /\ Cardinality(Open') \in Nat
  BY NextInv, OpenGrows, MidnightType DEF Inv, TypeOK, getMonthlyUsage
<1>3. ASSUME monthly' = monthly PROVE getMonthlyUsage'.requests <= settled
  <2>1. now \in Nat /\ now' \in {now, now + 1} /\ MONTH \in Nat \ {0}
    BY Clock, WindowAssumption
  <2>2. now \div MONTH \in Nat /\ (now + 1) \div MONTH \in Nat
        /\ now \div MONTH <= (now + 1) \div MONTH
    BY <2>1, Division, DivisionGrows
  <2> DEFINE this == now \div MONTH  after == (now + 1) \div MONTH
  <2>3. Month = this /\ Month' \in {this, after}
    <3>1. CASE now' = now
      BY <3>1 DEF Month
    <3>2. CASE now' = now + 1
      BY <3>2 DEF Month
    <3> QED BY <2>1, <3>1, <3>2 DEF Month
  <2>4. this \in Nat /\ after \in Nat /\ this <= after
    BY <2>2
  <2> HIDE DEF this, after
  <2>5. Month \in Nat /\ Month' \in Nat /\ Month <= Month'
    BY <2>3, <2>4
  <2>6. monthly.month \in Nat /\ monthly.requests \in Nat /\ monthly.month <= Month
    BY DEF Inv, TypeOK, Books, MonthPast
  <2> QED BY <1>2, <1>3, <2>5, <2>6 DEF getMonthlyUsage
<1>4. ASSUME NEW m \in Models, NEW e \in Estimates, Dispatch(m, e)
      PROVE  settled + open < MonthRequestCap /\ monthly' = monthly
  <2>1. settled + Cardinality(attempts) < MonthRequestCap /\ monthly' = monthly
    BY <1>4, LimitAssumption DEF Dispatch, checkMonthlyBudget, Below
  <2>2. open <= Cardinality(attempts) /\ Cardinality(attempts) \in Nat
    BY CountsType, 0 \in Int DEF Inv, Books
  <2> HIDE DEF settled, open
  <2> QED BY <1>2, <2>1, <2>2
<1>5. ASSUME NEW a \in attempts, NEW actual \in 0 .. a.tokens + Overrun, Serve(a, actual)
      PROVE  getMonthlyUsage'.requests = settled + 1 /\ Cardinality(Open') <= open - 1
  <2>1. monthly'.month = Month /\ monthly'.requests = settled + 1 /\ now' = now
    BY <1>5 DEF Serve
  <2>2. Cardinality(Open') <= open - 1
    BY <1>5, OpenGrows
  <2> QED BY <2>1, <2>2 DEF getMonthlyUsage, Month
<1>6. ASSUME monthly' = monthly, ~ \E m \in Models, e \in Estimates : Dispatch(m, e)
      PROVE  getMonthlyUsage'.requests <= settled /\ Cardinality(Open') <= open
  BY <1>3, <1>6, OpenGrows
<1> HIDE DEF settled, open
<1>7. CASE \E m \in Models, e \in Estimates : Dispatch(m, e)
  <2>1. settled + open < MonthRequestCap /\ getMonthlyUsage'.requests <= settled
    BY <1>3, <1>4, <1>7
  <2>2. Cardinality(Open') <= open + 1
    BY <1>2, OpenGrows DEF open
  <2> QED BY <1>2, <2>1, <2>2
<1>8. CASE \E a \in attempts : \E actual \in 0 .. a.tokens + Overrun : Serve(a, actual)
  BY <1>1, <1>2, <1>5, <1>8
<1>9. CASE \/ \E a \in attempts : Release(a) \/ Fail(a)
           \/ Tick
           \/ Restart
  <2>1. monthly' = monthly
    BY <1>9 DEF Release, Fail, Tick, Restart
  <2> QED BY <1>1, <1>2, <1>6, <1>7, <2>1
<1> QED BY <1>7, <1>8, <1>9 DEF Next

\* Settled and reserved requests never exceed the month's cap, however long
\* attempts stay in flight and whichever month they end in.
THEOREM MonthLimit == Spec => []MonthRequestsKept
<1>1. Init => MonthRequestsKept
  <2> SUFFICES ASSUME Init PROVE MonthRequestsKept
    OBVIOUS
  <2>1. Open = {} /\ getMonthlyUsage.requests = 0
    BY DEF Init, Open, getMonthlyUsage, NoMonth
  <2> QED BY <2>1, FS_EmptySet, CapTypes, LimitAssumption DEF MonthRequestsKept, Fits, Limits
<1> QED BY <1>1, MonthStep, InvHolds, PTL DEF Spec

-----------------------------------------------------------------------------
(* Tokens. *)

rowTokens == [u \in UsageRow |-> u.tokens]
leaseTokens == [a \in Attempt |-> a.tokens]
\* What a row was promised to cost at least: its tokens, less what an answer
\* may overrun its estimate by.
promised == [u \in UsageRow |-> IF u.tokens > Overrun THEN u.tokens - Overrun ELSE 0]

\* Of the requests sent in a window, what the answered ones weigh by v and the
\* open ones by w.
Committed(v, w, M, start) ==
  SumFunctionOnSet(v, RowsSent(M, start)) + SumFunctionOnSet(w, OpenSent(M, start))

\* Weights under which an answer never weighs more than its attempt did.
Weighing(v, w) ==
  /\ v \in [UsageRow -> Nat] /\ w \in [Attempt -> Nat]
  /\ \A a \in Attempt, u \in UsageRow :
       u.model = a.model /\ u.tokens <= a.tokens + Overrun => v[u] <= w[a]

\* The attempt a Dispatch opens.
Opened(m, e) == [id |-> issued, model |-> m, tokens |-> e, at |-> now, served |-> FALSE]

\* The sets a weight is summed over.
LEMMA WindowSets ==
  ASSUME Inv, NEW M, NEW start \in Int
  PROVE  /\ RowsSent(M, start) \subseteq UsageRow /\ IsFiniteSet(RowsSent(M, start))
         /\ OpenSent(M, start) \subseteq Attempt /\ IsFiniteSet(OpenSent(M, start))
         /\ Since(M, start) \subseteq UsageRow /\ IsFiniteSet(Since(M, start))
         /\ Leases(M) \subseteq Attempt /\ IsFiniteSet(Leases(M))
         /\ Open \subseteq Attempt /\ IsFiniteSet(Open)
<1>1. attempts \subseteq Attempt /\ usage \subseteq UsageRow /\ answered \subseteq UsageRow
  BY DEF Inv, TypeOK
<1> QED BY <1>1, CountsType DEF Inv, Books, RowsSent, OpenSent, Open, Since, Leases

\* Weights add up to numbers.
LEMMA CommittedType ==
  ASSUME Inv, NEW v, NEW w, Weighing(v, w), NEW M, NEW start \in Int
  PROVE  /\ SumFunctionOnSet(v, RowsSent(M, start)) \in Nat
         /\ SumFunctionOnSet(w, OpenSent(M, start)) \in Nat
         /\ Committed(v, w, M, start) \in Nat
<1>1. /\ \A u \in RowsSent(M, start) : v[u] \in Nat
      /\ \A a \in OpenSent(M, start) : w[a] \in Nat
  BY WindowSets DEF Weighing
<1>2. /\ SumFunctionOnSet(v, RowsSent(M, start)) \in Nat
      /\ SumFunctionOnSet(w, OpenSent(M, start)) \in Nat
  BY <1>1, WindowSets, SumType
<1> QED BY <1>2 DEF Committed

\* A step adds nothing to what a window holds, unless it is a Dispatch of one of
\* the models counted, which adds its estimate.
LEMMA CommittedGrows ==
  ASSUME Inv, Next, NEW v, NEW w, Weighing(v, w), NEW M \in SUBSET Models,
         NEW start \in Int, NEW later \in Int, start <= later
  PROVE  /\ Committed(v, w, M, later)' \in Nat
         /\ \/ Committed(v, w, M, later)' <= Committed(v, w, M, start)
            \/ \E m \in M, e \in Estimates :
                 /\ Dispatch(m, e) /\ Opened(m, e) \in Attempt
                 /\ Committed(v, w, M, later)' <= Committed(v, w, M, start) + w[Opened(m, e)]
<1> DEFINE R == RowsSent(M, start)  O == OpenSent(M, start)
           NR == RowsSent(M, later)' NO == OpenSent(M, later)'
           sum(f, S) == SumFunctionOnSet(f, S)
<1>1. Inv'
  BY NextInv
<1>2. /\ R \subseteq UsageRow /\ IsFiniteSet(R) /\ O \subseteq Attempt /\ IsFiniteSet(O)
      /\ NR \subseteq UsageRow /\ IsFiniteSet(NR) /\ NO \subseteq Attempt /\ IsFiniteSet(NO)
  <2>1. NR \subseteq answered' /\ NO \subseteq attempts'
    BY DEF RowsSent, OpenSent, Open
  <2>2. /\ IsFiniteSet(answered') /\ IsFiniteSet(attempts')
        /\ answered' \subseteq UsageRow /\ attempts' \subseteq Attempt
    BY <1>1 DEF Inv, Books, Finite, TypeOK
  <2>3. IsFiniteSet(NR) /\ IsFiniteSet(NO)
    BY <2>1, <2>2, FS_Subset
  <2>4. R \subseteq UsageRow /\ IsFiniteSet(R) /\ O \subseteq Attempt /\ IsFiniteSet(O)
    BY WindowSets
  <2> HIDE DEF R, O, NR, NO
  <2> QED BY <2>1, <2>2, <2>3, <2>4
<1>3. Committed(v, w, M, start) = sum(v, R) + sum(w, O)
  BY DEF Committed
<1>4. Committed(v, w, M, later)' = sum(v, NR) + sum(w, NO)
  BY DEF Committed
<1>5. /\ \A u \in UsageRow : v[u] \in Nat
      /\ \A a \in Attempt : w[a] \in Nat
  BY DEF Weighing
<1>6. /\ \A u \in answered : u.sent \in Nat
      /\ \A a \in attempts : a \in Attempt /\ a.at \in Nat /\ a.model \in Models /\ a.tokens \in Nat
  BY DEF Inv, TypeOK, Attempt, UsageRow
<1> DEFINE before == Committed(v, w, M, start)  after == Committed(v, w, M, later)'
<1>7. /\ sum(v, R) \in Nat /\ sum(w, O) \in Nat /\ sum(v, NR) \in Nat /\ sum(w, NO) \in Nat
  <2> HIDE DEF R, O, NR, NO
  <2>1. /\ \A u \in R \cup NR : v[u] \in Nat
        /\ \A a \in O \cup NO : w[a] \in Nat
    BY <1>2, <1>5
  <2> QED BY <1>2, <2>1, SumType
<1>8. ASSUME NR \subseteq R, NO \subseteq O PROVE after <= before
  <2> HIDE DEF R, O, NR, NO
  <2>1. sum(v, NR) <= sum(v, R)
    BY <1>2, <1>5, <1>8, SumGrows
  <2>2. sum(w, NO) <= sum(w, O)
    BY <1>2, <1>5, <1>8, SumGrows
  <2> HIDE DEF sum
  <2> QED BY <1>3, <1>4, <1>7, <2>1, <2>2
<1>9. ASSUME NEW m \in Models, NEW e \in Estimates, Dispatch(m, e)
      PROVE  \/ after <= before
             \/ m \in M /\ Opened(m, e) \in Attempt /\ after <= before + w[Opened(m, e)]
  <2> DEFINE new == Opened(m, e)
  <2>1. attempts' = attempts \cup {new} /\ answered' = answered /\ new.model = m
    BY <1>9 DEF Dispatch, Opened
  <2>2. new \in Attempt
    BY RequestAssumption DEF Attempt, Opened, Inv, TypeOK
  <2> HIDE DEF new
  <2>3. NR \subseteq R
    BY <2>1, <1>6 DEF RowsSent
  <2>4. CASE m \notin M
    <3>1. NO \subseteq O
      BY <2>1, <2>4, <1>6 DEF OpenSent, Open
    <3> QED BY <2>3, <3>1, <1>8
  <2>5. CASE m \in M
    <3>1. NO \subseteq O \cup {new}
      BY <2>1, <1>6 DEF OpenSent, Open
    <3> HIDE DEF R, O, NR, NO
    <3>2. IsFiniteSet(O \cup {new}) /\ \A a \in O \cup {new} : w[a] \in Nat
      BY <1>2, <1>5, <2>2, FS_AddElement
    <3>3. sum(w, O \cup {new}) <= sum(w, O) + w[new]
      BY <1>2, <3>2, SumWith
    <3>4. sum(w, NO) <= sum(w, O \cup {new})
      BY <3>1, <3>2, SumGrows
    <3>5. sum(v, NR) <= sum(v, R)
      BY <1>2, <1>5, <2>3, SumGrows
    <3>6. sum(w, O \cup {new}) \in Nat /\ w[new] \in Nat
      BY <3>2, SumType
    <3> HIDE DEF sum
    <3>7. after <= before + w[new]
      BY <1>3, <1>4, <1>7, <3>3, <3>4, <3>5, <3>6
    <3> QED BY <2>2, <2>5, <3>7 DEF new
  <2> QED BY <2>4, <2>5
<1>10. ASSUME NEW a \in attempts, NEW actual \in 0 .. a.tokens + Overrun, Serve(a, actual)
      PROVE  after <= before
  <2> DEFINE row == RowFor(a, actual)
             done == [id |-> a.id, model |-> a.model, tokens |-> a.tokens,
                      at |-> a.at, served |-> TRUE]
  <2>1. /\ attempts' = (attempts \ {a}) \cup {done} /\ answered' = answered \cup {row}
        /\ row.sent = a.at /\ row.model = a.model /\ row.tokens = actual
        /\ done.served = TRUE /\ ~a.served
    BY <1>10 DEF Serve, RowFor
  <2>2. row \in UsageRow /\ row.tokens <= a.tokens + Overrun
    BY <1>6, RequestAssumption DEF RowFor, Attempt, UsageRow, Inv, TypeOK
  <2> HIDE DEF row, done
  <2>3. a \in Attempt
    BY <1>6
  <2>4. v[row] <= w[a] /\ v[row] \in Nat /\ w[a] \in Nat
    BY <2>1, <2>2, <2>3 DEF Weighing
  <2>5. NO \subseteq O \ {a}
    BY <2>1, <1>6 DEF OpenSent, Open
  <2>6. NR \subseteq R \cup {row}
    BY <2>1, <1>6 DEF RowsSent
  <2>7. CASE a \in O
    <3> HIDE DEF R, O, NR, NO
    <3>1. sum(w, O) = w[a] + sum(w, O \ {a})
      BY <1>2, <1>5, <2>7, SumWithout
    <3>2. IsFiniteSet(O \ {a}) /\ \A b \in O \ {a} : w[b] \in Nat
      BY <1>2, <1>5, FS_RemoveElement
    <3>3. sum(w, NO) <= sum(w, O \ {a}) /\ sum(w, O \ {a}) \in Nat
      BY <2>5, <3>2, SumGrows, SumType
    <3>4. IsFiniteSet(R \cup {row}) /\ \A u \in R \cup {row} : v[u] \in Nat
      BY <1>2, <1>5, <2>2, FS_AddElement
    <3>5. sum(v, R \cup {row}) <= sum(v, R) + v[row] /\ sum(v, R \cup {row}) \in Nat
      BY <1>2, <3>4, SumWith, SumType
    <3>6. sum(v, NR) <= sum(v, R \cup {row})
      BY <2>6, <3>4, SumGrows
    <3> HIDE DEF sum
    <3> QED BY <1>3, <1>4, <1>7, <2>4, <3>1, <3>3, <3>5, <3>6
  <2>8. CASE a \notin O
    <3>1. NR \subseteq R
      BY <2>1, <2>8, <1>6 DEF RowsSent, OpenSent, Open
    <3>2. NO \subseteq O
      BY <2>5
    <3> QED BY <3>1, <3>2, <1>8
  <2> QED BY <2>7, <2>8
<1>11. ASSUME \/ \E a \in attempts : Release(a) \/ Fail(a)
              \/ Tick
              \/ Restart
       PROVE  after <= before
  <2>1. attempts' \subseteq attempts /\ answered' = answered
    BY <1>11 DEF Release, Fail, Tick, Restart
  <2>2. NR \subseteq R
    BY <2>1, <1>6 DEF RowsSent
  <2>3. NO \subseteq O
    BY <2>1, <1>6 DEF OpenSent, Open
  <2> QED BY <2>2, <2>3, <1>8
<1>13. after \in Nat
  <2> HIDE DEF R, O, NR, NO, sum
  <2> QED BY <1>4, <1>7
<1> HIDE DEF R, O, NR, NO, sum, before, after
<1>14. \/ after <= before
       \/ \E m \in M, e \in Estimates :
            Dispatch(m, e) /\ Opened(m, e) \in Attempt /\ after <= before + w[Opened(m, e)]
  <2>1. CASE \E m \in Models, e \in Estimates : Dispatch(m, e)
    BY <1>9, <2>1
  <2>2. CASE \E a \in attempts : \E actual \in 0 .. a.tokens + Overrun : Serve(a, actual)
    BY <1>10, <2>2
  <2> QED BY <1>11, <2>1, <2>2 DEF Next
<1> QED BY <1>13, <1>14 DEF before, after

\* What is promised to one request, at full weight or less, is what the gate saw:
\* the rows and leases of the window.
LEMMA CommittedSeen ==
  ASSUME Inv, NEW v, NEW w, Weighing(v, w), NEW M, NEW start \in Int, now - DAY <= start,
         now - LEASE_MAX_AGE <= start \/ ~LongAttempts,
         NEW f, \A u \in Since(M, start) : f[u] \in Nat /\ v[u] <= f[u],
         NEW g, \A a \in Leases(M) : g[a] \in Nat /\ w[a] <= g[a]
  PROVE  /\ Committed(v, w, M, start)
              <= SumFunctionOnSet(f, Since(M, start)) + SumFunctionOnSet(g, Leases(M))
         /\ SumFunctionOnSet(f, Since(M, start)) \in Nat
         /\ SumFunctionOnSet(g, Leases(M)) \in Nat
<1>1. RowsSent(M, start) \subseteq Since(M, start) /\ OpenSent(M, start) \subseteq Leases(M)
  BY SentCovered
<1> DEFINE R == RowsSent(M, start)  O == OpenSent(M, start)
           S == Since(M, start)  L == Leases(M)
<1>2. /\ R \subseteq UsageRow /\ O \subseteq Attempt
      /\ S \subseteq UsageRow /\ IsFiniteSet(S) /\ L \subseteq Attempt /\ IsFiniteSet(L)
  BY WindowSets
<1>3. /\ SumFunctionOnSet(v, R) \in Nat /\ SumFunctionOnSet(w, O) \in Nat
      /\ Committed(v, w, M, start) = SumFunctionOnSet(v, R) + SumFunctionOnSet(w, O)
  BY CommittedType DEF Committed
<1>4. (\A u \in UsageRow : v[u] \in Nat) /\ (\A a \in Attempt : w[a] \in Nat)
  BY DEF Weighing
<1> HIDE DEF R, O, S, L
<1>5. SumFunctionOnSet(f, S) \in Nat /\ SumFunctionOnSet(g, L) \in Nat
  BY <1>2, SumType DEF S, L
<1>6. SumFunctionOnSet(v, R) <= SumFunctionOnSet(f, S)
  <2>1. R \in SUBSET S /\ \A u \in R : v[u] \in Nat /\ v[u] <= f[u]
    BY <1>1, <1>2, <1>4 DEF R, S
  <2>2. \A u \in S : f[u] \in Nat
    BY DEF S
  <2> QED BY <1>2, <2>1, <2>2, SumGrows
<1>7. SumFunctionOnSet(w, O) <= SumFunctionOnSet(g, L)
  <2>1. O \in SUBSET L /\ \A a \in O : w[a] \in Nat /\ w[a] <= g[a]
    BY <1>1, <1>2, <1>4 DEF O, L
  <2>2. \A a \in L : g[a] \in Nat
    BY DEF L
  <2> QED BY <1>2, <2>1, <2>2, SumGrows
<1>8. Committed(v, w, M, start) <= SumFunctionOnSet(f, S) + SumFunctionOnSet(g, L)
  BY <1>3, <1>5, <1>6, <1>7
<1> QED BY <1>5, <1>8 DEF S, L

\* The sums the ledger takes, as sums over its rows and leases.
LEMMA LedgerSums ==
  ASSUME NEW S
  PROVE  /\ Tokens(S) = SumFunctionOnSet([r \in S |-> r.tokens], S)
         /\ Billed(S) = SumFunctionOnSet([r \in S |-> r.tokens * multiplier[r.model]], S)
  BY DEF Tokens, Billed, SumFunction

-----------------------------------------------------------------------------
(* The tokens of a model. *)

\* The tokens promised in a window are within the limit of the model, and what
\* is promised does not grow with the answer.
MinutePromises ==
  \A m \in Models :
    tpm[m] # NoLimit => Committed(promised, leaseTokens, {m}, now - MINUTE) <= tpm[m]
DayPromises ==
  \A m \in Models :
    tpd[m] # NoLimit => Committed(promised, leaseTokens, {m}, now - DAY) <= tpd[m]

\* Tokens are such weights: no answer overruns its estimate by more than Overrun.
LEMMA TokenWeights == Weighing(promised, leaseTokens)
<1>1. promised \in [UsageRow -> Nat] /\ leaseTokens \in [Attempt -> Nat]
  BY RequestAssumption DEF promised, leaseTokens, UsageRow, Attempt
<1>2. ASSUME NEW a \in Attempt, NEW u \in UsageRow, u.tokens <= a.tokens + Overrun
      PROVE  promised[u] <= leaseTokens[a]
  BY <1>2, RequestAssumption DEF promised, leaseTokens, UsageRow, Attempt
<1> QED BY <1>1, <1>2 DEF Weighing

\* One limit over one window: the gate keeps it.
LEMMA TokenStep ==
  ASSUME Inv, Next, NEW m \in Models, NEW cap \in Nat,
         NEW start \in Int, NEW later \in Int, start <= later, now - DAY <= start,
         now - LEASE_MAX_AGE <= start \/ ~LongAttempts,
         Committed(promised, leaseTokens, {m}, start) <= cap,
         \A e \in Estimates : Dispatch(m, e) =>
           Tokens(Since({m}, start)) + (Tokens(Leases({m})) + e) <= cap
  PROVE  Committed(promised, leaseTokens, {m}, later)' <= cap
<1> DEFINE before == Committed(promised, leaseTokens, {m}, start)
           after == Committed(promised, leaseTokens, {m}, later)'
<1>1. before \in Nat
  BY CommittedType, TokenWeights
<1>2. /\ after \in Nat
      /\ \/ after <= before
         \/ \E e \in Estimates :
              Dispatch(m, e) /\ Opened(m, e) \in Attempt
              /\ after <= before + leaseTokens[Opened(m, e)]
  BY CommittedGrows, TokenWeights
<1>3. ASSUME NEW e \in Estimates, Dispatch(m, e), Opened(m, e) \in Attempt
      PROVE  before + leaseTokens[Opened(m, e)] <= cap
  <2> DEFINE f == [r \in Since({m}, start) |-> r.tokens]
             g == [r \in Leases({m}) |-> r.tokens]
  <2>1. \A u \in Since({m}, start) : f[u] \in Nat /\ promised[u] <= f[u]
    BY WindowSets, RequestAssumption DEF promised, UsageRow
  <2>2. \A a \in Leases({m}) : g[a] \in Nat /\ leaseTokens[a] <= g[a]
    BY WindowSets DEF leaseTokens, Attempt
  <2>3. /\ Tokens(Since({m}, start)) = SumFunctionOnSet(f, Since({m}, start))
        /\ Tokens(Leases({m})) = SumFunctionOnSet(g, Leases({m}))
    BY LedgerSums
  <2> HIDE DEF f, g
  <2>4. /\ before <= Tokens(Since({m}, start)) + Tokens(Leases({m}))
        /\ Tokens(Since({m}, start)) \in Nat /\ Tokens(Leases({m})) \in Nat
    <3>1. /\ before <= SumFunctionOnSet(f, Since({m}, start)) + SumFunctionOnSet(g, Leases({m}))
          /\ SumFunctionOnSet(f, Since({m}, start)) \in Nat
          /\ SumFunctionOnSet(g, Leases({m})) \in Nat
      BY <2>1, <2>2, CommittedSeen, TokenWeights
    <3> QED BY <2>3, <3>1
  <2>5. leaseTokens[Opened(m, e)] = e /\ e \in Nat
    BY <1>3, RequestAssumption DEF leaseTokens, Opened
  <2>6. Tokens(Since({m}, start)) + (Tokens(Leases({m})) + e) <= cap
    BY <1>3
  <2> HIDE DEF before
  <2> QED BY <1>1, <2>4, <2>5, <2>6
<1> HIDE DEF before, after
<1>4. after <= cap
  <2>1. before <= cap
    BY DEF before
  <2>2. \A e \in Estimates : Opened(m, e) \in Attempt => leaseTokens[Opened(m, e)] \in Nat
    BY TokenWeights DEF Weighing
  <2> QED BY <1>1, <1>2, <1>3, <2>1, <2>2
<1> QED BY <1>4 DEF after

\* At first nothing is promised.
LEMMA NothingCommitted ==
  ASSUME Init, NEW v, NEW w, NEW M, NEW start
  PROVE  Committed(v, w, M, start) = 0
<1>1. RowsSent(M, start) = {} /\ OpenSent(M, start) = {}
  BY DEF Init, RowsSent, OpenSent, Open
<1> QED BY <1>1, SumEmpty DEF Committed

\* The token limits of a model are numbers, or there are none.
LEMMA TokenCaps ==
  /\ \A m \in Models : tpm[m] \in Limits /\ tpd[m] \in Limits
  /\ TokenCap \in Limits /\ MonthTokenCap \in Limits /\ NoLimit \notin Nat
  /\ multiplier \in [Models -> Nat \ {0}] /\ Overrun \in Nat /\ Estimates \subseteq Nat
  BY LimitAssumption, RequestAssumption

\* No step promises more than a minute has room for, whatever is in flight.
LEMMA MinutePromisesStep == Inv /\ MinutePromises /\ [Next]_vars => MinutePromises'
<1> SUFFICES ASSUME Inv, MinutePromises, Next PROVE MinutePromises'
  BY DEF vars, MinutePromises, Committed, RowsSent, OpenSent, Open
<1> DEFINE start == now - MINUTE
<1>1. /\ start \in Int /\ now' \in Nat /\ now - DAY <= start
      /\ now - LEASE_MAX_AGE <= start /\ start <= now' - MINUTE /\ now' - MINUTE \in Int
  BY Clock, WindowAssumption
<1>2. ASSUME NEW m \in Models, tpm[m] # NoLimit, NEW later \in Int, later = now' - MINUTE
      PROVE  Committed(promised, leaseTokens, {m}, later)' <= tpm[m]
  <2>1. tpm[m] \in Nat /\ Committed(promised, leaseTokens, {m}, start) <= tpm[m]
    BY <1>2, TokenCaps DEF MinutePromises, Limits
  <2>2. \A e \in Estimates : Dispatch(m, e) =>
          Tokens(Since({m}, start)) + (Tokens(Leases({m})) + e) <= tpm[m]
    BY <1>2 DEF Dispatch, canUseTokens, Fits, LastMinute
  <2>3. start <= later
    BY <1>1, <1>2
  <2> HIDE DEF start
  <2> QED BY <1>1, <2>1, <2>2, <2>3, TokenStep
<1> QED BY <1>1, <1>2 DEF MinutePromises, Committed, RowsSent, OpenSent, Open

\* Nor than a day has, when attempts end within the age of their lease.
LEMMA DayPromisesStep ==
  ~LongAttempts /\ Inv /\ DayPromises /\ [Next]_vars => DayPromises'
<1> SUFFICES ASSUME ~LongAttempts, Inv, DayPromises, Next PROVE DayPromises'
  BY DEF vars, DayPromises, Committed, RowsSent, OpenSent, Open
<1> DEFINE start == now - DAY
<1>1. /\ start \in Int /\ now - DAY <= start /\ start <= now' - DAY /\ now' - DAY \in Int
  BY Clock
<1>2. ASSUME NEW m \in Models, tpd[m] # NoLimit, NEW later \in Int, later = now' - DAY
      PROVE  Committed(promised, leaseTokens, {m}, later)' <= tpd[m]
  <2>1. tpd[m] \in Nat /\ Committed(promised, leaseTokens, {m}, start) <= tpd[m]
    BY <1>2, TokenCaps DEF DayPromises, Limits
  <2>2. \A e \in Estimates : Dispatch(m, e) =>
          Tokens(Since({m}, start)) + (Tokens(Leases({m})) + e) <= tpd[m]
    BY <1>2 DEF Dispatch, canUseTokens, Fits, LastDay
  <2>3. start <= later
    BY <1>1, <1>2
  <2> HIDE DEF start
  <2> QED BY <1>1, <2>1, <2>2, <2>3, TokenStep
<1> QED BY <1>1, <1>2 DEF DayPromises, Committed, RowsSent, OpenSent, Open

\* What was used exceeds what was promised by no more than the overruns.
LEMMA UsedWithinPromises ==
  ASSUME Inv, NEW M, NEW start \in Int, NEW cap \in Nat,
         Committed(promised, leaseTokens, M, start) <= cap
  PROVE  Tokens(RowsSent(M, start)) + Tokens(OpenSent(M, start))
           <= cap + Overrun * Sent(M, start)
<1> DEFINE R == RowsSent(M, start)  O == OpenSent(M, start)
           f == [r \in R |-> r.tokens]  g == [r \in O |-> r.tokens]  one == [r \in R |-> 1]
<1>1. /\ R \subseteq UsageRow /\ IsFiniteSet(R) /\ O \subseteq Attempt /\ IsFiniteSet(O)
  BY WindowSets
<1>2. Tokens(R) = SumFunctionOnSet(f, R) /\ Tokens(O) = SumFunctionOnSet(g, O)
  BY LedgerSums
<1>3. SumFunctionOnSet(one, R) = Cardinality(R)
  BY <1>1, SumOfOnes
<1>4. /\ Committed(promised, leaseTokens, M, start)
           = SumFunctionOnSet(promised, R) + SumFunctionOnSet(leaseTokens, O)
      /\ SumFunctionOnSet(promised, R) \in Nat /\ SumFunctionOnSet(leaseTokens, O) \in Nat
  BY CommittedType, TokenWeights DEF Committed
<1>5. /\ Cardinality(R) \in Nat /\ Cardinality(O) \in Nat
      /\ Sent(M, start) = Cardinality(R) + Cardinality(O)
  BY CountsType DEF Sent, Inv, Books
<1>6. \A u \in R : /\ f[u] \in Nat /\ promised[u] \in Nat /\ one[u] \in Nat
                   /\ f[u] <= promised[u] + Overrun * one[u]
  <2> SUFFICES ASSUME NEW u \in R
               PROVE  /\ f[u] \in Nat /\ promised[u] \in Nat /\ one[u] \in Nat
                      /\ f[u] <= promised[u] + Overrun * one[u]
    OBVIOUS
  <2>1. u.tokens \in Nat /\ u \in UsageRow
    BY <1>1 DEF UsageRow
  <2>2. promised[u] = IF u.tokens > Overrun THEN u.tokens - Overrun ELSE 0
    BY <2>1 DEF promised
  <2>3. f[u] = u.tokens /\ one[u] = 1
    OBVIOUS
  <2>4. Overrun * 1 = Overrun
    BY TokenCaps
  <2> QED BY <2>1, <2>2, <2>3, <2>4, TokenCaps
<1>7. \A a \in O : g[a] \in Nat /\ leaseTokens[a] \in Nat /\ g[a] <= leaseTokens[a]
  BY <1>1 DEF leaseTokens, Attempt
<1> HIDE DEF R, O, f, g, one
<1>8. SumFunctionOnSet(f, R) <= SumFunctionOnSet(promised, R) + Overrun * SumFunctionOnSet(one, R)
  BY <1>1, <1>6, TokenCaps, SumLinear
<1>9. SumFunctionOnSet(g, O) <= SumFunctionOnSet(leaseTokens, O)
  BY <1>1, <1>7, SumGrows
<1>10. SumFunctionOnSet(f, R) \in Nat /\ SumFunctionOnSet(g, O) \in Nat
  BY <1>1, <1>6, <1>7, SumType
<1>11. /\ Overrun * (Cardinality(R) + Cardinality(O))
            = Overrun * Cardinality(R) + Overrun * Cardinality(O)
       /\ Overrun * Cardinality(R) \in Nat /\ Overrun * Cardinality(O) \in Nat
  BY <1>5, TokenCaps
<1>12. SumFunctionOnSet(f, R) + SumFunctionOnSet(g, O)
         <= cap + (Overrun * Cardinality(R) + Overrun * Cardinality(O))
  BY <1>3, <1>4, <1>8, <1>9, <1>10, <1>11
<1>13. Tokens(R) + Tokens(O) <= cap + Overrun * Sent(M, start)
  BY <1>2, <1>5, <1>11, <1>12
<1> QED BY <1>13 DEF R, O

\* The minute half of TokensKept.
MinuteTokensKept ==
  \A m \in Models : tpm[m] # NoLimit =>
    Tokens(RowsSent({m}, now - MINUTE)) + Tokens(OpenSent({m}, now - MINUTE))
      <= tpm[m] + Overrun * Sent({m}, now - MINUTE)

\* However long attempts stay in flight, the tokens sent in a minute exceed the
\* model's tpm at most by what the answers overran their estimates.
THEOREM MinuteTokenLimit == Spec => []MinuteTokensKept
<1>1. Init => MinutePromises
  BY NothingCommitted, TokenCaps DEF MinutePromises, Limits
<1>2. Inv /\ MinutePromises => MinuteTokensKept
  <2> SUFFICES ASSUME Inv, MinutePromises, NEW m \in Models, tpm[m] # NoLimit
               PROVE  Tokens(RowsSent({m}, now - MINUTE)) + Tokens(OpenSent({m}, now - MINUTE))
                        <= tpm[m] + Overrun * Sent({m}, now - MINUTE)
    BY DEF MinuteTokensKept
  <2>1. now - MINUTE \in Int
    BY WindowAssumption DEF Inv, TypeOK
  <2>2. tpm[m] \in Nat /\ Committed(promised, leaseTokens, {m}, now - MINUTE) <= tpm[m]
    BY TokenCaps DEF MinutePromises, Limits
  <2> QED BY <2>1, <2>2, UsedWithinPromises
<1> QED BY <1>1, <1>2, MinutePromisesStep, InvHolds, PTL DEF Spec

\* If attempts end within the age of their lease, neither a minute nor a day
\* takes a model past its token limits by more than the answers overran their
\* estimates, however attempts interleave.
THEOREM TokenLimits == ASSUME ~LongAttempts PROVE Spec => []TokensKept
<1>1. Init => DayPromises
  BY NothingCommitted, TokenCaps DEF DayPromises, Limits
<1>2. Inv /\ MinuteTokensKept /\ DayPromises => TokensKept
  <2> SUFFICES ASSUME Inv, DayPromises, NEW m \in Models, tpd[m] # NoLimit
               PROVE  Tokens(RowsSent({m}, now - DAY)) + Tokens(OpenSent({m}, now - DAY))
                        <= tpd[m] + Overrun * Sent({m}, now - DAY)
    BY DEF MinuteTokensKept, TokensKept
  <2>1. now - DAY \in Int
    BY WindowAssumption DEF Inv, TypeOK
  <2>2. tpd[m] \in Nat /\ Committed(promised, leaseTokens, {m}, now - DAY) <= tpd[m]
    BY TokenCaps DEF DayPromises, Limits
  <2> QED BY <2>1, <2>2, UsedWithinPromises
<1>3. DayPromises /\ Inv /\ [Next]_vars => DayPromises'
  BY DayPromisesStep
<1> QED BY <1>1, <1>2, <1>3, MinuteTokenLimit, InvHolds, PTL DEF Spec

-----------------------------------------------------------------------------
(* The token pool of the account. *)

\* All models of the platform are billed at one rate.
OneRate == \A m, n \in Models : multiplier[m] = multiplier[n]

rowBill == [u \in UsageRow |-> promised[u] * multiplier[u.model]]
leaseBill == [a \in Attempt |-> a.tokens * multiplier[a.model]]

\* What today's requests were promised to cost is within the pool.
PoolPromises ==
  TokenCap # NoLimit => Committed(rowBill, leaseBill, Models, Midnight) <= TokenCap

\* A larger factor makes no smaller product.
LEMMA ProductGrows ==
  ASSUME NEW k \in Nat, NEW x \in Nat, NEW y \in Nat, x <= y
  PROVE  x * k \in Nat /\ x * k <= y * k
  BY SMT

\* So is what the account is billed.
LEMMA BillWeights == Weighing(rowBill, leaseBill)
<1>1. \A m \in Models : multiplier[m] \in Nat
  BY TokenCaps
<1>2. \A u \in UsageRow : promised[u] \in Nat /\ u.model \in Models
  BY TokenWeights DEF Weighing, UsageRow
<1>3. \A a \in Attempt : a.tokens \in Nat /\ a.model \in Models
  BY DEF Attempt
<1>4. rowBill \in [UsageRow -> Nat] /\ leaseBill \in [Attempt -> Nat]
  BY <1>1, <1>2, <1>3, ProductGrows DEF rowBill, leaseBill
<1>5. ASSUME NEW a \in Attempt, NEW u \in UsageRow,
             u.model = a.model, u.tokens <= a.tokens + Overrun
      PROVE  rowBill[u] <= leaseBill[a]
  <2>1. promised[u] <= a.tokens
    BY <1>5, TokenWeights DEF Weighing, leaseTokens
  <2>2. promised[u] * multiplier[a.model] <= a.tokens * multiplier[a.model]
    BY <1>1, <1>2, <1>3, <2>1, ProductGrows
  <2> QED BY <1>5, <2>2 DEF rowBill, leaseBill
<1> QED BY <1>4, <1>5 DEF Weighing

\* At one rate the gate leaves room for the bill of the request it lets pass.
LEMMA PoolGate ==
  ASSUME ~LongAttempts, OneRate, Inv, TokenCap \in Nat,
         NEW m \in Models, NEW e \in Estimates, Dispatch(m, e), Opened(m, e) \in Attempt
  PROVE  Committed(rowBill, leaseBill, Models, Midnight) + leaseBill[Opened(m, e)] <= TokenCap
<1> DEFINE S == Today(Models)  L == Leases(Models)  k == multiplier[m]
           f == [r \in S |-> r.tokens * multiplier[r.model]]
           g == [r \in L |-> r.tokens * multiplier[r.model]]
           t == [r \in L |-> r.tokens]
           before == Committed(rowBill, leaseBill, Models, Midnight)
<1>1. Midnight \in Int /\ now - DAY <= Midnight
  BY MidnightType DEF Inv
<1>2. /\ S \subseteq UsageRow /\ IsFiniteSet(S) /\ L \subseteq Attempt /\ IsFiniteSet(L)
  BY <1>1, WindowSets DEF Today
<1>3. k \in Nat /\ e \in Nat /\ \A n \in Models : multiplier[n] = k
  BY TokenCaps DEF OneRate
<1>4. \A u \in S : f[u] \in Nat /\ rowBill[u] <= f[u]
  <2> SUFFICES ASSUME NEW u \in S PROVE f[u] \in Nat /\ rowBill[u] <= f[u]
    OBVIOUS
  <2>1. u \in UsageRow /\ u.tokens \in Nat /\ u.model \in Models
    BY <1>2 DEF UsageRow
  <2>2. promised[u] \in Nat /\ promised[u] <= u.tokens
    BY <2>1, TokenCaps DEF promised
  <2>3. u.tokens * k \in Nat /\ promised[u] * k <= u.tokens * k
    BY <1>3, <2>1, <2>2, ProductGrows
  <2>4. f[u] = u.tokens * k /\ rowBill[u] = promised[u] * k
    BY <1>3, <2>1 DEF rowBill
  <2> QED BY <2>3, <2>4
<1>5. \A a \in L : /\ g[a] \in Nat /\ leaseBill[a] <= g[a]
                   /\ t[a] \in Nat /\ g[a] <= k * t[a]
  <2> SUFFICES ASSUME NEW a \in L
               PROVE  g[a] \in Nat /\ leaseBill[a] <= g[a] /\ t[a] \in Nat /\ g[a] <= k * t[a]
    OBVIOUS
  <2>1. a \in Attempt /\ a.tokens \in Nat /\ a.model \in Models
    BY <1>2 DEF Attempt
  <2>2. a.tokens * k \in Nat /\ a.tokens * k = k * a.tokens
    BY <1>3, <2>1
  <2>3. g[a] = a.tokens * k /\ leaseBill[a] = a.tokens * k /\ t[a] = a.tokens
    BY <1>3, <2>1 DEF leaseBill
  <2> QED BY <2>1, <2>2, <2>3
<1>6. /\ Billed(S) = SumFunctionOnSet(f, S) /\ Tokens(L) = SumFunctionOnSet(t, L)
  BY LedgerSums
<1>7. leaseBill[Opened(m, e)] = k * e
  <2>1. Opened(m, e).tokens = e /\ Opened(m, e).model = m
    BY DEF Opened
  <2> QED BY <1>3, <2>1 DEF leaseBill
<1>8. Billed(S) + k * (Tokens(L) + e) <= TokenCap
  BY LimitAssumption DEF Dispatch, canUseProviderTokens, Fits
<1>9. before \in Nat
  BY <1>1, CommittedType, BillWeights
<1>10. S = Since(Models, Midnight)
  BY DEF Today
<1> HIDE DEF S, L, k, f, g, t
<1>11. /\ before <= SumFunctionOnSet(f, S) + SumFunctionOnSet(g, L)
       /\ SumFunctionOnSet(f, S) \in Nat /\ SumFunctionOnSet(g, L) \in Nat
  <2>1. /\ \A u \in Since(Models, Midnight) : f[u] \in Nat /\ rowBill[u] <= f[u]
        /\ \A a \in Leases(Models) : g[a] \in Nat /\ leaseBill[a] <= g[a]
    BY <1>4, <1>5, <1>10 DEF L
  <2>2. /\ before <= SumFunctionOnSet(f, Since(Models, Midnight))
                        + SumFunctionOnSet(g, Leases(Models))
        /\ SumFunctionOnSet(f, Since(Models, Midnight)) \in Nat
        /\ SumFunctionOnSet(g, Leases(Models)) \in Nat
    BY <1>1, <2>1, CommittedSeen, BillWeights
  <2> QED BY <1>10, <2>2 DEF L
<1>12. SumFunctionOnSet(g, L) <= k * SumFunctionOnSet(t, L) /\ SumFunctionOnSet(t, L) \in Nat
  BY <1>2, <1>3, <1>5, SumScaled, SumType
<1> HIDE DEF before
<1>13. k * (Tokens(L) + e) = k * Tokens(L) + k * e /\ k * Tokens(L) \in Nat /\ k * e \in Nat
  BY <1>3, <1>6, <1>12
<1>14. before + leaseBill[Opened(m, e)] <= TokenCap
  BY <1>6, <1>7, <1>8, <1>9, <1>11, <1>12, <1>13
<1> QED BY <1>14 DEF before

\* No step takes a day's promises past the pool.
LEMMA PoolPromisesStep ==
  ~LongAttempts /\ OneRate /\ Inv /\ PoolPromises /\ [Next]_vars => PoolPromises'
<1> SUFFICES ASSUME ~LongAttempts, OneRate, Inv, PoolPromises, Next PROVE PoolPromises'
  BY DEF vars, PoolPromises, Committed, RowsSent, OpenSent, Open, Midnight
<1>1. Midnight \in Int /\ Midnight' \in Int /\ Midnight <= Midnight'
  BY MidnightSteps
<1>2. ASSUME TokenCap # NoLimit, NEW later \in Int, later = Midnight'
      PROVE  Committed(rowBill, leaseBill, Models, later)' <= TokenCap
  <2> DEFINE before == Committed(rowBill, leaseBill, Models, Midnight)
             after == Committed(rowBill, leaseBill, Models, later)'
  <2>1. TokenCap \in Nat /\ before <= TokenCap
    BY <1>2, TokenCaps DEF PoolPromises, Limits
  <2>2. before \in Nat
    BY <1>1, CommittedType, BillWeights
  <2>3. /\ after \in Nat
        /\ \/ after <= before
           \/ \E m \in Models, e \in Estimates :
                Dispatch(m, e) /\ Opened(m, e) \in Attempt
                /\ after <= before + leaseBill[Opened(m, e)]
    BY <1>1, <1>2, CommittedGrows, BillWeights
  <2>4. \A m \in Models, e \in Estimates : Dispatch(m, e) /\ Opened(m, e) \in Attempt =>
          /\ leaseBill[Opened(m, e)] \in Nat
          /\ before + leaseBill[Opened(m, e)] <= TokenCap
    BY <2>1, PoolGate, BillWeights DEF Weighing
  <2> HIDE DEF before, after
  <2>5. after <= TokenCap
    BY <2>1, <2>2, <2>3, <2>4
  <2> QED BY <2>5 DEF after
<1>3. ASSUME TokenCap # NoLimit
      PROVE  Committed(rowBill, leaseBill, Models, Midnight)' <= TokenCap
  BY <1>1, <1>2, <1>3 DEF Committed, RowsSent, OpenSent, Open
<1> QED BY <1>3 DEF PoolPromises

\* What is billed for today exceeds its promises by no more than the overruns.
LEMMA BilledWithinPromises ==
  ASSUME Inv, PoolPromises
  PROVE  PoolKept
<1> SUFFICES ASSUME TokenCap # NoLimit PROVE PoolKept
  BY DEF PoolKept
<1> DEFINE R == RowsSent(Models, Midnight)  O == OpenSent(Models, Midnight)
           T == R \cup O
           f == [r \in T |-> r.tokens * multiplier[r.model]]
           v == [r \in T |-> IF r \in R THEN rowBill[r] ELSE leaseBill[r]]
           rate == [r \in T |-> multiplier[r.model]]
<1>1. Midnight \in Int /\ now - DAY <= Midnight
  BY MidnightType DEF Inv
<1>2. /\ R \subseteq UsageRow /\ IsFiniteSet(R) /\ O \subseteq Attempt /\ IsFiniteSet(O)
      /\ IsFiniteSet(T)
  BY <1>1, WindowSets, FS_Union
<1>3. /\ Billed(T) = SumFunctionOnSet(f, T)
      /\ SumFunction([r \in T |-> multiplier[r.model]]) = SumFunctionOnSet(rate, T)
  BY LedgerSums DEF SumFunction
<1>4. \A r \in T : r.tokens \in Nat /\ r.model \in Models /\ multiplier[r.model] \in Nat
  <2>1. \A r \in T : r.tokens \in Nat /\ r.model \in Models
    BY <1>2 DEF UsageRow, Attempt
  <2> QED BY <2>1, TokenCaps
<1>5. \A r \in R : rowBill[r] \in Nat /\ r.tokens <= promised[r] + Overrun /\ promised[r] \in Nat
                    /\ rowBill[r] = promised[r] * multiplier[r.model]
  BY <1>2, TokenCaps, BillWeights DEF Weighing, promised, rowBill, UsageRow
<1>6. \A r \in O : leaseBill[r] \in Nat /\ leaseBill[r] = r.tokens * multiplier[r.model]
  BY <1>2, BillWeights DEF Weighing, leaseBill
<1>7. \A r \in T : /\ f[r] \in Nat /\ v[r] \in Nat /\ rate[r] \in Nat
                   /\ f[r] <= v[r] + Overrun * rate[r]
  <2> SUFFICES ASSUME NEW r \in T
               PROVE  /\ f[r] \in Nat /\ v[r] \in Nat /\ rate[r] \in Nat
                      /\ f[r] <= v[r] + Overrun * rate[r]
    OBVIOUS
  <2> DEFINE k == multiplier[r.model]  n == r.tokens
  <2>1. n \in Nat /\ k \in Nat /\ Overrun \in Nat
    BY <1>4, TokenCaps
  <2>2. f[r] = n * k /\ rate[r] = k
    OBVIOUS
  <2>3. n * k \in Nat /\ Overrun * k \in Nat
    BY <2>1
  <2>4. CASE r \in R
    <3> DEFINE p == promised[r]
    <3>1. p \in Nat /\ n <= p + Overrun /\ v[r] = p * k
      BY <1>5, <2>4
    <3> HIDE DEF k, n, p, f, v, rate
    <3>2. n * k <= (p + Overrun) * k
      BY <2>1, <3>1, ProductGrows
    <3>3. (p + Overrun) * k = p * k + Overrun * k /\ p * k \in Nat
      BY <2>1, <3>1
    <3> QED BY <2>1, <2>2, <2>3, <3>1, <3>2, <3>3
  <2>5. CASE r \notin R
    <3>1. v[r] = n * k
      BY <1>6, <2>5
    <3> HIDE DEF k, n, f, v, rate
    <3> QED BY <2>1, <2>2, <2>3, <3>1
  <2> QED BY <2>4, <2>5
<1>8. \A r \in R : v[r] <= rowBill[r]
  BY <1>5
<1>9. \A r \in O : v[r] <= leaseBill[r]
  <2> SUFFICES ASSUME NEW r \in O PROVE v[r] <= leaseBill[r]
    OBVIOUS
  <2>1. CASE r \in R
    <3>1. promised[r] <= r.tokens /\ promised[r] \in Nat /\ r.tokens \in Nat
      BY <1>2, <2>1, TokenCaps DEF promised, UsageRow
    <3>2. promised[r] * multiplier[r.model] <= r.tokens * multiplier[r.model]
      BY <1>4, <3>1, ProductGrows
    <3> QED BY <1>5, <1>6, <2>1, <3>2
  <2>2. CASE r \notin R
    BY <1>6, <2>2
  <2> QED BY <2>1, <2>2
<1>10. Committed(rowBill, leaseBill, Models, Midnight)
         = SumFunctionOnSet(rowBill, R) + SumFunctionOnSet(leaseBill, O)
  BY DEF Committed
<1>11. TokenCap \in Nat /\ Committed(rowBill, leaseBill, Models, Midnight) <= TokenCap
  BY TokenCaps DEF PoolPromises, Limits
<1> HIDE DEF R, O, f, v, rate
<1>12. SumFunctionOnSet(f, T) <= SumFunctionOnSet(v, T) + Overrun * SumFunctionOnSet(rate, T)
  <2> HIDE DEF T
  <2> QED BY <1>2, <1>7, TokenCaps, SumLinear
<1>13. SumFunctionOnSet(v, T) <= SumFunctionOnSet(v, R) + SumFunctionOnSet(v, O)
  BY <1>2, <1>7, SumUnion
<1>14. SumFunctionOnSet(v, R) <= SumFunctionOnSet(rowBill, R)
  BY <1>2, <1>5, <1>7, <1>8, SumGrows
<1>15. SumFunctionOnSet(v, O) <= SumFunctionOnSet(leaseBill, O)
  BY <1>2, <1>6, <1>7, <1>9, SumGrows
<1>16. /\ SumFunctionOnSet(f, T) \in Nat /\ SumFunctionOnSet(v, T) \in Nat
       /\ SumFunctionOnSet(rate, T) \in Nat
  <2> HIDE DEF T
  <2> QED BY <1>2, <1>7, SumType
<1>17. /\ SumFunctionOnSet(v, R) \in Nat /\ SumFunctionOnSet(v, O) \in Nat
       /\ SumFunctionOnSet(rowBill, R) \in Nat /\ SumFunctionOnSet(leaseBill, O) \in Nat
  BY <1>2, <1>5, <1>6, <1>7, SumType
<1>18. Overrun * SumFunctionOnSet(rate, T) \in Nat
  BY <1>16, TokenCaps
<1>19. Billed(T) <= TokenCap + Overrun * SumFunctionOnSet(rate, T)
  BY <1>3, <1>10, <1>11, <1>12, <1>13, <1>14, <1>15, <1>16, <1>17, <1>18
<1> QED BY <1>3, <1>19 DEF PoolKept, R, O

\* If all models are billed at one rate and attempts end within the age of their
\* lease, today's bill exceeds the account's token pool at most by what the
\* answers overran their estimates.
THEOREM PoolLimit == ASSUME ~LongAttempts, OneRate PROVE Spec => []PoolKept
<1>1. Init => PoolPromises
  BY NothingCommitted, TokenCaps DEF PoolPromises, Limits
<1>2. PoolPromises /\ Inv /\ [Next]_vars => PoolPromises'
  BY PoolPromisesStep
<1>3. Inv /\ PoolPromises => PoolKept
  BY BilledWithinPromises
<1> QED BY <1>1, <1>2, <1>3, InvHolds, PTL DEF Spec

-----------------------------------------------------------------------------
(* The tokens of the month. *)

\* Reservations are within the month's cap by themselves, for the month they are
\* settled in may be the next; with what has been settled they exceed it by no
\* more than the settled answers overran their estimates.
MonthPromises ==
  MonthTokenCap # NoLimit =>
    /\ Tokens(Open) <= MonthTokenCap
    /\ getMonthlyUsage.tokens + Tokens(Open)
         <= MonthTokenCap + Overrun * getMonthlyUsage.requests

\* A step settles nothing and opens nothing, or it is a Dispatch or a Serve, and
\* what an answer settles is no longer reserved.
LEMMA ReservedGrows ==
  ASSUME Inv, Next
  PROVE  /\ Tokens(Open) \in Nat /\ Tokens(Open') \in Nat
         /\ \/ Tokens(Open') <= Tokens(Open) /\ monthly' = monthly
            \/ \E m \in Models, e \in Estimates :
                 Dispatch(m, e) /\ Tokens(Open') <= Tokens(Open) + e
            \/ \E a \in attempts : \E actual \in 0 .. a.tokens + Overrun :
                 /\ Serve(a, actual) /\ a.tokens \in Nat
                 /\ Tokens(Open') + a.tokens <= Tokens(Open)
<1> DEFINE O == Open  NO == Open'
           sum(S) == SumFunctionOnSet(leaseTokens, S)
<1>1. O \subseteq Attempt /\ IsFiniteSet(O) /\ NO \subseteq Attempt /\ IsFiniteSet(NO)
  <2>1. O \subseteq Attempt /\ IsFiniteSet(O)
    BY WindowSets, 0 \in Int
  <2>2. NO \subseteq attempts' /\ attempts' \subseteq Attempt /\ IsFiniteSet(attempts')
    BY NextInv DEF Open, Inv, TypeOK, Books, Finite
  <2>3. NO \subseteq Attempt /\ IsFiniteSet(NO)
    BY <2>2, FS_Subset
  <2> QED BY <2>1, <2>3
<1>2. \A a \in Attempt : leaseTokens[a] \in Nat /\ leaseTokens[a] = a.tokens
  BY DEF leaseTokens, Attempt
<1>3. ASSUME NEW S \in SUBSET Attempt, IsFiniteSet(S) PROVE Tokens(S) = sum(S) /\ sum(S) \in Nat
  <2> DEFINE f == [r \in S |-> r.tokens]
  <2>1. \A r \in S : f[r] \in Nat /\ leaseTokens[r] \in Nat /\ f[r] = leaseTokens[r]
    BY <1>2
  <2>2. Tokens(S) = SumFunctionOnSet(f, S)
    BY LedgerSums
  <2> HIDE DEF f
  <2>3. SumFunctionOnSet(f, S) <= sum(S) /\ sum(S) <= SumFunctionOnSet(f, S)
    BY <1>3, <2>1, SumGrows
  <2>4. SumFunctionOnSet(f, S) \in Nat /\ sum(S) \in Nat
    BY <1>3, <2>1, SumType
  <2> HIDE DEF sum
  <2> QED BY <2>2, <2>3, <2>4
<1>4. /\ Tokens(O) = sum(O) /\ sum(O) \in Nat /\ Tokens(NO) = sum(NO) /\ sum(NO) \in Nat
  <2> HIDE DEF O, NO, sum
  <2> QED BY <1>1, <1>3
<1>5. ASSUME NEW m \in Models, NEW e \in Estimates, Dispatch(m, e)
      PROVE  Tokens(NO) <= Tokens(O) + e
  <2> DEFINE new == Opened(m, e)
  <2>1. attempts' = attempts \cup {new} /\ new.tokens = e
    BY <1>5 DEF Dispatch, Opened
  <2>2. new \in Attempt
    BY RequestAssumption DEF Attempt, Opened, Inv, TypeOK
  <2> HIDE DEF new
  <2>3. NO \subseteq O \cup {new}
    BY <2>1 DEF Open
  <2> HIDE DEF O, NO
  <2>4. IsFiniteSet(O \cup {new}) /\ \A a \in O \cup {new} : leaseTokens[a] \in Nat
    BY <1>1, <1>2, <2>2, FS_AddElement
  <2>5. sum(O \cup {new}) <= sum(O) + leaseTokens[new] /\ sum(O \cup {new}) \in Nat
    BY <1>1, <2>4, SumWith, SumType
  <2>6. sum(NO) <= sum(O \cup {new})
    BY <2>3, <2>4, SumGrows
  <2>7. leaseTokens[new] = e /\ e \in Nat
    BY <1>2, <2>1, <2>2
  <2> HIDE DEF sum
  <2> QED BY <1>4, <2>5, <2>6, <2>7
<1>6. ASSUME NEW a \in attempts, NEW actual \in 0 .. a.tokens + Overrun, Serve(a, actual)
      PROVE  a.tokens \in Nat /\ Tokens(NO) + a.tokens <= Tokens(O)
  <2> DEFINE done == [id |-> a.id, model |-> a.model, tokens |-> a.tokens,
                      at |-> a.at, served |-> TRUE]
  <2>1. attempts' = (attempts \ {a}) \cup {done} /\ ~a.served /\ done.served = TRUE
    BY <1>6 DEF Serve
  <2> HIDE DEF done
  <2>2. NO \subseteq O \ {a} /\ a \in O
    BY <2>1 DEF Open
  <2> HIDE DEF O, NO
  <2>3. sum(O) = leaseTokens[a] + sum(O \ {a})
    BY <1>1, <1>2, <2>2, SumWithout
  <2>4. IsFiniteSet(O \ {a}) /\ \A b \in O \ {a} : leaseTokens[b] \in Nat
    BY <1>1, <1>2, FS_RemoveElement
  <2>5. sum(NO) <= sum(O \ {a}) /\ sum(O \ {a}) \in Nat
    BY <2>2, <2>4, SumGrows, SumType
  <2>6. leaseTokens[a] = a.tokens /\ leaseTokens[a] \in Nat
    BY <1>1, <1>2, <2>2
  <2> HIDE DEF sum
  <2> QED BY <1>4, <2>3, <2>5, <2>6
<1>7. ASSUME \/ \E a \in attempts : Release(a) \/ Fail(a)
             \/ Tick
             \/ Restart
      PROVE  Tokens(NO) <= Tokens(O) /\ monthly' = monthly
  <2>1. attempts' \subseteq attempts /\ monthly' = monthly
    BY <1>7 DEF Release, Fail, Tick, Restart
  <2>2. NO \subseteq O
    BY <2>1 DEF Open
  <2> HIDE DEF O, NO
  <2>3. sum(NO) <= sum(O)
    BY <1>1, <1>2, <2>2, SumGrows
  <2> QED BY <1>4, <2>1, <2>3
<1> HIDE DEF O, NO, sum
<1>8. \/ Tokens(NO) <= Tokens(O) /\ monthly' = monthly
      \/ \E m \in Models, e \in Estimates :
           Dispatch(m, e) /\ Tokens(NO) <= Tokens(O) + e
      \/ \E a \in attempts : \E actual \in 0 .. a.tokens + Overrun :
           /\ Serve(a, actual) /\ a.tokens \in Nat
           /\ Tokens(NO) + a.tokens <= Tokens(O)
  <2>1. CASE \E m \in Models, e \in Estimates : Dispatch(m, e)
    BY <1>5, <2>1
  <2>2. CASE \E a \in attempts : \E actual \in 0 .. a.tokens + Overrun : Serve(a, actual)
    BY <1>6, <2>2
  <2> QED BY <1>7, <2>1, <2>2 DEF Next
<1> QED BY <1>4, <1>8 DEF O, NO

\* What the gate counts as reserved is no less than what is open.
LEMMA OpenIsReserved ==
  ASSUME Inv
  PROVE  Tokens(Open) \in Nat /\ Tokens(attempts) \in Nat /\ Tokens(Open) <= Tokens(attempts)
<1> DEFINE f == [r \in Open |-> r.tokens]  g == [r \in attempts |-> r.tokens]
<1>1. /\ attempts \subseteq Attempt /\ IsFiniteSet(attempts)
      /\ Open \subseteq attempts /\ IsFiniteSet(Open)
  BY FS_Subset DEF Inv, TypeOK, Books, Finite, Open
<1>2. Tokens(Open) = SumFunctionOnSet(f, Open) /\ Tokens(attempts) = SumFunctionOnSet(g, attempts)
  BY LedgerSums
<1>3. (\A r \in attempts : g[r] \in Nat) /\ (\A r \in Open : f[r] \in Nat /\ f[r] <= g[r])
  BY <1>1 DEF Attempt
<1> HIDE DEF f, g
<1>4. /\ SumFunctionOnSet(f, Open) <= SumFunctionOnSet(g, attempts)
      /\ SumFunctionOnSet(f, Open) \in Nat /\ SumFunctionOnSet(g, attempts) \in Nat
  BY <1>1, <1>3, SumGrows, SumType
<1> QED BY <1>2, <1>4

\* The month's record stands or starts from nothing, unless a request is served.
LEMMA MonthRolls ==
  ASSUME Inv, Next, monthly' = monthly
  PROVE  \/ getMonthlyUsage' = getMonthlyUsage
         \/ getMonthlyUsage'.tokens = 0 /\ getMonthlyUsage'.requests = 0
<1>1. now \in Nat /\ now' \in {now, now + 1} /\ MONTH \in Nat \ {0}
  BY Clock, WindowAssumption
<1> DEFINE this == now \div MONTH  after == (now + 1) \div MONTH
<1>2. this \in Nat /\ after \in Nat /\ this <= after
  BY <1>1, Division, DivisionGrows
<1>3. Month = this /\ Month' \in {this, after}
  <2>1. CASE now' = now
    BY <2>1 DEF Month
  <2>2. CASE now' = now + 1
    BY <2>2 DEF Month
  <2> QED BY <1>1, <2>1, <2>2 DEF Month
<1> HIDE DEF this, after
<1>4. Month \in Nat /\ Month' \in Nat /\ Month <= Month'
  BY <1>2, <1>3
<1>5. monthly.month \in Nat /\ monthly.month <= Month
  BY DEF Inv, TypeOK, Books, MonthPast
<1>6. CASE monthly.month = Month'
  BY <1>4, <1>5, <1>6 DEF getMonthlyUsage
<1>7. CASE monthly.month # Month'
  BY <1>7 DEF getMonthlyUsage
<1> QED BY <1>6, <1>7

\* No step promises the month more than its cap.
LEMMA MonthPromisesStep == Inv /\ MonthPromises /\ [Next]_vars => MonthPromises'
<1> SUFFICES ASSUME Inv, MonthPromises, Next PROVE MonthPromises'
  BY DEF vars, MonthPromises, Open, getMonthlyUsage, Month, Tokens
<1> SUFFICES ASSUME MonthTokenCap # NoLimit
             PROVE  /\ Tokens(Open') <= MonthTokenCap
                    /\ getMonthlyUsage'.tokens + Tokens(Open')
                         <= MonthTokenCap + Overrun * getMonthlyUsage'.requests
  BY DEF MonthPromises, Tokens
<1> DEFINE old == Tokens(Open)  new == Tokens(Open')  u == getMonthlyUsage  nu == getMonthlyUsage'
<1>1. MonthTokenCap \in Nat /\ Overrun \in Nat
  BY TokenCaps DEF Limits
<1>2. old <= MonthTokenCap /\ u.tokens + old <= MonthTokenCap + Overrun * u.requests
  BY DEF MonthPromises
<1>3. old \in Nat /\ new \in Nat
  BY ReservedGrows
<1>4. /\ u \in [month : Nat, requests : Nat, tokens : Nat]
      /\ nu \in [month : Nat, requests : Nat, tokens : Nat]
  <2>1. u \in [month : Nat, requests : Nat, tokens : Nat]
    BY MidnightType DEF Inv, TypeOK, getMonthlyUsage
  <2>2. Inv'
    BY NextInv
  <2>3. now' \in Nat /\ monthly' \in [month : Nat, requests : Nat, tokens : Nat]
    BY <2>2 DEF Inv, TypeOK
  <2>4. now' \div MONTH \in Nat
    BY <2>3, WindowAssumption, Division
  <2>5. Month' \in Nat
    BY <2>4 DEF Month
  <2>6. nu \in [month : Nat, requests : Nat, tokens : Nat]
    BY <2>3, <2>5 DEF getMonthlyUsage
  <2> QED BY <2>1, <2>6
<1>5. /\ Overrun * u.requests \in Nat /\ Overrun * nu.requests \in Nat
      /\ Overrun * (u.requests + 1) = Overrun * u.requests + Overrun
      /\ Overrun * 0 = 0
  BY <1>1, <1>4
<1>6. ASSUME monthly' = monthly, new <= MonthTokenCap,
             u.tokens + new <= MonthTokenCap + Overrun * u.requests
      PROVE  nu.tokens + new <= MonthTokenCap + Overrun * nu.requests
  <2>1. CASE nu = u
    BY <1>6, <2>1
  <2>2. CASE nu.tokens = 0 /\ nu.requests = 0
    <3> HIDE DEF nu, new
    <3> QED BY <1>1, <1>3, <1>5, <1>6, <2>2
  <2> QED BY <1>6, <2>1, <2>2, MonthRolls
<1>7. CASE new <= old /\ monthly' = monthly
  <2>1. new <= MonthTokenCap /\ u.tokens + new <= MonthTokenCap + Overrun * u.requests
    <3> HIDE DEF new, old, u
    <3> QED BY <1>1, <1>2, <1>3, <1>4, <1>5, <1>7
  <2> QED BY <1>6, <1>7, <2>1
<1>8. ASSUME NEW m \in Models, NEW e \in Estimates, Dispatch(m, e), new <= old + e
      PROVE  /\ new <= MonthTokenCap
             /\ nu.tokens + new <= MonthTokenCap + Overrun * nu.requests
  <2>1. u.tokens + Tokens(attempts) + e <= MonthTokenCap /\ monthly' = monthly
    BY <1>8, LimitAssumption DEF Dispatch, checkMonthlyBudget, Fits
  <2>2. Tokens(attempts) \in Nat /\ old <= Tokens(attempts) /\ e \in Nat
    BY OpenIsReserved, TokenCaps
  <2>3. new <= MonthTokenCap /\ u.tokens + new <= MonthTokenCap + Overrun * u.requests
    <3> HIDE DEF new, old, u
    <3> QED BY <1>1, <1>3, <1>4, <1>5, <1>8, <2>1, <2>2
  <2> QED BY <1>6, <2>1, <2>3
<1>9. ASSUME NEW a \in attempts, NEW actual \in 0 .. a.tokens + Overrun, Serve(a, actual),
             a.tokens \in Nat, new + a.tokens <= old
      PROVE  /\ new <= MonthTokenCap
             /\ nu.tokens + new <= MonthTokenCap + Overrun * nu.requests
  <2>1. nu.tokens = u.tokens + actual /\ nu.requests = u.requests + 1
    <3>1. /\ monthly' = [month    |-> Month,
                         requests |-> getMonthlyUsage.requests + 1,
                         tokens   |-> getMonthlyUsage.tokens + actual]
          /\ now' = now
      BY <1>9 DEF Serve
    <3>2. Month' = Month
      BY <3>1 DEF Month
    <3> QED BY <3>1, <3>2 DEF getMonthlyUsage
  <2> HIDE DEF new, old, u, nu
  <2>2. actual \in Nat /\ actual <= a.tokens + Overrun
    BY <1>1, <1>9
  <2> QED BY <1>1, <1>2, <1>3, <1>4, <1>5, <1>9, <2>1, <2>2
<1>10. /\ new <= MonthTokenCap
       /\ nu.tokens + new <= MonthTokenCap + Overrun * nu.requests
  <2>1. CASE new <= old /\ monthly' = monthly
    <3>1. new <= MonthTokenCap
      <4> HIDE DEF new, old
      <4> QED BY <1>1, <1>2, <1>3, <2>1
    <3> QED BY <1>7, <2>1, <3>1
  <2> HIDE DEF new, old, nu
  <2> QED BY <1>8, <1>9, <2>1, ReservedGrows DEF new, old
<1> QED BY <1>10

\* Settled and reserved tokens exceed the month's cap at most by what the answers
\* overran their estimates, however long attempts stay in flight and whichever
\* month they end in.
THEOREM MonthTokenLimit == Spec => []MonthTokensKept
<1>1. Init => MonthPromises
  <2> SUFFICES ASSUME Init, MonthTokenCap # NoLimit PROVE MonthPromises
    BY DEF MonthPromises
  <2>1. Open = {} /\ getMonthlyUsage.tokens = 0 /\ getMonthlyUsage.requests = 0
    BY DEF Init, Open, getMonthlyUsage, NoMonth
  <2>2. Tokens(Open) = 0
    BY <2>1, LedgerSums, SumEmpty
  <2>3. MonthTokenCap \in Nat /\ Overrun * 0 = 0
    BY TokenCaps DEF Limits
  <2> QED BY <2>1, <2>2, <2>3 DEF MonthPromises
<1>2. Inv /\ MonthPromises => MonthTokensKept
  <2> SUFFICES ASSUME Inv, MonthPromises, MonthTokenCap # NoLimit PROVE MonthTokensKept
    BY DEF MonthTokensKept
  <2> DEFINE r == getMonthlyUsage.requests  c == Cardinality(Open)  t == getMonthlyUsage.tokens
  <2>1. r \in Nat /\ t \in Nat /\ c \in Nat /\ Overrun \in Nat /\ MonthTokenCap \in Nat
    BY CountsType, 0 \in Int, MidnightType, TokenCaps
       DEF Inv, Books, TypeOK, getMonthlyUsage, Limits
  <2>2. Tokens(Open) \in Nat
    BY OpenIsReserved
  <2>3. t + Tokens(Open) <= MonthTokenCap + Overrun * r
    BY DEF MonthPromises
  <2> HIDE DEF r, c, t
  <2>4. Overrun * (r + c) = Overrun * r + Overrun * c /\ Overrun * c \in Nat /\ Overrun * r \in Nat
    BY <2>1
  <2>5. t + Tokens(Open) <= MonthTokenCap + Overrun * (r + c)
    BY <2>1, <2>2, <2>3, <2>4
  <2> QED BY <2>5 DEF MonthTokensKept, r, c, t
<1> QED BY <1>1, <1>2, MonthPromisesStep, InvHolds, PTL DEF Spec
=============================================================================
