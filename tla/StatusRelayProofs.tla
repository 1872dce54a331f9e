-------------------------- MODULE StatusRelayProofs --------------------------
(***************************************************************************)
(* What the relay promises, for any number of registrations, counters,     *)
(* posts in flight and overlapping invocations, and for any clock skew.    *)
(***************************************************************************)
EXTENDS StatusRelay, TLAPS

\* A good report is not stamped later than the worker's last good moment.
InTime(r) ==
    r.good => IF badSince[r.ident] = Never THEN r.observed <= now + MaxSkew
              ELSE r.observed <= badSince[r.ident] + MaxSkew

ReportsInTime ==
    /\ \A r \in posts : InTime(r)
    /\ \A r \in checked : InTime(r)
    /\ stored # Absent => InTime(stored)
    /\ reading # Absent => InTime(reading)

ClockBounds ==
    /\ health.at <= now
    /\ \A i \in Idents : badSince[i] <= now
    /\ health.ok => health.of \in Report

\* The inductive invariant.
IInv ==
    /\ TypeOK
    /\ AcceptedIsKept
    /\ ReportsInTime
    /\ ClockBounds
    /\ HealthIsRecent

LEMMA AbsentIsNoReport == Absent \notin Report
  BY DEF Absent, Report

LEMMA Initially == Init => IInv
<1> SUFFICES ASSUME Init PROVE IInv
  OBVIOUS
<1> USE RelayAssumption DEF Init, Refused
<1>1. TypeOK
  BY AbsentIsNoReport DEF TypeOK, Report, Never, Absent
<1>2. AcceptedIsKept
  BY DEF AcceptedIsKept
<1>3. ReportsInTime /\ ClockBounds /\ HealthIsRecent
  BY DEF ReportsInTime, ClockBounds, HealthIsRecent, Never
<1> QED
  BY <1>1, <1>2, <1>3 DEF IInv

LEMMA TypeStep == TypeOK /\ [Next]_vars => TypeOK'
<1> SUFFICES ASSUME TypeOK, [Next]_vars PROVE TypeOK'
  OBVIOUS
<1> USE RelayAssumption DEF TypeOK
<1>1. CASE Tick
  BY <1>1 DEF Tick
<1>2. ASSUME NEW i \in Idents, NEW c \in Counters, Append(i, c) PROVE TypeOK'
  BY <1>2 DEF Append
<1>3. ASSUME NEW i \in Idents, GoBad(i) PROVE TypeOK'
  BY <1>3 DEF GoBad
<1>4. ASSUME NEW i \in Idents, Restore(i) PROVE TypeOK'
  BY <1>4 DEF Restore
<1>5. ASSUME NEW i \in Idents, NEW s \in Skews, Publish(i, s) PROVE TypeOK'
  <2> DEFINE stamp == now + s
             aud == IF badSince[i] = Never THEN stamp ELSE audited[i]
             r == [ident |-> i, observed |-> stamp, counts |-> ledger[i],
                   good |-> badSince[i] = Never, audited |-> aud]
  <2>1. stamp \in Int /\ aud \in Int
    BY <1>5
  <2>2. r \in Report
    BY <2>1 DEF Report
  <2>3. audited' \in [Idents -> Int] /\ posts' \subseteq Report
    BY <1>5, <2>1, <2>2 DEF Publish
  <2> QED
    BY <1>5, <2>3 DEF Publish
<1>6. ASSUME NEW r \in posts, Lose(r) PROVE TypeOK'
  BY <1>6 DEF Lose
<1>7. ASSUME NEW r \in posts, NEW again \in BOOLEAN, Receive(r, again)
      PROVE TypeOK'
  BY <1>7 DEF Receive
<1>8. ASSUME NEW r \in checked, NEW heard \in BOOLEAN, Write(r, heard)
      PROVE TypeOK'
  BY <1>8 DEF Write
<1>9. CASE ReadStored
  BY <1>9 DEF ReadStored
<1>10. CASE Answer
  <2>1. Refused \in [ok : BOOLEAN, at : Nat, of : Report \cup {Absent}]
    BY DEF Refused
  <2>2. [ok |-> TRUE, at |-> now, of |-> reading]
            \in [ok : BOOLEAN, at : Nat, of : Report \cup {Absent}]
    OBVIOUS
  <2>3. health' \in [ok : BOOLEAN, at : Nat, of : Report \cup {Absent}]
    BY <1>10, <2>1, <2>2 DEF Answer
  <2> QED
    BY <1>10, <2>3 DEF Answer
<1>11. CASE UNCHANGED vars
  BY <1>11 DEF vars
<1> QED
  BY <1>1, <1>2, <1>3, <1>4, <1>5, <1>6, <1>7, <1>8, <1>9, <1>10, <1>11
  DEF Next, Reporting

\* What the script lets replace the stored report.
LEMMA CodeReplaces ==
  ASSUME NEW old \in Report \cup {Absent}, NEW r \in Report, Code(old, r) = 1
  PROVE  old = Absent \/ (NotBehind(r, old) /\ r.observed > old.observed)
<1>1. CASE old = Absent
  BY <1>1
<1>2. CASE old # Absent
  <2>1. old \in Report
    BY <1>2
  <2>2. old.ident = r.ident
    BY <1>2 DEF Code
  <2>3. ~(r.observed < old.observed)
    BY <1>2, <2>2 DEF Code
  <2>4. r.observed # old.observed
    BY <1>2, <2>2, <2>3 DEF Code
  <2>5. ~\E c \in Counters : r.counts[c] < old.counts[c]
    BY <1>2, <2>2, <2>3, <2>4 DEF Code
  <2>6. r.observed > old.observed
    BY <2>1, <2>3, <2>4 DEF Report
  <2>7. \A c \in Counters : r.counts[c] \in Nat /\ old.counts[c] \in Nat
    BY <2>1 DEF Report
  <2> QED
    BY <2>1, <2>2, <2>5, <2>6, <2>7 DEF NotBehind, Report
<1> QED
  BY <1>1, <1>2

\* What the script calls a duplicate is the stored report.
LEMMA CodeDuplicate ==
  ASSUME NEW old \in Report \cup {Absent}, NEW r \in Report, Code(old, r) = 2
  PROVE  old = r
  BY DEF Code

LEMMA NotBehindTransitive ==
  ASSUME NEW a \in Report, NEW b \in Report, NEW c \in Report,
         NotBehind(a, b), NotBehind(b, c)
  PROVE  NotBehind(a, c)
<1>1. /\ a.observed \in Int /\ b.observed \in Int /\ c.observed \in Int
      /\ \A k \in Counters : /\ a.counts[k] \in Nat /\ b.counts[k] \in Nat
                             /\ c.counts[k] \in Nat
  BY DEF Report
<1>2. /\ a.ident = b.ident /\ b.ident = c.ident
      /\ a.observed >= b.observed /\ b.observed >= c.observed
      /\ \A k \in Counters : /\ a.counts[k] >= b.counts[k]
                             /\ b.counts[k] >= c.counts[k]
  BY DEF NotBehind
<1>3. \A k \in Counters : a.counts[k] >= c.counts[k]
  BY <1>1, <1>2
<1> QED
  BY <1>1, <1>2, <1>3 DEF NotBehind

LEMMA NotBehindItself ==
  ASSUME NEW a \in Report PROVE NotBehind(a, a)
  BY DEF NotBehind, Report

LEMMA KeptStep == IInv /\ [Next]_vars => AcceptedIsKept'
<1> SUFFICES ASSUME IInv, [Next]_vars PROVE AcceptedIsKept'
  OBVIOUS
<1>1. TypeOK /\ AcceptedIsKept
  BY DEF IInv
<1>2. ASSUME NEW r \in checked, NEW heard \in BOOLEAN, Write(r, heard)
      PROVE AcceptedIsKept'
  <2>1. r \in Report /\ stored \in Report \cup {Absent} /\ accepted \subseteq Report
    BY <1>1 DEF TypeOK
  <2>2. ASSUME Code(stored, r) = 1 PROVE AcceptedIsKept'
    <3>1. stored' = r /\ accepted' \subseteq accepted \cup {r}
      BY <1>2, <2>2 DEF Write
    <3>2. r # Absent
      BY <2>1, AbsentIsNoReport
    <3>3. ASSUME NEW a \in accepted PROVE NotBehind(r, a)
      <4>1. stored # Absent /\ NotBehind(stored, a)
        BY <1>1 DEF AcceptedIsKept
      <4>2. NotBehind(r, stored)
        BY <4>1, <2>1, <2>2, CodeReplaces
      <4> QED
        BY <4>1, <4>2, <2>1, NotBehindTransitive
    <3>4. \A a \in accepted' : NotBehind(r, a)
      BY <3>1, <3>3, <2>1, NotBehindItself
    <3>5. \A a \in accepted' : NotBehind(stored', a)
      BY <3>1, <3>4
    <3> QED
      BY <3>1, <3>2, <3>5 DEF AcceptedIsKept, NotBehind
  <2>3. ASSUME Code(stored, r) # 1 PROVE AcceptedIsKept'
    <3>1. stored' = stored
      BY <1>2, <2>3 DEF Write
    <3>2. CASE ~heard
      BY <3>1, <3>2, <1>1, <1>2 DEF Write, AcceptedIsKept, NotBehind
    <3>3. CASE heard
      <4>1. Code(stored, r) = 2
        BY <1>2, <3>3, <2>3 DEF Write
      <4>2. stored = r /\ r # Absent
        BY <4>1, <2>1, CodeDuplicate, AbsentIsNoReport
      <4>3. accepted' = accepted \cup {r}
        BY <1>2, <3>3 DEF Write
      <4>4. \A a \in accepted' : NotBehind(stored, a)
        BY <4>2, <4>3, <1>1, <2>1, NotBehindItself DEF AcceptedIsKept
      <4> QED
        BY <3>1, <4>2, <4>4 DEF AcceptedIsKept, NotBehind
    <3> QED
      BY <3>2, <3>3
  <2> QED
    BY <2>2, <2>3
<1>3. CASE UNCHANGED <<stored, accepted>>
  BY <1>1, <1>3 DEF AcceptedIsKept, NotBehind
<1> QED
  BY <1>2, <1>3 DEF Next, Reporting, vars, Tick, Append, GoBad, Restore,
     Publish, Lose, Receive, ReadStored, Answer

\* InTime survives the steps that change the clock or a worker's condition.
LEMMA InTimeLater ==
  ASSUME TypeOK, ClockBounds, Tick \/ (\E i \in Idents : GoBad(i)),
         NEW r \in Report, InTime(r)
  PROVE  InTime(r)'
<1> USE RelayAssumption
<1>1. now \in Nat /\ r.observed \in Int /\ r.ident \in Idents
  BY DEF TypeOK, Report
<1>2. CASE Tick
  BY <1>1, <1>2 DEF Tick, InTime
<1>3. ASSUME NEW i \in Idents, GoBad(i) PROVE InTime(r)'
  <2>1. now' = now /\ badSince[i] = Never /\ badSince' = [badSince EXCEPT ![i] = now]
    BY <1>3 DEF GoBad
  <2>2. now # Never
    BY <1>1 DEF Never
  <2>3. CASE r.ident = i
    <3>1. badSince'[r.ident] = now /\ badSince[r.ident] = Never
      BY <2>1, <2>3, <1>1 DEF TypeOK
    <3> QED
      BY <3>1, <2>1, <2>2 DEF InTime
  <2>4. CASE r.ident # i
    <3>1. badSince'[r.ident] = badSince[r.ident]
      BY <2>1, <2>4, <1>1 DEF TypeOK
    <3> QED
      BY <3>1, <2>1 DEF InTime
  <2> QED
    BY <2>3, <2>4
<1> QED
  BY <1>2, <1>3

LEMMA InTimeStep == IInv /\ [Next]_vars => ReportsInTime'
<1> SUFFICES ASSUME IInv, [Next]_vars PROVE ReportsInTime'
  OBVIOUS
<1> USE RelayAssumption
<1>1. TypeOK /\ ReportsInTime /\ ClockBounds
  BY DEF IInv
<1>2. /\ posts \subseteq Report /\ checked \subseteq Report
      /\ stored \in Report \cup {Absent} /\ reading \in Report \cup {Absent}
  BY <1>1 DEF TypeOK
<1>3. CASE Tick \/ (\E i \in Idents : GoBad(i))
  <2>1. UNCHANGED <<posts, checked, stored, reading>>
    BY <1>3 DEF Tick, GoBad
  <2>2. \A r \in Report : InTime(r) => InTime(r)'
    BY <1>1, <1>3, InTimeLater
  <2>3. (\A r \in posts' : InTime(r)') /\ (\A r \in checked' : InTime(r)')
    BY <1>1, <1>2, <2>1, <2>2 DEF ReportsInTime
  <2>4. stored # Absent => InTime(stored)'
    BY <1>1, <1>2, <2>1, <2>2 DEF ReportsInTime, InTime
  <2>5. reading # Absent => InTime(reading)'
    BY <1>1, <1>2, <2>1, <2>2 DEF ReportsInTime, InTime
  <2> QED
    BY <2>1, <2>3, <2>4, <2>5 DEF ReportsInTime
<1>4. ASSUME NEW i \in Idents, NEW s \in Skews, Publish(i, s) PROVE ReportsInTime'
  <2> DEFINE r == [ident |-> i, observed |-> now + s, counts |-> ledger[i],
                   good |-> badSince[i] = Never,
                   audited |-> IF badSince[i] = Never THEN now + s ELSE audited[i]]
  <2>1. posts' = posts \cup {r} /\ UNCHANGED <<now, badSince, checked, stored, reading>>
    BY <1>4 DEF Publish
  <2>2. now + s <= now + MaxSkew
    BY <1>1 DEF TypeOK
  <2>3. InTime(r)
    BY <2>2 DEF InTime
  <2> HIDE DEF r
  <2> QED
    BY <1>1, <2>1, <2>3 DEF ReportsInTime, InTime
<1>5. ASSUME NEW r \in posts, Lose(r) PROVE ReportsInTime'
  BY <1>1, <1>5 DEF ReportsInTime, InTime, Lose
<1>6. ASSUME NEW r \in posts, NEW again \in BOOLEAN, Receive(r, again)
      PROVE ReportsInTime'
  BY <1>1, <1>6 DEF ReportsInTime, InTime, Receive
<1>7. ASSUME NEW r \in checked, NEW heard \in BOOLEAN, Write(r, heard)
      PROVE ReportsInTime'
  BY <1>1, <1>7 DEF ReportsInTime, InTime, Write
<1>8. CASE ReadStored
  BY <1>1, <1>8 DEF ReportsInTime, InTime, ReadStored
<1>9. CASE Answer \/ (\E i \in Idents : \E c \in Counters : Append(i, c))
           \/ (\E i \in Idents : Restore(i)) \/ UNCHANGED vars
  <2>1. UNCHANGED <<now, badSince, posts, checked, stored, reading>>
    BY <1>9 DEF Answer, Append, Restore, vars
  <2> QED
    BY <1>1, <2>1 DEF ReportsInTime, InTime
<1> QED
  BY <1>3, <1>4, <1>5, <1>6, <1>7, <1>8, <1>9 DEF Next, Reporting

LEMMA HealthStep == IInv /\ [Next]_vars => ClockBounds' /\ HealthIsRecent'
<1> SUFFICES ASSUME IInv, [Next]_vars PROVE ClockBounds' /\ HealthIsRecent'
  OBVIOUS
<1> USE RelayAssumption
<1>1. TypeOK /\ ReportsInTime /\ ClockBounds /\ HealthIsRecent
  BY DEF IInv
<1>2. /\ now \in Nat /\ health.at \in Nat
      /\ badSince \in [Idents -> Nat \cup {Never}]
      /\ reading \in Report \cup {Absent}
  BY <1>1 DEF TypeOK
<1>3. CASE Tick
  BY <1>1, <1>2, <1>3 DEF Tick, ClockBounds, HealthIsRecent, Never
<1>4. ASSUME NEW i \in Idents, GoBad(i) PROVE ClockBounds' /\ HealthIsRecent'
  <2>1. /\ badSince' = [badSince EXCEPT ![i] = now]
        /\ UNCHANGED <<now, health>>
    BY <1>4 DEF GoBad
  <2>2. \A j \in Idents : badSince'[j] = IF j = i THEN now ELSE badSince[j]
    BY <2>1, <1>2
  <2>3. ClockBounds'
    BY <1>1, <1>2, <2>1, <2>2 DEF ClockBounds
  <2>4. HealthIsRecent'
    <3> SUFFICES ASSUME health.ok PROVE HealthIsRecent'
      BY <2>1 DEF HealthIsRecent
    <3>1. health.of.ident \in Idents
      BY <1>1 DEF ClockBounds, Report
    <3>2. CASE health.of.ident = i
      <4>1. badSince'[health.of.ident] = now
        BY <3>1, <3>2, <2>2
      <4>2. health.at - now <= FreshFor + MaxSkew
        BY <1>1, <1>2 DEF ClockBounds
      <4> QED
        BY <4>1, <4>2, <2>1 DEF HealthIsRecent
    <3>3. CASE health.of.ident # i
      BY <3>1, <3>3, <2>1, <2>2, <1>1 DEF HealthIsRecent
    <3> QED
      BY <3>2, <3>3
  <2> QED
    BY <2>3, <2>4
<1>5. CASE Answer
  <2>1. /\ health' = IF Ok(reading) THEN [ok |-> TRUE, at |-> now, of |-> reading]
                                    ELSE Refused
        /\ UNCHANGED <<now, badSince>>
    BY <1>5 DEF Answer
  <2>2. ASSUME Ok(reading) PROVE ClockBounds' /\ HealthIsRecent'
    <3>1. reading \in Report /\ reading.good /\ reading # Absent
      BY <2>2, <1>2 DEF Ok
    <3>2. now - reading.observed <= FreshFor
      BY <2>2, <3>1, <1>2 DEF Ok, isStale, Report
    <3>3. /\ reading.observed \in Int /\ reading.ident \in Idents
      BY <3>1 DEF Report
    <3>4. InTime(reading)
      BY <1>1, <3>1 DEF ReportsInTime
    <3>5. badSince[reading.ident] = Never
            \/ now - badSince[reading.ident] <= FreshFor + MaxSkew
      BY <1>2, <3>1, <3>2, <3>3, <3>4 DEF InTime
    <3>6. health' = [ok |-> TRUE, at |-> now, of |-> reading]
      BY <2>1, <2>2
    <3>7. HealthIsRecent'
      BY <2>1, <3>5, <3>6 DEF HealthIsRecent
    <3>8. ClockBounds'
      BY <1>1, <1>2, <2>1, <3>1, <3>6 DEF ClockBounds
    <3> QED
      BY <3>7, <3>8
  <2>3. ASSUME ~Ok(reading) PROVE ClockBounds' /\ HealthIsRecent'
    <3>1. health'.ok = FALSE /\ health'.at = 0
      BY <2>1, <2>3 DEF Refused
    <3> QED
      BY <1>1, <1>2, <2>1, <3>1 DEF ClockBounds, HealthIsRecent
  <2> QED
    BY <2>2, <2>3
<1>6. CASE UNCHANGED <<now, badSince, health>>
  BY <1>1, <1>6 DEF ClockBounds, HealthIsRecent
<1> QED
  BY <1>3, <1>4, <1>5, <1>6 DEF Next, Reporting, vars, Append, Restore,
     Publish, Lose, Receive, Write, ReadStored

LEMMA Inductive == IInv /\ [Next]_vars => IInv'
  BY TypeStep, KeptStep, InTimeStep, HealthStep DEF IInv

\* Types, for every value of the constants.
THEOREM TypeCorrect == Spec => []TypeOK
<1>1. IInv => TypeOK
  BY DEF IInv
<1> QED
  BY <1>1, Initially, Inductive, PTL DEF Spec

\* No accepted report is ever replaced by an older one or one with less in its
\* ledgers, whatever is delayed, repeated, reordered or lost.
THEOREM Kept == Spec => []AcceptedIsKept
<1>1. IInv => AcceptedIsKept
  BY DEF IInv
<1> QED
  BY <1>1, Initially, Inductive, PTL DEF Spec

\* The health endpoint vouches for no worker that went bad long ago.
THEOREM HealthRecent == Spec => []HealthIsRecent
<1>1. IInv => HealthIsRecent
  BY DEF IInv
<1> QED
  BY <1>1, Initially, Inductive, PTL DEF Spec

\* Every change of the stored report is to a strictly newer one.
THEOREM StrictlyNewer == Spec => OneReportPerInstant
<1>1. TypeOK /\ [Next]_vars =>
        [stored' # stored => stored = Absent \/ stored'.observed > stored.observed]_vars
  <2> SUFFICES ASSUME TypeOK, [Next]_vars, stored' # stored
               PROVE  stored = Absent \/ stored'.observed > stored.observed
    OBVIOUS
  <2>1. PICK r \in checked : \E heard \in BOOLEAN : Write(r, heard)
    BY DEF Next, Reporting, vars, Tick, Append, GoBad, Restore, Publish, Lose,
       Receive, ReadStored, Answer
  <2>2. r \in Report /\ stored \in Report \cup {Absent}
    BY DEF TypeOK
  <2>3. Code(stored, r) = 1 /\ stored' = r
    BY <2>1 DEF Write
  <2> QED
    BY <2>2, <2>3, CodeReplaces
<1> QED
  BY <1>1, TypeCorrect, PTL DEF Spec, OneReportPerInstant
=============================================================================
