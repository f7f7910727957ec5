----------------------------- MODULE ApiProofs ------------------------------
(***************************************************************************)
(* What can be relied on from outside: the rules of the health panel, for  *)
(* any tiers, durations and thresholds, and the token of the client of the *)
(* API, for any number of callers and of tokens.  The two share nothing.   *)
(***************************************************************************)
EXTENDS Health, TokenClient, TLAPS, FiniteSetTheorems, WellFoundedInduction, SequenceTheorems
-----------------------------------------------------------------------------
(* The health rules.                                                       *)

\* What is known of the constants.
LEMMA Durations ==
    /\ Stale \in Nat /\ Stale > 0
    /\ Window \in Nat /\ Window > 0 /\ Stale <= Window
    /\ Streak \in Nat /\ Streak > 0
    /\ Calm \in Nat /\ Calm = Stale + 1 /\ TooLong \in Nat /\ TooLong = Window + 1
    /\ \A t \in Tiers : Interval[t] \in Nat /\ Interval[t] > 0
BY HealthAssumption DEF Calm, TooLong

\* A set of numbers has a least one.
LEMMA Least ==
    ASSUME NEW S \in SUBSET Nat, S # {}
    PROVE  \E m \in S : \A k \in S : m <= k
<1> DEFINE T == {0..m : m \in S}
<1>1. \A m \in S : 0..m \in FiniteSubsetsOf(Nat)
  BY FS_Interval DEF FiniteSubsetsOf
<1>2. T \subseteq FiniteSubsetsOf(Nat) /\ T # {}
  BY <1>1
<1>3. IsWellFoundedOn(StrictSubsetOrdering(Nat), FiniteSubsetsOf(Nat))
  BY FS_StrictSubsetOrderingWellFounded
<1>4. PICK I \in T : \A J \in T : <<J, I>> \notin StrictSubsetOrdering(Nat)
  <2> HIDE DEF T
  <2> QED BY <1>2, <1>3, WFMin
<1>5. PICK m \in S : I = 0..m
  OBVIOUS
<1>6. ASSUME NEW k \in S, k < m PROVE FALSE
  <2>1. 0..k \in T /\ 0..k \subseteq 0..m /\ 0..k # 0..m
    BY <1>6
  <2>2. <<0..k, 0..m>> \in StrictSubsetOrdering(Nat)
    BY <2>1 DEF StrictSubsetOrdering
  <2> QED BY <1>4, <1>5, <2>1, <2>2
<1> QED BY <1>6

\* A set of the first places of a list reaches as far as it has members.
LEMMA FirstPlaces ==
    ASSUME NEW n \in Nat, NEW A \in SUBSET (1..n), \A i \in A : \A j \in 1..i : j \in A
    PROVE  Cardinality(A) \in 0..n /\ A = 1..Cardinality(A)
<1> DEFINE B == {i \in 1..(n + 1) : i \notin A}
<1>1. n + 1 \in B /\ B \subseteq Nat
  OBVIOUS
<1>2. PICK m \in B : \A k \in B : m <= k
  <2> HIDE DEF B
  <2> QED BY <1>1, Least
<1>3. A = 1..(m - 1)
  <2>1. ASSUME NEW i \in 1..(m - 1) PROVE i \in A
    BY <1>2, <2>1
  <2>2. ASSUME NEW i \in A, i >= m PROVE FALSE
    <3>1. m \in 1..i
      BY <2>2
    <3> QED BY <2>2, <3>1
  <2>3. \A i \in A : i \in 1..(m - 1)
    BY <2>2
  <2> QED BY <2>1, <2>3
<1>4. Cardinality(1..(m - 1)) = m - 1
  <2>1. m - 1 \in Int /\ m - 1 >= 0
    OBVIOUS
  <2>2. Cardinality(1..(m - 1)) = IF 1 > m - 1 THEN 0 ELSE (m - 1) - 1 + 1
    BY <2>1, FS_Interval
  <2> QED BY <2>1, <2>2
<1> QED BY <1>3, <1>4

\* What a run that starts makes of the log.
LEMMA Prepended ==
    ASSUME NEW s \in Seq(Entry), NEW e \in Entry
    PROVE  /\ <<e>> \o s \in Seq(Entry)
           /\ Len(<<e>> \o s) = Len(s) + 1 /\ Len(s) \in Nat
           /\ (<<e>> \o s)[1] = e
           /\ \A i \in 1..Len(s) : (<<e>> \o s)[i + 1] = s[i] /\ s[i] \in Entry
<1> HIDE DEF Entry
<1>1. <<e>> \in Seq(Entry) /\ Len(<<e>>) = 1 /\ <<e>>[1] = e
  OBVIOUS
<1> DEFINE h == <<e>>
<1> HIDE DEF h
<1>2. h \in Seq(Entry) /\ Len(h) = 1 /\ h[1] = e
  BY <1>1 DEF h
<1>3. /\ h \o s \in Seq(Entry) /\ Len(h \o s) = Len(h) + Len(s)
      /\ \A i \in 1..(Len(h) + Len(s)) :
            (h \o s)[i] = IF i <= Len(h) THEN h[i] ELSE s[i - Len(h)]
  BY <1>2, ConcatProperties
<1>4. Len(s) \in Nat /\ \A i \in 1..Len(s) : s[i] \in Entry
  OBVIOUS
<1>5. (h \o s)[1] = e
  BY <1>2, <1>3, <1>4
<1>6. \A i \in 1..Len(s) : (h \o s)[i + 1] = s[i]
  BY <1>2, <1>3, <1>4
<1> QED BY <1>2, <1>3, <1>4, <1>5, <1>6 DEF h

\* What the steps do to the log.  A run starts,
Starts(t) ==
    /\ Len(log') = Len(log) + 1
    /\ log'[1] = [tier |-> t, age |-> 0, answered |-> FALSE, status |-> "running"]
    /\ \A i \in 1..Len(log) : log'[i + 1] = log[i]

\* or something happens to runs that were under way, and then to others,
Changes ==
    /\ Len(log') = Len(log)
    /\ \A i \in 1..Len(log) :
          /\ log'[i].tier = log[i].tier /\ log'[i].age = log[i].age
          /\ log'[i].status # log[i].status =>
                log[i].status = "running" /\ log'[i].status # "running"
          /\ log[i].answered => log'[i].answered

\* or all get older, and some leave the window.
Passes ==
    /\ Len(log') <= Len(log)
    /\ \A i \in 1..Len(log) : log[i].age + 1 <= Window <=> i <= Len(log')
    /\ \A i \in 1..Len(log') : log'[i] = [log[i] EXCEPT !.age = @ + 1]

\* A log has entries.
LEMMA LogIs ==
    ASSUME HealthTypeOK
    PROVE  /\ Len(log) \in Nat /\ DOMAIN log = 1..Len(log)
           /\ \A i \in 1..Len(log) :
                 /\ log[i] \in Entry /\ log[i].tier \in Tiers /\ log[i].age \in 0..Window
                 /\ log[i].status \in Statuses \cup Unrecorded /\ log[i].answered \in BOOLEAN
<1>1. log \in Seq(Entry)
  BY DEF HealthTypeOK
<1>2. Len(log) \in Nat /\ DOMAIN log = 1..Len(log) /\ \A i \in 1..Len(log) : log[i] \in Entry
  <2> HIDE DEF Entry
  <2> QED BY <1>1
<1>3. \A e \in Entry : /\ e.tier \in Tiers /\ e.age \in 0..Window
                        /\ e.status \in Statuses \cup Unrecorded /\ e.answered \in BOOLEAN
  BY DEF Entry
<1> QED BY <1>2, <1>3

LEMMA StartIs ==
    ASSUME HealthTypeOK, NEW t \in Tiers, 
           log' = <<[tier |-> t, age |-> 0, answered |-> FALSE, status |-> "running"]>> \o log
    PROVE  log' \in Seq(Entry) /\ Starts(t)
<1> DEFINE e == [tier |-> t, age |-> 0, answered |-> FALSE, status |-> "running"]
<1>1. e \in Entry
  BY Durations DEF Entry, Unrecorded
<1>2. log \in Seq(Entry)
  BY DEF HealthTypeOK
<1> HIDE DEF e
<1>3. /\ <<e>> \o log \in Seq(Entry)
      /\ Len(<<e>> \o log) = Len(log) + 1
      /\ (<<e>> \o log)[1] = e
      /\ \A i \in 1..Len(log) : (<<e>> \o log)[i + 1] = log[i]
  BY <1>1, <1>2, Prepended
<1>4. log' = <<e>> \o log
  BY DEF e
<1>5. log' \in Seq(Entry) /\ Len(log') = Len(log) + 1 /\ log'[1] = e
      /\ \A i \in 1..Len(log) : log'[i + 1] = log[i]
  BY <1>3, <1>4
<1> QED BY <1>5 DEF Starts, e

LEMMA RecordingIs ==
    ASSUME HealthTypeOK, NEW i \in DOMAIN log, NEW s \in Outcomes,
           log[i].status = "running", log' = Recording(i, s)
    PROVE  log' \in Seq(Entry) /\ Changes
<1>1. s \in Statuses
  BY HealthAssumption DEF Statuses, Informative, Neutral
<1>2. DOMAIN log' = 1..Len(log) /\ Len(log) \in Nat
  BY LogIs DEF Recording
<1>3. ASSUME NEW j \in 1..Len(log)
      PROVE  /\ log'[j] \in Entry
             /\ log'[j].tier = log[j].tier /\ log'[j].age = log[j].age
             /\ log'[j].status # log[j].status =>
                   log[j].status = "running" /\ log'[j].status # "running"
             /\ log[j].answered => log'[j].answered
  <2>1. log[j] \in Entry
    BY LogIs
  <2>2. CASE j = i
    <3>1. log'[j] = [log[j] EXCEPT !.status = s]
      BY <2>2, LogIs DEF Recording
    <3> QED BY <1>1, <2>1, <2>2, <3>1 DEF Entry, Statuses, Informative, Neutral
  <2>3. CASE j # i
    <3>1. log'[j] = [log[j] EXCEPT !.answered =
                        @ \/ (s \in Informative /\ log[j].status \in Informative \ {s})]
      BY <2>3, LogIs DEF Recording
    <3> QED BY <2>1, <3>1 DEF Entry
  <2> QED BY <2>2, <2>3
<1>4. log' = [j \in 1..Len(log) |-> log'[j]]
  BY LogIs DEF Recording
<1>5. log' \in Seq(Entry) /\ Len(log') = Len(log)
  BY <1>2, <1>3, <1>4
<1> QED BY <1>3, <1>5 DEF Changes

LEMMA LossIs ==
    ASSUME HealthTypeOK, NEW i \in DOMAIN log,
           log[i].status = "running", log' = [log EXCEPT ![i].status = "lost"]
    PROVE  log' \in Seq(Entry) /\ Changes
<1>1. log' \in Seq(Entry) /\ Len(log') = Len(log)
  <2> DEFINE e == [log[i] EXCEPT !.status = "lost"]
  <2>1. e \in Entry
    BY LogIs DEF Entry, Unrecorded
  <2>2. log \in Seq(Entry) /\ log' = [log EXCEPT ![i] = e]
    BY DEF HealthTypeOK
  <2> HIDE DEF e
  <2> QED BY <2>1, <2>2
<1>2. ASSUME NEW j \in 1..Len(log)
      PROVE  /\ log'[j].tier = log[j].tier /\ log'[j].age = log[j].age
             /\ log'[j].status # log[j].status =>
                   log[j].status = "running" /\ log'[j].status # "running"
             /\ log[j].answered => log'[j].answered
  BY LogIs DEF Entry
<1> QED BY <1>1, <1>2 DEF Changes

LEMMA RestartIs ==
    ASSUME HealthTypeOK, NEW saved \in SUBSET Tiers,
           log' = [i \in DOMAIN log |->
                      IF log[i].status # "running" THEN log[i]
                      ELSE [log[i] EXCEPT !.status =
                                IF log[i].tier \in saved THEN "interrupted" ELSE "lost"]]
    PROVE  log' \in Seq(Entry) /\ Changes /\ \A i \in 1..Len(log) : log'[i].status # "running"
<1>1. DOMAIN log' = 1..Len(log) /\ Len(log) \in Nat
  BY LogIs
<1>2. ASSUME NEW j \in 1..Len(log)
      PROVE  /\ log'[j] \in Entry
             /\ log'[j].tier = log[j].tier /\ log'[j].age = log[j].age
             /\ log'[j].status # "running"
             /\ log'[j].status # log[j].status => log[j].status = "running"
             /\ log[j].answered => log'[j].answered
  <2>1. log[j] \in Entry
    BY LogIs
  <2>2. CASE log[j].status # "running"
    <3>1. log'[j] = log[j]
      BY <2>2, LogIs
    <3> QED BY <2>1, <2>2, <3>1 DEF Entry
  <2>3. CASE log[j].status = "running"
    <3>1. PICK s \in {"interrupted", "lost"} : log'[j] = [log[j] EXCEPT !.status = s]
      BY <2>3, LogIs
    <3> QED BY <2>1, <2>3, <3>1 DEF Entry, Statuses, Neutral, Unrecorded
  <2> QED BY <2>2, <2>3
<1>3. log' = [j \in 1..Len(log) |-> log'[j]]
  BY LogIs
<1>4. log' \in Seq(Entry) /\ Len(log') = Len(log)
  BY <1>1, <1>2, <1>3
<1> QED BY <1>2, <1>4 DEF Changes

LEMMA TickIs ==
    ASSUME HealthTypeOK, Tick
    PROVE  log' \in Seq(Entry) /\ Passes
<1>0. \A i \in 1..Len(log) : log[i] \in Entry /\ log[i].age \in Nat
  BY LogIs
<1> DEFINE n == Len(log)
           s == [i \in DOMAIN log |-> Older(log[i])]
           A == {i \in DOMAIN s : s[i].age <= Window}
           m == Cardinality(A)
<1>1. n \in Nat /\ DOMAIN s = 1..n /\ s \in Seq({Older(log[i]) : i \in 1..n}) /\ Len(s) = n
  BY LogIs
<1>2. \A i \in 1..n : /\ s[i] = [log[i] EXCEPT !.age = @ + 1] /\ s[i].age = log[i].age + 1
                      /\ log[i].age \in Nat
  BY LogIs DEF Older, Entry
<1>3. \A i, j \in 1..n : i < j => log[i].age <= log[j].age
  BY LogIs DEF HealthTypeOK
<1>4. A \in SUBSET (1..n) /\ \A i \in 1..n : i \in A <=> log[i].age + 1 <= Window
  BY <1>1, <1>2
<1> HIDE DEF s
<1>5. \A i \in A : \A j \in 1..i : j \in A
  <2> SUFFICES ASSUME NEW i \in A, NEW j \in 1..i PROVE j \in A
    OBVIOUS
  <2>1. i \in 1..n /\ j \in 1..n /\ j <= i /\ log[i].age + 1 <= Window
    BY <1>1, <1>4
  <2>2. log[j].age <= log[i].age
    <3>1. CASE j = i
      BY <1>0, <2>1, <3>1
    <3>2. CASE j < i
      BY <1>3, <2>1, <3>2
    <3> QED BY <2>1, <3>1, <3>2
  <2>3. log[j].age + 1 <= Window
    BY <1>0, <2>1, <2>2, Durations
  <2> QED BY <1>4, <2>1, <2>3
<1>6. m \in 0..n /\ A = 1..m
  <2> HIDE DEF A
  <2> QED BY <1>1, <1>4, <1>5, FirstPlaces
<1>61. m = Cardinality({i \in DOMAIN s : s[i].age <= Window})
  OBVIOUS
<1>7. log' = SubSeq(s, 1, m)
  BY <1>61 DEF Tick, InWindow, s
<1> HIDE DEF m, A
<1>8. Len(log') = m /\ DOMAIN log' = 1..m /\ \A i \in 1..m : log'[i] = s[i]
  BY <1>1, <1>6, <1>7
<1>9. \A i \in 1..n : log[i].age + 1 <= Window <=> i <= m
  <2> SUFFICES ASSUME NEW i \in 1..n PROVE i \in A <=> i <= m
    BY <1>4
  <2> QED BY <1>1, <1>6
<1>10. \A i \in 1..m : log'[i] = [log[i] EXCEPT !.age = @ + 1] /\ log'[i] \in Entry
  <2> SUFFICES ASSUME NEW i \in 1..m
               PROVE  log'[i] = [log[i] EXCEPT !.age = @ + 1] /\ log'[i] \in Entry
    OBVIOUS
  <2>1. i \in 1..n
    BY <1>1, <1>6
  <2>2. log'[i] = [log[i] EXCEPT !.age = @ + 1]
    BY <1>2, <1>8, <2>1
  <2>3. log[i].age + 1 <= Window /\ log[i] \in Entry /\ i <= m
    BY <1>0, <1>9, <2>1
  <2> QED BY <2>2, <2>3, Durations DEF Entry
<1>11. log' \in Seq(Entry)
  <2>1. log' = [i \in 1..m |-> log'[i]]
    BY <1>1, <1>6, <1>7, <1>8
  <2> QED BY <1>6, <1>10, <2>1
<1> QED BY <1>6, <1>8, <1>9, <1>10, <1>11 DEF Passes

\* Which steps there are, by what they do to the log, and to the clocks.
Started ==
    \E t \in Tiers :
        /\ Starts(t) /\ ~Running(t) /\ UNCHANGED <<outlasting, took>>
        /\ timer[t] = 0 /\ timer' = [timer EXCEPT ![t] = Interval[t]] /\ trouble' = trouble

Finished ==
    \E t \in Tiers, i \in DOMAIN log, s \in Outcomes :
        /\ IsRun(i, t) /\ log' = Recording(i, s)
        /\ took' = [took EXCEPT ![t] = log[i].age]
        /\ timer' = timer /\ trouble' = trouble /\ outlasting' = outlasting

FinishedLate ==
    \E t \in outlasting :
        /\ outlasting' = outlasting \ {t} /\ took' = [took EXCEPT ![t] = TooLong]
        /\ timer' = timer /\ trouble' = trouble /\ log' = log

Missed ==
    /\ \A i \in 1..Len(log) : log'[i].status \in Informative => log[i].status = log'[i].status
    /\ trouble' = 0
    /\ \/ timer' = timer
       \/ timer' = Interval
       \/ \E t \in Tiers : timer' = [timer EXCEPT ![t] = Interval[t]]
    /\ outlasting' \subseteq outlasting
    /\ took' \in [Tiers -> 0..TooLong]

Overlapped ==
    \E t \in Tiers :
        /\ UNCHANGED <<log, outlasting, took>> /\ trouble' = trouble /\ Running(t)
        /\ timer[t] = 0 /\ timer' = [timer EXCEPT ![t] = Interval[t]]

LEMMA Steps ==
    ASSUME HealthTypeOK, [HealthNext]_healthVars
    PROVE  /\ log' \in Seq(Entry)
           /\ \/ Started
              \/ Changes /\ (Finished \/ Missed)
              \/ FinishedLate
              \/ Overlapped
              \/ Tick /\ Passes
              \/ UNCHANGED healthVars
<1>0. log \in Seq(Entry)
  BY DEF HealthTypeOK
<1>01. took \in [Tiers -> 0..TooLong] /\ TooLong \in Nat
  BY Durations DEF HealthTypeOK
<1>02. ASSUME NEW t \in Tiers, NEW k \in 0..TooLong, took' = [took EXCEPT ![t] = k]
       PROVE  took' \in [Tiers -> 0..TooLong]
  BY <1>01, <1>02
<1>1. (log' = log) => Changes
  BY LogIs DEF Changes
<1>2. ASSUME NEW t \in Tiers, Fire(t) PROVE log' \in Seq(Entry) /\ (Started \/ (Changes /\ Missed) \/ Overlapped)
  <2>1. CASE ~Running(t) /\ UNCHANGED trouble
             /\ log' = <<[tier |-> t, age |-> 0, answered |-> FALSE, status |-> "running"]>> \o log
    <3>1. log' \in Seq(Entry) /\ Starts(t)
      BY <2>1, StartIs
    <3>2. timer[t] = 0 /\ timer' = [timer EXCEPT ![t] = Interval[t]]
      BY <1>2 DEF Fire
    <3>3. ~Running(t) /\ trouble' = trouble /\ UNCHANGED <<outlasting, took>>
      BY <1>2, <2>1 DEF Fire
    <3>4. Started
      BY <3>1, <3>2, <3>3 DEF Started
    <3> QED BY <3>1, <3>4
  <2>2. CASE Running(t) /\ UNCHANGED <<log, trouble>>
    BY <1>0, <1>2, <2>2 DEF Fire, Overlapped
  <2>3. CASE trouble' = 0 /\ UNCHANGED log
    <3>1. Changes /\ log' \in Seq(Entry)
      BY <1>0, <1>1, <2>3
    <3>2. outlasting' \subseteq outlasting /\ took' \in [Tiers -> 0..TooLong]
      BY <1>01, <1>2 DEF Fire
    <3> QED BY <1>2, <2>3, <3>1, <3>2 DEF Fire, Missed
  <2> QED BY <1>2, <2>1, <2>2, <2>3 DEF Fire
<1>3. ASSUME NEW t \in Tiers, RunEnds(t)
      PROVE  log' \in Seq(Entry) /\ ((Changes /\ Finished) \/ FinishedLate)
  <2>1. CASE EndsLate(t)
    BY <1>0, <1>3, <2>1 DEF RunEnds, EndsLate, FinishedLate
  <2>2. ASSUME NEW i \in DOMAIN log, NEW s \in Outcomes, Ends(t, i), log' = Recording(i, s)
        PROVE  log' \in Seq(Entry) /\ Changes /\ Finished
    <3>1. log[i].status = "running"
      BY <2>2 DEF Ends, IsRun
    <3>2. log' \in Seq(Entry) /\ Changes
      BY <2>2, <3>1, RecordingIs
    <3>3. /\ IsRun(i, t) /\ took' = [took EXCEPT ![t] = log[i].age]
          /\ timer' = timer /\ trouble' = trouble /\ outlasting' = outlasting
      BY <1>3, <2>2 DEF RunEnds, Ends
    <3>4. Finished
      BY <2>2, <3>3 DEF Finished
    <3> QED BY <3>2, <3>4
  <2> QED BY <1>3, <2>1, <2>2 DEF RunEnds
<1>4. ASSUME NEW t \in Tiers, RowLost(t) PROVE log' \in Seq(Entry) /\ Changes /\ Missed
  <2>1. trouble' = 0 /\ timer' = timer
    BY <1>4 DEF RowLost
  <2>2. CASE EndsLate(t)
    <3>1. log' = log /\ outlasting' \subseteq outlasting
      BY <2>2 DEF EndsLate
    <3>2. took' \in [Tiers -> 0..TooLong]
      BY <1>01, <1>02, <2>2 DEF EndsLate
    <3> QED BY <1>0, <1>1, <2>1, <3>1, <3>2 DEF Missed
  <2>3. ASSUME NEW i \in DOMAIN log, Ends(t, i), log' = [log EXCEPT ![i].status = "lost"]
        PROVE  log' \in Seq(Entry) /\ Changes /\ Missed
    <3>1. log[i].status = "running" /\ outlasting' = outlasting
      BY <2>3 DEF Ends, IsRun
    <3>2. log' \in Seq(Entry) /\ Changes
      BY <2>3, <3>1, LossIs
    <3>3. ASSUME NEW k \in 1..Len(log), log'[k].status \in Informative
          PROVE  log[k].status = log'[k].status
      <4>1. k \in DOMAIN log /\ log[k] \in Entry
        BY LogIs
      <4>2. CASE k = i
        BY <2>3, <3>3, <4>1, <4>2 DEF Informative, Entry
      <4>3. CASE k # i
        BY <2>3, <4>1, <4>3
      <4> QED BY <4>2, <4>3
    <3>4. took' \in [Tiers -> 0..TooLong]
      <4>1. log[i].age \in 0..TooLong
        <5>1. log[i].age \in 0..Window
          BY LogIs
        <5> QED BY <5>1, Durations
      <4> QED BY <1>02, <2>3, <4>1 DEF Ends
    <3> QED BY <2>1, <3>1, <3>2, <3>3, <3>4 DEF Missed
  <2> QED BY <1>4, <2>2, <2>3 DEF RowLost
<1>5. CASE Restart
  <2>1. PICK saved \in SUBSET Tiers :
           log' = [i \in DOMAIN log |->
                      IF log[i].status # "running" THEN log[i]
                      ELSE [log[i] EXCEPT !.status =
                                IF log[i].tier \in saved THEN "interrupted" ELSE "lost"]]
    BY <1>5 DEF Restart
  <2>2. log' \in Seq(Entry) /\ Changes /\ \A i \in 1..Len(log) : log'[i].status # "running"
    BY <2>1, RestartIs
  <2>3. ASSUME NEW k \in 1..Len(log), log'[k].status \in Informative
        PROVE  log[k].status = log'[k].status
    <3>1. k \in DOMAIN log /\ log[k] \in Entry
      BY LogIs
    <3>2. CASE log[k].status = "running"
      BY <2>1, <2>3, <3>1, <3>2 DEF Informative, Entry
    <3>3. CASE log[k].status # "running"
      BY <2>1, <3>1, <3>3
    <3> QED BY <3>2, <3>3
  <2>4. timer' = Interval /\ trouble' = 0 /\ outlasting' = {}
    BY <1>5 DEF Restart
  <2>5. took' \in [Tiers -> 0..TooLong]
    <3>1. took' = [t \in Tiers |-> 0]
      BY <1>5 DEF Restart
    <3> QED BY <1>01, <3>1
  <2> QED BY <2>2, <2>3, <2>4, <2>5 DEF Missed
<1>6. CASE Tick
  BY <1>6, TickIs
<1>7. CASE UNCHANGED healthVars
  BY <1>0, <1>7 DEF healthVars
<1> QED BY <1>2, <1>3, <1>4, <1>5, <1>6, <1>7 DEF HealthNext

\* The log stays in the order of the starts.
LEMMA OrderStays ==
    ASSUME HealthTypeOK, log' \in Seq(Entry), Started \/ Changes \/ Passes
    PROVE  \A i, j \in 1..Len(log') : i < j => log'[i].age <= log'[j].age
<1>1. \A i, j \in 1..Len(log) : i < j => log[i].age <= log[j].age
  BY LogIs DEF HealthTypeOK
<1>2. Len(log) \in Nat /\ \A i \in 1..Len(log) : log[i].age \in Nat /\ log[i] \in Entry
  BY LogIs
<1> SUFFICES ASSUME NEW i \in 1..Len(log'), NEW j \in 1..Len(log'), i < j
             PROVE  log'[i].age <= log'[j].age
  OBVIOUS
<1>3. CASE Started
  <2>1. PICK t \in Tiers : Starts(t)
    BY <1>3 DEF Started
  <2>2. Len(log') = Len(log) + 1 /\ log'[j] = log[j - 1] /\ j - 1 \in 1..Len(log)
    <3>1. j - 1 \in 1..Len(log)
      BY <1>2, <2>1 DEF Starts
    <3> QED BY <1>2, <2>1, <3>1 DEF Starts
  <2>3. CASE i = 1
    BY <1>2, <2>1, <2>2, <2>3 DEF Starts
  <2>4. CASE i # 1
    <3>1. i - 1 \in 1..Len(log) /\ i - 1 < j - 1
      BY <1>2, <2>2, <2>4
    <3>2. log'[i] = log[i - 1]
      BY <1>2, <2>1, <3>1 DEF Starts
    <3> QED BY <1>1, <2>2, <3>1, <3>2
  <2> QED BY <2>3, <2>4
<1>4. CASE Changes
  BY <1>1, <1>4 DEF Changes
<1>5. CASE Passes
  <2>1. i \in 1..Len(log) /\ j \in 1..Len(log)
    BY <1>2, <1>5 DEF Passes
  <2>2. log'[i].age = log[i].age + 1 /\ log'[j].age = log[j].age + 1
    BY <1>2, <1>5, <2>1 DEF Passes, Entry
  <2>3. log[i].age <= log[j].age
    BY <1>1, <2>1
  <2> QED BY <1>2, <2>1, <2>2, <2>3
<1> QED BY <1>3, <1>4, <1>5

\* The type invariant.
LEMMA TypeStays ==
    ASSUME HealthTypeOK, [HealthNext]_healthVars
    PROVE  HealthTypeOK'
<1>1. log' \in Seq(Entry)
  BY Steps
<1>2. \A i, j \in DOMAIN log' : i < j => log'[i].age <= log'[j].age
  <2>1. DOMAIN log' = 1..Len(log')
    <3> HIDE DEF Entry
    <3> QED BY <1>1
  <2>2. CASE Started \/ Changes \/ Passes
    BY <1>1, <2>1, <2>2, OrderStays
  <2>3. CASE log' = log
    BY <2>3 DEF HealthTypeOK
  <2> QED BY <2>2, <2>3, Steps DEF Overlapped, FinishedLate, healthVars
<1>3. timer \in [Tiers -> Nat] /\ \A t \in Tiers : timer[t] <= Interval[t] 
  BY DEF HealthTypeOK
<1>4. Interval \in [Tiers -> Nat] /\ \A t \in Tiers : Interval[t] \in Nat /\ Interval[t] <= Interval[t]
  BY HealthAssumption
<1>5. trouble \in 0..Calm /\ 0 \in 0..Calm /\ Calm \in Nat
  BY Durations DEF HealthTypeOK
<1>6. ASSUME NEW t \in Tiers, timer' = [timer EXCEPT ![t] = Interval[t]]
      PROVE  timer' \in [Tiers -> Nat] /\ \A u \in Tiers : timer'[u] <= Interval[u]
  BY <1>3, <1>4, <1>6
<1>61. outlasting \subseteq Tiers /\ took \in [Tiers -> 0..TooLong] /\ TooLong \in 0..TooLong
  BY Durations DEF HealthTypeOK
<1>7. CASE Started \/ Overlapped
  <2>1. PICK t \in Tiers : /\ timer' = [timer EXCEPT ![t] = Interval[t]] /\ trouble' = trouble
                           /\ UNCHANGED <<outlasting, took>>
    BY <1>7 DEF Started, Overlapped
  <2> QED BY <1>1, <1>2, <1>5, <1>6, <1>61, <2>1 DEF HealthTypeOK
<1>8. CASE Finished \/ FinishedLate
  <2>1. timer' = timer /\ trouble' = trouble
    BY <1>8 DEF Finished, FinishedLate
  <2>2. outlasting' \subseteq Tiers
    BY <1>8, <1>61 DEF Finished, FinishedLate
  <2>3. took' \in [Tiers -> 0..TooLong]
    <3>1. ASSUME NEW i \in DOMAIN log PROVE log[i].age \in 0..TooLong
      <4>1. log[i].age \in 0..Window
        BY LogIs
      <4> QED BY <4>1, Durations
    <3> QED BY <1>8, <1>61, <3>1 DEF Finished, FinishedLate
  <2> QED BY <1>1, <1>2, <1>3, <1>5, <2>1, <2>2, <2>3 DEF HealthTypeOK
<1>9. CASE Changes /\ Missed
  <2>1. trouble' = 0
    BY <1>9 DEF Missed
  <2>2. timer' \in [Tiers -> Nat] /\ \A u \in Tiers : timer'[u] <= Interval[u]
    BY <1>3, <1>4, <1>6, <1>9 DEF Missed
  <2>3. outlasting' \subseteq Tiers /\ took' \in [Tiers -> 0..TooLong]
    BY <1>9, <1>61 DEF Missed
  <2> QED BY <1>1, <1>2, <1>5, <2>1, <2>2, <2>3 DEF HealthTypeOK
<1>10. CASE Tick
  <2>1. /\ \A t \in Tiers : timer[t] > 0
        /\ timer' = [t \in Tiers |-> timer[t] - 1]
        /\ trouble' = IF trouble < Calm THEN trouble + 1 ELSE trouble
    BY <1>10 DEF Tick
  <2>2. timer' \in [Tiers -> Nat] /\ \A u \in Tiers : timer'[u] <= Interval[u]
    BY <1>3, <1>4, <2>1
  <2>3. trouble' \in 0..Calm
    BY <1>5, <2>1
  <2>4. outlasting' \subseteq Tiers /\ took' \in [Tiers -> 0..TooLong]
    BY <1>10, <1>61 DEF Tick
  <2> QED BY <1>1, <1>2, <2>2, <2>3, <2>4 DEF HealthTypeOK
<1>11. CASE UNCHANGED healthVars
  BY <1>11 DEF healthVars, HealthTypeOK
<1> QED BY <1>7, <1>8, <1>9, <1>10, <1>11, Steps

\* A tier has one run under way.
LEMMA OneStays ==
    ASSUME HealthTypeOK, log' \in Seq(Entry), OneAtATime, Started \/ Changes \/ Passes
    PROVE  \A i, j \in DOMAIN log' :
              log'[i].status = "running" /\ log'[j].status = "running" /\ log'[i].tier = log'[j].tier
              => i = j
<1>1. /\ Len(log) \in Nat /\ DOMAIN log = 1..Len(log)
      /\ \A i \in 1..Len(log) : log[i] \in Entry
  BY LogIs
<1>2. DOMAIN log' = 1..Len(log') /\ Len(log') \in Nat
  <2> HIDE DEF Entry
  <2> QED OBVIOUS
<1> SUFFICES ASSUME NEW i \in 1..Len(log'), NEW j \in 1..Len(log'),
                    log'[i].status = "running", log'[j].status = "running",
                    log'[i].tier = log'[j].tier
             PROVE  i = j
  BY <1>2
<1>3. CASE Started
  <2>1. PICK t \in Tiers : Starts(t) /\ ~Running(t)
    BY <1>3 DEF Started
  <2>2. ASSUME NEW k \in 1..Len(log'), k # 1
        PROVE  k - 1 \in 1..Len(log) /\ log'[k] = log[k - 1]
    <3>1. k - 1 \in 1..Len(log)
      BY <1>1, <2>1, <2>2 DEF Starts
    <3>2. log'[(k - 1) + 1] = log[k - 1]
      BY <2>1, <3>1 DEF Starts
    <3> QED BY <1>1, <3>1, <3>2
  <2>3. log'[1].tier = t
    BY <2>1 DEF Starts
  <2>4. ASSUME NEW k \in 1..Len(log'), log'[k].status = "running", log'[k].tier = t PROVE k = 1
    BY <1>1, <2>1, <2>2, <2>4 DEF Running, IsRun
  <2>5. CASE i = 1 \/ j = 1
    BY <2>3, <2>4, <2>5
  <2>6. CASE i # 1 /\ j # 1
    <3>1. /\ i - 1 \in 1..Len(log) /\ log'[i] = log[i - 1]
          /\ j - 1 \in 1..Len(log) /\ log'[j] = log[j - 1]
      BY <2>2, <2>6
    <3>2. \A a, b \in 1..Len(log) :
              log[a].status = "running" /\ log[b].status = "running" /\ log[a].tier = log[b].tier => a = b
      BY <1>1 DEF OneAtATime
    <3>3. i - 1 = j - 1
      BY <3>1, <3>2
    <3> QED BY <1>2, <3>3
  <2> QED BY <2>5, <2>6
<1>4. CASE Changes
  BY <1>1, <1>4 DEF Changes, OneAtATime
<1>5. CASE Passes
  <2>1. ASSUME NEW k \in 1..Len(log') 
        PROVE  k \in 1..Len(log) /\ log'[k].status = log[k].status /\ log'[k].tier = log[k].tier
    <3>1. k \in 1..Len(log)
      BY <1>1, <1>5 DEF Passes
    <3> QED BY <1>1, <1>5, <3>1 DEF Passes, Entry
  <2> QED BY <1>1, <2>1 DEF OneAtATime
<1> QED BY <1>3, <1>4, <1>5

\* Who may be recorded after a run with another outcome.
LEMMA LateStays ==
    ASSUME HealthTypeOK, log' \in Seq(Entry), OneAtATime, FewAreLate,
           Started \/ (Changes /\ (Finished \/ Missed)) \/ Passes
    PROVE  FewAreLate'
<1>1. /\ Len(log) \in Nat /\ DOMAIN log = 1..Len(log)
      /\ \A i \in 1..Len(log) : log[i] \in Entry
  BY LogIs
<1>2. DOMAIN log' = 1..Len(log') /\ Len(log') \in Nat
  <2> HIDE DEF Entry
  <2> QED OBVIOUS
<1> SUFFICES ASSUME NEW j \in 1..Len(log'), log'[j].status \in Informative,
                    NEW i \in Late(j)', NEW k \in Late(j)'
             PROVE  log'[i].tier # log'[j].tier /\ (log'[i].tier = log'[k].tier => i = k)
  BY <1>2 DEF FewAreLate
<1>3. \A m \in Late(j)' :
          /\ m \in 1..Len(log') /\ m > j
          /\ \/ log'[m].status = "running"
             \/ log'[m].status \in Informative \ {log'[j].status} /\ ~log'[m].answered
  BY <1>2 DEF Late
<1>4. CASE Started
  <2>1. PICK t \in Tiers : Starts(t)
    BY <1>4 DEF Started
  <2>2. j # 1
    BY <2>1 DEF Starts, Informative
  <2>3. ASSUME NEW m \in 1..Len(log'), m # 1
        PROVE  m - 1 \in 1..Len(log) /\ log'[m] = log[m - 1]
    <3>1. m - 1 \in 1..Len(log)
      BY <1>1, <2>1, <2>3 DEF Starts
    <3>2. log'[(m - 1) + 1] = log[m - 1]
      BY <2>1, <3>1 DEF Starts
    <3> QED BY <1>1, <3>1, <3>2
  <2>4. j - 1 \in 1..Len(log) /\ log'[j] = log[j - 1]
    BY <2>2, <2>3
  <2>5. ASSUME NEW m \in Late(j)'
        PROVE  m \in 1..Len(log') /\ m - 1 \in Late(j - 1) /\ log'[m] = log[m - 1]
    <3>1. m \in 1..Len(log') /\ m > j /\ m # 1
      BY <1>2, <1>3
    <3>2. m - 1 \in 1..Len(log) /\ log'[m] = log[m - 1] /\ m - 1 > j - 1
      BY <1>2, <2>3, <3>1
    <3> QED BY <1>1, <1>3, <2>4, <3>1, <3>2 DEF Late
  <2>6. /\ log[i - 1].tier # log[j - 1].tier
        /\ log[i - 1].tier = log[k - 1].tier => i - 1 = k - 1
    <3>1. log[j - 1].status \in Informative /\ j - 1 \in DOMAIN log
      BY <1>1, <2>4
    <3>2. \A a, b \in Late(j - 1) :
              log[a].tier # log[j - 1].tier /\ (log[a].tier = log[b].tier => a = b)
      BY <3>1 DEF FewAreLate
    <3>3. i - 1 \in Late(j - 1) /\ k - 1 \in Late(j - 1)
      BY <2>5
    <3> QED BY <3>2, <3>3
  <2>7. i \in 1..Len(log') /\ k \in 1..Len(log') /\ log'[i] = log[i - 1] /\ log'[k] = log[k - 1]
    BY <2>5
  <2> QED BY <1>2, <2>4, <2>6, <2>7
<1>5. CASE Changes /\ (Finished \/ Missed)
  <2>1. /\ Len(log') = Len(log)
        /\ \A m \in 1..Len(log) :
              /\ log'[m].tier = log[m].tier
              /\ log'[m].status # log[m].status =>
                    log[m].status = "running" /\ log'[m].status # "running"
              /\ log[m].answered => log'[m].answered
    BY <1>5 DEF Changes
  <2>2. CASE log[j].status = log'[j].status
    <3>1. \A m \in Late(j)' : m \in Late(j)
      BY <1>1, <1>3, <2>1, <2>2 DEF Late
    <3>2. log[i].tier # log[j].tier /\ (log[i].tier = log[k].tier => i = k)
      BY <1>1, <2>1, <2>2, <3>1 DEF FewAreLate
    <3> QED BY <1>3, <2>1, <3>2
  <2>3. CASE log[j].status # log'[j].status
    <3>1. Finished /\ log[j].status = "running"
      BY <1>5, <2>1, <2>3 DEF Missed
    <3>2. PICK r \in DOMAIN log, s \in Outcomes : log[r].status = "running" /\ log' = Recording(r, s)
      BY <3>1 DEF Finished, IsRun
    <3>3. ASSUME NEW m \in 1..Len(log), m # r
          PROVE  log'[m] = [log[m] EXCEPT !.answered =
                               @ \/ (s \in Informative /\ log[m].status \in Informative \ {s})]
      BY <1>1, <3>2, <3>3 DEF Recording
    <3>4. \A m \in 1..Len(log) : m # r => log'[m].status = log[m].status
      BY <1>1, <3>3 DEF Entry
    <3>5. r = j
      BY <2>1, <2>3, <3>4
    <3>6. log'[j].status = s
      BY <1>1, <3>2, <3>5 DEF Recording, Entry
    <3>7. ASSUME NEW m \in Late(j)' PROVE m \in 1..Len(log) /\ m # j /\ log[m].status = "running"
      <4>1. m \in 1..Len(log) /\ m # j
        BY <1>3, <2>1
      <4>2. CASE log'[m].status = "running"
        BY <3>4, <3>5, <4>1, <4>2
      <4>3. CASE log'[m].status \in Informative \ {s} /\ ~log'[m].answered
        <5>1. log[m].status \in Informative \ {s} /\ s \in Informative
          BY <3>4, <3>5, <3>6, <4>1, <4>3
        <5>2. log'[m].answered
          <6>1. log[m] \in Entry
            BY <1>1, <4>1
          <6>2. log'[m] = [log[m] EXCEPT !.answered =
                               @ \/ (s \in Informative /\ log[m].status \in Informative \ {s})]
            BY <3>3, <3>5, <4>1
          <6> QED BY <5>1, <6>1, <6>2 DEF Entry
        <5> QED BY <4>3, <5>2
      <4> QED BY <1>3, <3>6, <4>1, <4>2, <4>3
    <3>8. log[i].tier # log[j].tier /\ (log[i].tier = log[k].tier => i = k)
      BY <1>1, <2>1, <3>1, <3>7 DEF OneAtATime
    <3> QED BY <2>1, <3>7, <3>8
  <2> QED BY <2>2, <2>3
<1>6. CASE Passes
  <2>1. ASSUME NEW m \in 1..Len(log') 
        PROVE  /\ m \in 1..Len(log) /\ log'[m].status = log[m].status
               /\ log'[m].tier = log[m].tier /\ log'[m].answered = log[m].answered
    <3>1. m \in 1..Len(log)
      BY <1>1, <1>6 DEF Passes
    <3> QED BY <1>1, <1>6, <3>1 DEF Passes, Entry
  <2>2. \A m \in Late(j)' : m \in 1..Len(log') /\ m \in Late(j)
    BY <1>1, <1>3, <2>1 DEF Late
  <2>3. log[i].tier # log[j].tier /\ (log[i].tier = log[k].tier => i = k)
    BY <1>1, <2>1, <2>2 DEF FewAreLate
  <2> QED BY <2>1, <2>2, <2>3
<1> QED BY <1>4, <1>5, <1>6

\* A run that outlasts the window is in the log no longer.
LEMMA NoneStays ==
    ASSUME HealthTypeOK, log' \in Seq(Entry), OneAtATime,
           \/ Started
           \/ Changes /\ outlasting' \subseteq outlasting
           \/ Tick /\ Passes
    PROVE  \A i \in DOMAIN log' : log'[i].status = "running" => log'[i].tier \notin outlasting'
<1>1. /\ Len(log) \in Nat /\ DOMAIN log = 1..Len(log)
      /\ \A i \in 1..Len(log) : log[i] \in Entry /\ log[i].age \in Nat
  BY LogIs
<1>2. DOMAIN log' = 1..Len(log') /\ Len(log') \in Nat
  <2> HIDE DEF Entry
  <2> QED OBVIOUS
<1>3. \A i \in 1..Len(log) : log[i].status = "running" => log[i].tier \notin outlasting
  BY <1>1 DEF OneAtATime
<1> SUFFICES ASSUME NEW i \in 1..Len(log'), log'[i].status = "running"
             PROVE  log'[i].tier \notin outlasting'
  BY <1>2
<1>4. CASE Started
  <2>1. PICK t \in Tiers : Starts(t) /\ ~Running(t) /\ outlasting' = outlasting
    BY <1>4 DEF Started
  <2>2. CASE i = 1
    BY <2>1, <2>2 DEF Starts, Running
  <2>3. CASE i # 1
    <3>1. i - 1 \in 1..Len(log)
      BY <1>1, <2>1, <2>3 DEF Starts
    <3>2. log'[(i - 1) + 1] = log[i - 1]
      BY <2>1, <3>1 DEF Starts
    <3>3. log'[i] = log[i - 1]
      BY <1>2, <3>2
    <3> QED BY <1>3, <2>1, <3>1, <3>3
  <2> QED BY <2>2, <2>3
<1>5. CASE Changes /\ outlasting' \subseteq outlasting
  BY <1>1, <1>3, <1>5 DEF Changes
<1>6. CASE Tick /\ Passes
  <2>1. i \in 1..Len(log)
    BY <1>1, <1>2, <1>6 DEF Passes
  <2>2. log'[i].status = log[i].status /\ log'[i].tier = log[i].tier /\ log[i].age + 1 <= Window
    <3>1. log[i].age + 1 <= Window
      BY <1>2, <1>6, <2>1 DEF Passes
    <3> QED BY <1>1, <1>6, <2>1, <3>1 DEF Passes, Entry
  <2>3. ASSUME NEW j \in DOMAIN log, IsRun(j, log[i].tier), log[j].age = Window PROVE FALSE
    <3>1. i = j
      BY <1>1, <2>1, <2>2, <2>3 DEF OneAtATime, IsRun
    <3> QED BY <1>1, <2>2, <2>3, <3>1, Durations
  <2>4. outlasting' = outlasting \cup
            {t \in Tiers : \E j \in DOMAIN log : IsRun(j, t) /\ log[j].age = Window}
    BY <1>6 DEF Tick
  <2> QED BY <1>3, <2>1, <2>2, <2>3, <2>4
<1> QED BY <1>4, <1>5, <1>6

\* The clocks.
LEMMA ClocksAre ==
    ASSUME HealthTypeOK
    PROVE  /\ trouble \in Nat /\ trouble <= Calm
           /\ \A t \in Tiers : /\ timer[t] \in Nat /\ timer[t] <= Interval[t]
                               /\ Since(t) \in Nat /\ Since(t) <= Interval[t]
           /\ timer \in [Tiers -> Nat]
<1>1. timer \in [Tiers -> Nat] /\ \A t \in Tiers : timer[t] <= Interval[t]
  BY DEF HealthTypeOK
<1>2. trouble \in Nat /\ trouble <= Calm
  BY Durations DEF HealthTypeOK
<1> QED BY <1>1, <1>2, Durations DEF Since

\* A row that is recorded stays so, and is no older than the time that passes.
LEMMA RowMoves ==
    ASSUME HealthTypeOK, log' \in Seq(Entry), NEW a \in Nat, HasRow(log, a)
    PROVE  /\ Started \/ Changes \/ log' = log => HasRow(log', a)
           /\ Passes => HasRow(log', a + 1)
<1>1. /\ Len(log) \in Nat /\ DOMAIN log = 1..Len(log) /\ Window \in Nat
      /\ \A i \in 1..Len(log) : log[i] \in Entry /\ log[i].age \in Nat
  BY LogIs, Durations
<1>2. DOMAIN log' = 1..Len(log') /\ Len(log') \in Nat
  <2> HIDE DEF Entry
  <2> QED OBVIOUS
<1>3. CASE a > Window
  <2>1. a + 1 > Window
    BY <1>1, <1>3
  <2> QED BY <1>3, <2>1 DEF HasRow
<1>4. ASSUME NEW i \in DOMAIN log, log[i].status \in Statuses, log[i].age <= a,
             Started \/ Changes \/ log' = log
      PROVE  HasRow(log', a)
  <2>1. i \in 1..Len(log)
    BY <1>1
  <2>2. CASE Started
    <3>1. PICK t \in Tiers : Starts(t)
      BY <2>2 DEF Started
    <3>2. i + 1 \in DOMAIN log' /\ log'[i + 1] = log[i]
      BY <1>1, <1>2, <2>1, <3>1 DEF Starts
    <3> QED BY <1>4, <3>2 DEF HasRow
  <2>3. CASE Changes
    <3>1. i \in DOMAIN log' /\ log'[i].age = log[i].age
      BY <1>2, <2>1, <2>3 DEF Changes
    <3>2. log'[i].status = log[i].status
      BY <1>4, <2>1, <2>3 DEF Changes, Statuses, Informative, Neutral
    <3> QED BY <1>4, <3>1, <3>2 DEF HasRow
  <2>4. CASE log' = log
    BY <1>4, <2>4 DEF HasRow
  <2> QED BY <1>4, <2>2, <2>3, <2>4
<1>5. ASSUME NEW i \in DOMAIN log, log[i].status \in Statuses, log[i].age <= a, Passes
      PROVE  HasRow(log', a + 1)
  <2>1. i \in 1..Len(log)
    BY <1>1
  <2>2. CASE log[i].age + 1 <= Window
    <3>1. i \in DOMAIN log' /\ log'[i] = [log[i] EXCEPT !.age = @ + 1]
      <4>1. i <= Len(log')
        BY <1>5, <2>1, <2>2 DEF Passes
      <4>2. i \in 1..Len(log')
        BY <1>1, <1>2, <2>1, <4>1
      <4> QED BY <1>2, <1>5, <4>2 DEF Passes
    <3>2. log'[i].status = log[i].status /\ log'[i].age = log[i].age + 1
      BY <1>1, <2>1, <3>1 DEF Entry
    <3>3. log'[i].age <= a + 1
      BY <1>1, <1>5, <2>1, <3>2
    <3> QED BY <1>5, <3>1, <3>2, <3>3 DEF HasRow
  <2>3. CASE ~(log[i].age + 1 <= Window)
    <3>1. a + 1 > Window
      BY <1>1, <1>5, <2>1, <2>3
    <3> QED BY <3>1 DEF HasRow
  <2> QED BY <2>2, <2>3
<1> QED BY <1>3, <1>4, <1>5 DEF HasRow

\* Which runs are under way after a step.
LEMMA RunningStays ==
    ASSUME HealthTypeOK, log' \in Seq(Entry), NEW t \in Tiers, Running(t)
    PROVE  /\ Started \/ (Tick /\ Passes) \/ Overlapped => Running(t)'
           /\ \A u \in Tiers \ {t} : \A i \in DOMAIN log, s \in Outcomes :
                  IsRun(i, u) /\ log' = Recording(i, s) /\ outlasting' = outlasting => Running(t)'
<1>1. /\ Len(log) \in Nat /\ DOMAIN log = 1..Len(log)
      /\ \A i \in 1..Len(log) : log[i] \in Entry /\ log[i].age \in Nat /\ log[i].age <= Window
  BY LogIs, Durations
<1>2. DOMAIN log' = 1..Len(log') /\ Len(log') \in Nat
  <2> HIDE DEF Entry
  <2> QED OBVIOUS
<1>3. CASE t \in outlasting
  <2>1. t \in outlasting' => Running(t)'
    BY DEF Running
  <2> QED BY <1>3, <2>1 DEF Started, Tick, Overlapped
<1>4. ASSUME NEW i \in 1..Len(log), IsRun(i, t)
      PROVE  /\ Started \/ (Tick /\ Passes) \/ Overlapped => Running(t)'
             /\ \A u \in Tiers \ {t} : \A r \in DOMAIN log, s \in Outcomes :
                    IsRun(r, u) /\ log' = Recording(r, s) /\ outlasting' = outlasting => Running(t)'
  <2>1. log[i].tier = t /\ log[i].status = "running"
    BY <1>4 DEF IsRun
  <2>2. ASSUME NEW k \in DOMAIN log', log'[k].tier = t, log'[k].status = "running" PROVE Running(t)'
    BY <2>2 DEF Running, IsRun
  <2>3. CASE Started
    <3>1. PICK u \in Tiers : Starts(u)
      BY <2>3 DEF Started
    <3>2. i + 1 \in DOMAIN log' /\ log'[i + 1] = log[i]
      BY <1>1, <1>2, <3>1 DEF Starts
    <3> QED BY <2>1, <2>2, <3>2
  <2>4. CASE Overlapped
    <3>1. log' = log
      BY <2>4 DEF Overlapped
    <3> QED BY <1>1, <2>1, <2>2, <3>1
  <2>5. CASE Tick /\ Passes
    <3>1. CASE log[i].age + 1 <= Window
      <4>1. i \in DOMAIN log' /\ log'[i] = [log[i] EXCEPT !.age = @ + 1]
        BY <1>1, <1>2, <2>5, <3>1 DEF Passes
      <4>2. log'[i].status = log[i].status /\ log'[i].tier = log[i].tier
        BY <1>1, <4>1 DEF Entry
      <4> QED BY <2>1, <2>2, <4>1, <4>2
    <3>2. CASE ~(log[i].age + 1 <= Window)
      <4>1. log[i].age = Window
        BY <1>1, <3>2, Durations
      <4>2. t \in outlasting'
        BY <1>1, <1>4, <2>5, <4>1 DEF Tick
      <4> QED BY <4>2 DEF Running
    <3> QED BY <3>1, <3>2
  <2>6. ASSUME NEW u \in Tiers \ {t}, NEW r \in DOMAIN log, NEW s \in Outcomes,
               IsRun(r, u), log' = Recording(r, s)
        PROVE  Running(t)'
    <3>1. i # r
      BY <2>1, <2>6 DEF IsRun
    <3>2. i \in DOMAIN log' /\ log'[i] = [log[i] EXCEPT !.answered =
                         @ \/ (s \in Informative /\ log[i].status \in Informative \ {s})]
      BY <1>1, <2>6, <3>1 DEF Recording
    <3>3. log'[i].status = log[i].status /\ log'[i].tier = log[i].tier
      BY <1>1, <3>2 DEF Entry
    <3> QED BY <2>1, <2>2, <3>2, <3>3
  <2> QED BY <2>3, <2>4, <2>5, <2>6
<1> QED BY <1>1, <1>3, <1>4 DEF Running

\* What the clock of a tier shows after its firing, after the end of its run and
\* after a tick.
LEMMA FiringStays ==
    ASSUME HealthTypeOK, HealthTypeOK', log' \in Seq(Entry), FiringIsRecorded,
           \/ Started
           \/ Changes /\ (Finished \/ Missed)
           \/ FinishedLate
           \/ Overlapped
           \/ Tick /\ Passes
    PROVE  FiringIsRecorded'
<1>1. /\ Len(log) \in Nat /\ DOMAIN log = 1..Len(log)
      /\ \A i \in 1..Len(log) : log[i] \in Entry /\ log[i].age \in Nat
  BY LogIs
<1>2. DOMAIN log' = 1..Len(log') /\ Len(log') \in Nat
  <2> HIDE DEF Entry
  <2> QED OBVIOUS
<1>3. /\ trouble \in Nat /\ trouble <= Calm /\ Calm \in Nat /\ Window \in Nat
      /\ TooLong = Window + 1
      /\ \A t \in Tiers : /\ timer[t] \in Nat /\ Interval[t] \in Nat /\ Since(t) \in Nat
                          /\ took[t] \in Nat
      /\ timer \in [Tiers -> Nat] /\ took \in [Tiers -> 0..TooLong]
  <2>1. took \in [Tiers -> 0..TooLong]
    BY DEF HealthTypeOK
  <2> QED BY <2>1, ClocksAre, Durations
<1> SUFFICES ASSUME NEW t \in Tiers, ~Running(t)', trouble' > Since(t)'
             PROVE  HasRow(log', Since(t)' + took'[t])
  BY DEF FiringIsRecorded
<1>4. Since(t)' \in Nat
  <2>1. timer' \in [Tiers -> Nat] /\ \A u \in Tiers : timer'[u] <= Interval[u]
    BY DEF HealthTypeOK
  <2> QED BY <1>3, <2>1 DEF Since
<1> DEFINE a == Since(t) + took[t]
<1>5. a \in Nat
  BY <1>3
<1>6. ~Running(t) /\ trouble > Since(t) => HasRow(log, a)
  BY DEF FiringIsRecorded
<1>7. CASE Started
  <2>1. PICK u \in Tiers : /\ Starts(u) /\ trouble' = trouble /\ took' = took
                           /\ timer' = [timer EXCEPT ![u] = Interval[u]]
    BY <1>7 DEF Started
  <2>2. u # t
    <3>1. 1 \in DOMAIN log' /\ log'[1].tier = u /\ log'[1].status = "running"
      BY <1>1, <1>2, <2>1 DEF Starts
    <3> QED BY <3>1 DEF Running, IsRun
  <2>3. Since(t)' = Since(t)
    BY <1>3, <2>1, <2>2 DEF Since
  <2>4. ~Running(t)
    BY <1>7, RunningStays
  <2>5. HasRow(log, a)
    BY <1>6, <2>1, <2>3, <2>4
  <2>6. HasRow(log', a)
    <3> HIDE DEF a
    <3> QED BY <1>5, <1>7, <2>5, RowMoves
  <2> QED BY <2>1, <2>3, <2>6
<1>8. CASE Changes /\ Missed
  BY <1>4, <1>8 DEF Missed
<1>9. CASE Changes /\ Finished
  <2>1. PICK u \in Tiers, r \in DOMAIN log, s \in Outcomes :
            /\ IsRun(r, u) /\ log' = Recording(r, s) /\ took' = [took EXCEPT ![u] = log[r].age]
            /\ timer' = timer /\ trouble' = trouble /\ outlasting' = outlasting
    BY <1>9 DEF Finished
  <2>2. Since(t)' = Since(t)
    BY <2>1 DEF Since
  <2>3. CASE u = t
    <3>1. took'[t] = log[r].age
      BY <1>3, <2>1, <2>3
    <3>2. r \in DOMAIN log' /\ log'[r].age = log[r].age
      BY <1>1, <1>2, <1>9 DEF Changes
    <3>3. log'[r].status \in Statuses
      <4>1. s \in Statuses
        BY HealthAssumption DEF Statuses, Informative, Neutral
      <4>2. log'[r] = [log[r] EXCEPT !.status = s] /\ log[r] \in Entry
        BY <1>1, <2>1 DEF Recording
      <4> QED BY <4>1, <4>2 DEF Entry
    <3>4. log'[r].age <= Since(t)' + took'[t]
      BY <1>1, <1>4, <3>1, <3>2
    <3> QED BY <3>2, <3>3, <3>4 DEF HasRow
  <2>4. CASE u # t
    <3>1. took'[t] = took[t]
      BY <1>3, <2>1, <2>4
    <3>2. ~Running(t)
      BY <2>1, <2>4, RunningStays
    <3>3. HasRow(log, a)
      BY <1>6, <2>1, <2>2, <3>2
    <3>4. HasRow(log', a)
      <4> HIDE DEF a
      <4> QED BY <1>5, <1>9, <3>3, RowMoves
    <3> QED BY <2>2, <3>1, <3>4
  <2> QED BY <2>3, <2>4
<1>10. CASE FinishedLate
  <2>1. PICK u \in outlasting :
            /\ outlasting' = outlasting \ {u} /\ took' = [took EXCEPT ![u] = TooLong]
            /\ timer' = timer /\ trouble' = trouble /\ log' = log
    BY <1>10 DEF FinishedLate
  <2>2. Since(t)' = Since(t)
    BY <2>1 DEF Since
  <2>3. CASE u = t
    <3>1. took'[t] = Window + 1
      BY <1>3, <2>1, <2>3
    <3>2. Since(t)' + took'[t] > Window
      BY <1>3, <1>4, <3>1
    <3> QED BY <3>2 DEF HasRow
  <2>4. CASE u # t
    <3>1. took'[t] = took[t]
      BY <1>3, <2>1, <2>4
    <3>2. ~Running(t)
      BY <2>1, <2>4 DEF Running, IsRun
    <3> QED BY <1>6, <2>1, <2>2, <3>1, <3>2
  <2> QED BY <2>3, <2>4
<1>11. CASE Overlapped
  <2>1. PICK u \in Tiers : /\ log' = log /\ trouble' = trouble /\ took' = took /\ Running(u)
                           /\ timer' = [timer EXCEPT ![u] = Interval[u]]
    BY <1>11 DEF Overlapped
  <2>2. ~Running(t)
    BY <1>11, RunningStays
  <2>3. Since(t)' = Since(t)
    BY <1>3, <2>1, <2>2 DEF Since
  <2> QED BY <1>6, <2>1, <2>2, <2>3
<1>12. CASE Tick /\ Passes
  <2>1. /\ timer[t] > 0 /\ timer' = [u \in Tiers |-> timer[u] - 1] /\ took' = took
        /\ trouble' = IF trouble < Calm THEN trouble + 1 ELSE trouble
    BY <1>12 DEF Tick
  <2>2. Since(t)' = Since(t) + 1
    BY <1>3, <2>1 DEF Since
  <2>3. trouble > Since(t)
    BY <1>3, <2>1, <2>2
  <2>4. ~Running(t)
    BY <1>12, RunningStays
  <2>5. HasRow(log, a)
    BY <1>6, <2>3, <2>4
  <2>6. HasRow(log', a + 1)
    <3> HIDE DEF a
    <3> QED BY <1>5, <1>12, <2>5, RowMoves
  <2>7. Since(t)' + took'[t] = a + 1
    BY <1>3, <2>1, <2>2
  <2> QED BY <2>6, <2>7
<1> QED BY <1>7, <1>8, <1>9, <1>10, <1>11, <1>12

\* What was recorded before a run that goes on.
LEMMA FollowStays ==
    ASSUME HealthTypeOK, log' \in Seq(Entry), OneAtATime, FiringIsRecorded, RunsFollow,
           \/ Started
           \/ Changes /\ (Finished \/ Missed)
           \/ FinishedLate
           \/ Tick /\ Passes
    PROVE  RunsFollow'
<1>1. /\ Len(log) \in Nat /\ DOMAIN log = 1..Len(log)
      /\ \A i \in 1..Len(log) : log[i] \in Entry /\ log[i].age \in Nat /\ log[i].tier \in Tiers
  BY LogIs
<1>2. DOMAIN log' = 1..Len(log') /\ Len(log') \in Nat
  <2> HIDE DEF Entry
  <2> QED OBVIOUS
<1>3. /\ trouble \in Nat /\ trouble <= Calm /\ Calm \in Nat
      /\ \A t \in Tiers : Interval[t] \in Nat /\ timer[t] \in Nat /\ took[t] \in Nat
      /\ took \in [Tiers -> 0..TooLong]
  <2>1. took \in [Tiers -> 0..TooLong]
    BY DEF HealthTypeOK
  <2> QED BY <2>1, ClocksAre, Durations
<1> SUFFICES ASSUME NEW i \in 1..Len(log'), log'[i].status = "running",
                    trouble' > log'[i].age + Interval[log'[i].tier]
             PROVE  HasRow(log', log'[i].age + Interval[log'[i].tier] + took'[log'[i].tier])
  BY <1>2 DEF RunsFollow
<1>4. ASSUME NEW j \in 1..Len(log), log[j].status = "running",
             trouble > log[j].age + Interval[log[j].tier]
      PROVE  /\ HasRow(log, log[j].age + Interval[log[j].tier] + took[log[j].tier])
             /\ log[j].age + Interval[log[j].tier] + took[log[j].tier] \in Nat
  <2>1. HasRow(log, log[j].age + Interval[log[j].tier] + took[log[j].tier])
    BY <1>1, <1>4 DEF RunsFollow
  <2> QED BY <1>1, <1>3, <2>1
<1>5. CASE Started
  <2>1. PICK t \in Tiers : /\ Starts(t) /\ ~Running(t) /\ timer[t] = 0
                           /\ trouble' = trouble /\ took' = took
    BY <1>5 DEF Started
  <2>2. CASE i = 1
    <3>1. log'[i].tier = t /\ log'[i].age = 0
      BY <2>1, <2>2 DEF Starts
    <3> DEFINE a == Interval[t] + took[t]
    <3>2. a \in Nat /\ Since(t) = Interval[t]
      BY <1>3, <2>1 DEF Since
    <3>3. trouble > Since(t)
      BY <1>3, <2>1, <3>1, <3>2
    <3>4. HasRow(log, a)
      BY <2>1, <3>2, <3>3 DEF FiringIsRecorded
    <3>5. HasRow(log', a)
      <4> HIDE DEF a
      <4> QED BY <1>5, <3>2, <3>4, RowMoves
    <3>6. log'[i].age + Interval[log'[i].tier] + took'[log'[i].tier] = a
      BY <1>3, <2>1, <3>1
    <3> QED BY <3>5, <3>6
  <2>3. CASE i # 1
    <3>1. i - 1 \in 1..Len(log)
      BY <1>1, <2>1, <2>3 DEF Starts
    <3>2. log'[(i - 1) + 1] = log[i - 1]
      BY <2>1, <3>1 DEF Starts
    <3>3. log'[i] = log[i - 1]
      BY <1>2, <3>2
    <3> DEFINE a == log[i - 1].age + Interval[log[i - 1].tier] + took[log[i - 1].tier]
    <3>4. HasRow(log, a) /\ a \in Nat
      BY <1>4, <2>1, <3>1, <3>3
    <3>5. HasRow(log', a)
      <4> HIDE DEF a
      <4> QED BY <1>5, <3>4, RowMoves
    <3> QED BY <2>1, <3>3, <3>5
  <2> QED BY <2>2, <2>3
<1>6. CASE Changes /\ Missed
  <2>1. /\ Len(log') = Len(log)
        /\ log'[i].tier = log[i].tier /\ log'[i].age = log[i].age
    BY <1>6 DEF Changes
  <2>2. log'[i].age + Interval[log'[i].tier] \in Nat
    BY <1>1, <1>3, <2>1
  <2> QED BY <1>6, <2>2 DEF Missed
<1>7. CASE Changes /\ Finished
  <2>1. PICK u \in Tiers, r \in DOMAIN log, s \in Outcomes :
            /\ IsRun(r, u) /\ log' = Recording(r, s) /\ took' = [took EXCEPT ![u] = log[r].age]
            /\ trouble' = trouble
    BY <1>7 DEF Finished
  <2>2. /\ Len(log') = Len(log) /\ i \in 1..Len(log)
        /\ log'[i].tier = log[i].tier /\ log'[i].age = log[i].age
        /\ log[i].status = "running"
    BY <1>7 DEF Changes
  <2>3. i # r
    <3>1. log'[r] = [log[r] EXCEPT !.status = s] /\ log[r] \in Entry
      BY <1>1, <2>1 DEF Recording
    <3>2. log'[r].status = s /\ s # "running"
      BY <3>1, HealthAssumption DEF Entry
    <3> QED BY <3>2
  <2>4. log[i].tier # u
    BY <1>1, <2>1, <2>2, <2>3 DEF OneAtATime, IsRun
  <2>5. took'[log[i].tier] = took[log[i].tier]
    BY <1>1, <1>3, <2>1, <2>2, <2>4
  <2> DEFINE a == log[i].age + Interval[log[i].tier] + took[log[i].tier]
  <2>6. HasRow(log, a) /\ a \in Nat
    BY <1>4, <2>1, <2>2
  <2>7. HasRow(log', a)
    <3> HIDE DEF a
    <3> QED BY <1>7, <2>6, RowMoves
  <2> QED BY <2>2, <2>5, <2>7
<1>8. CASE FinishedLate
  <2>1. PICK u \in outlasting :
            took' = [took EXCEPT ![u] = TooLong] /\ trouble' = trouble /\ log' = log
    BY <1>8 DEF FinishedLate
  <2>2. i \in 1..Len(log) /\ log[i].tier # u
    BY <1>1, <2>1 DEF OneAtATime
  <2>3. took'[log[i].tier] = took[log[i].tier]
    BY <1>1, <1>3, <2>1, <2>2
  <2>4. HasRow(log, log[i].age + Interval[log[i].tier] + took[log[i].tier])
    BY <1>4, <2>1, <2>2
  <2> QED BY <2>1, <2>3, <2>4
<1>9. CASE Tick /\ Passes
  <2>1. i \in 1..Len(log)
    BY <1>1, <1>2, <1>9 DEF Passes
  <2>2. /\ log'[i].age = log[i].age + 1
        /\ log'[i].status = log[i].status /\ log'[i].tier = log[i].tier
    BY <1>1, <1>9, <2>1 DEF Passes, Entry
  <2>3. trouble' = (IF trouble < Calm THEN trouble + 1 ELSE trouble) /\ took' = took
    BY <1>9 DEF Tick
  <2> DEFINE I == Interval[log[i].tier]
             b == log[i].age
             c == took[log[i].tier]
             a == b + I + c
  <2>4. I \in Nat /\ b \in Nat /\ c \in Nat
    BY <1>1, <1>3, <2>1
  <2>5. trouble' > b + 1 + I
    BY <2>2
  <2> HIDE DEF I, b, c
  <2>6. trouble > b + I
    BY <1>3, <2>3, <2>4, <2>5
  <2>7. HasRow(log, a) /\ a \in Nat
    BY <1>4, <2>1, <2>2, <2>6 DEF I, b, c
  <2>8. HasRow(log', a + 1)
    <3> HIDE DEF a
    <3> QED BY <1>9, <2>7, RowMoves
  <2>9. a + 1 = (b + 1) + I + c
    BY <2>4
  <2>10. log'[i].age + Interval[log'[i].tier] + took'[log'[i].tier] = (b + 1) + I + c
    BY <2>2, <2>3 DEF I, b, c
  <2> QED BY <2>8, <2>9, <2>10
<1> QED BY <1>5, <1>6, <1>7, <1>8, <1>9

LEMMA HealthStarts == HealthInit => HealthInv
<1> SUFFICES ASSUME HealthInit PROVE HealthInv
  OBVIOUS
<1>1. log = <<>> /\ log \in Seq(Entry) /\ DOMAIN log = {}
  BY DEF HealthInit
<1>2. timer \in [Tiers -> Nat] /\ timer = Interval /\ trouble = 0
  BY HealthAssumption DEF HealthInit
<1>3. HealthTypeOK
  <2>1. outlasting \subseteq Tiers /\ took \in [Tiers -> 0..TooLong]
    BY Durations DEF HealthInit
  <2> QED BY <1>1, <1>2, <2>1, Durations DEF HealthTypeOK
<1>4. FiringIsRecorded
  BY <1>2, Durations DEF FiringIsRecorded, Since
<1> QED BY <1>1, <1>3, <1>4 DEF HealthInv, OneAtATime, FewAreLate, RunsFollow

LEMMA HealthStays == ASSUME HealthInv, [HealthNext]_healthVars PROVE HealthInv'
<1> USE DEF HealthInv
<1>1. HealthTypeOK'
  BY TypeStays
<1>2. CASE UNCHANGED healthVars
  BY <1>1, <1>2
     DEF healthVars, OneAtATime, FewAreLate, Late, FiringIsRecorded, Running, IsRun, Since, RunsFollow
<1>3. CASE Overlapped \/ FinishedLate
  <2>1. log' = log /\ trouble' = trouble /\ outlasting' \subseteq outlasting
    BY <1>3 DEF Overlapped, FinishedLate
  <2>2. OneAtATime' /\ FewAreLate'
    BY <2>1 DEF OneAtATime, FewAreLate, Late
  <2>3. FiringIsRecorded'
    BY <1>1, <1>3, Steps, FiringStays
  <2>4. RunsFollow'
    <3>1. CASE Overlapped
      BY <2>1, <3>1 DEF Overlapped, RunsFollow
    <3>2. CASE FinishedLate
      BY <3>2, Steps, FollowStays
    <3> QED BY <1>3, <3>1, <3>2
  <2> QED BY <1>1, <2>2, <2>3, <2>4
<1>4. CASE Started \/ (Changes /\ (Finished \/ Missed)) \/ (Tick /\ Passes)
  <2>1. log' \in Seq(Entry)
    BY Steps
  <2>2. OneAtATime'
    <3>1. Changes /\ (Finished \/ Missed) => outlasting' \subseteq outlasting
      BY DEF Finished, Missed
    <3> QED BY <1>4, <2>1, <3>1, OneStays, NoneStays DEF OneAtATime
  <2>3. FewAreLate'
    BY <1>4, <2>1, LateStays
  <2>4. FiringIsRecorded'
    BY <1>1, <1>4, <2>1, FiringStays
  <2>5. RunsFollow'
    BY <1>4, <2>1, FollowStays
  <2> QED BY <1>1, <2>2, <2>3, <2>4, <2>5
<1> QED BY <1>2, <1>3, <1>4, Steps

\* The inductive invariant.
THEOREM HealthInvariant == HealthSpec => []HealthInv
<1>1. HealthInit => HealthInv
  BY HealthStarts
<1>2. HealthInv /\ [HealthNext]_healthVars => HealthInv'
  BY HealthStays
<1> QED BY <1>1, <1>2, PTL DEF HealthSpec

\* If for longer than the limit nothing kept a run from being recorded, the
\* healthcheck fails only after runs that are long against that limit, in every
\* tier: whatever the tiers, their intervals and the length of runs.
THEOREM SilenceIsExplained == HealthSpec => []SilenceMeansLongRuns
<1>1. HealthInv => SilenceMeansLongRuns
  <2> SUFFICES ASSUME HealthInv, trouble = Calm, SchedulerSilent, NEW t \in Tiers
               PROVE  took[t] + Taking(t) > Stale - Interval[t]
    BY DEF SilenceMeansLongRuns
  <2>1. HealthTypeOK /\ FiringIsRecorded /\ RunsFollow
    BY DEF HealthInv
  <2>2. /\ Interval[t] \in Nat /\ Stale \in Nat /\ Window \in Nat /\ Stale <= Window
        /\ Calm = Stale + 1 /\ TooLong = Window + 1 /\ took[t] \in Nat
    <3>1. took \in [Tiers -> 0..TooLong]
      BY <2>1 DEF HealthTypeOK
    <3> QED BY <3>1, Durations
  <2>3. Since(t) \in Nat /\ Since(t) <= Interval[t]
    BY <2>1, ClocksAre
  <2>4. ASSUME NEW a \in Nat, HasRow(log, a) PROVE a > Stale
    <3>1. CASE a > Window
      BY <2>2, <3>1
    <3>2. ASSUME NEW i \in DOMAIN log, log[i].status \in Statuses, log[i].age <= a PROVE a > Stale
      <4>1. log[i].age > Stale
        BY <3>2 DEF SchedulerSilent, Recorded
      <4>2. log[i].age \in Nat
        BY <2>1, LogIs
      <4> QED BY <2>2, <3>2, <4>1, <4>2
    <3> QED BY <2>4, <3>1, <3>2 DEF HasRow
  <2>5. CASE t \in outlasting
    <3>1. Taking(t) = Window + 1
      BY <2>2, <2>5 DEF Taking
    <3> QED BY <2>2, <3>1
  <2>6. CASE t \notin outlasting /\ Running(t)
    <3> DEFINE i == CHOOSE k \in DOMAIN log : IsRun(k, t)
    <3>1. i \in DOMAIN log /\ IsRun(i, t)
      BY <2>6 DEF Running
    <3>2. Taking(t) = log[i].age
      BY <2>6 DEF Taking
    <3> HIDE DEF i
    <3>3. log[i].status = "running" /\ log[i].tier = t /\ log[i].age \in Nat
      BY <2>1, <3>1, LogIs DEF IsRun
    <3> DEFINE b == log[i].age
               a == b + Interval[t] + took[t]
    <3>4. trouble > b + Interval[t] => HasRow(log, a)
      BY <2>1, <3>1, <3>3 DEF RunsFollow
    <3>5. b \in Nat /\ Taking(t) = b
      BY <3>2, <3>3
    <3> HIDE DEF b
    <3>6. CASE trouble > b + Interval[t]
      <4>1. HasRow(log, a) /\ a \in Nat
        BY <2>2, <3>4, <3>5, <3>6
      <4> HIDE DEF a
      <4>2. a > Stale
        BY <2>4, <4>1
      <4> QED BY <2>2, <3>5, <4>2 DEF a
    <3>7. CASE ~(trouble > b + Interval[t])
      BY <2>2, <3>5, <3>7
    <3> QED BY <3>6, <3>7
  <2>7. CASE ~Running(t)
    <3> DEFINE b == Since(t)
               a == b + took[t]
    <3>1. Taking(t) = 0
      BY <2>7 DEF Taking, Running
    <3>2. trouble > b => HasRow(log, a)
      BY <2>1, <2>7 DEF FiringIsRecorded
    <3>3. b \in Nat /\ b <= Interval[t]
      BY <2>3
    <3> HIDE DEF b
    <3>4. CASE trouble > b
      <4>1. HasRow(log, a) /\ a \in Nat
        BY <2>2, <3>2, <3>3, <3>4
      <4> HIDE DEF a
      <4>2. a > Stale
        BY <2>4, <4>1
      <4> QED BY <2>2, <3>1, <3>3, <4>2 DEF a
    <3>5. CASE ~(trouble > b)
      BY <2>2, <3>1, <3>3, <3>5
    <3> QED BY <3>4, <3>5
  <2> QED BY <2>5, <2>6, <2>7
<1> QED BY <1>1, HealthInvariant, PTL

\* As many equal outcomes in a row as the rule asks for raise its alert.
THEOREM FailuresAreNoticed == HealthSpec => []FailureIsNoticed
<1>1. HealthInv => FailureIsNoticed
  <2> DEFINE U(s) == {i \in DOMAIN log : log[i].status = s /\ ~log[i].answered}
             D(s) == {i \in DOMAIN log : log[i].status \in Informative \ {s}}
  <2> SUFFICES ASSUME HealthInv, NEW s \in {"error", "degraded"}
               PROVE  Cardinality(U(s)) >= Streak + Cardinality(Tiers) - 1
                      => Cardinality(LeadingStreak(s)) >= Streak
    BY DEF FailureIsNoticed, RunsAlert
  <2>1. /\ Len(log) \in Nat /\ DOMAIN log = 1..Len(log)
        /\ \A i \in 1..Len(log) : log[i].tier \in Tiers
                                  /\ log[i].status \in Statuses \cup Unrecorded
    BY LogIs DEF HealthInv
  <2>2. IsFiniteSet(1..Len(log))
    BY <2>1, FS_Interval
  <2>3. /\ U(s) \in SUBSET (1..Len(log)) /\ LeadingStreak(s) \in SUBSET (1..Len(log))
        /\ D(s) \in SUBSET (1..Len(log))
    BY <2>1 DEF LeadingStreak
  <2>4. /\ IsFiniteSet(U(s)) /\ Cardinality(U(s)) \in Nat
        /\ IsFiniteSet(LeadingStreak(s)) /\ Cardinality(LeadingStreak(s)) \in Nat
    <3> HIDE DEF U
    <3> QED BY <2>2, <2>3, FS_Subset, FS_CardinalityType
  <2>5. Streak \in Nat /\ IsFiniteSet(Tiers) /\ Cardinality(Tiers) \in Nat /\ Cardinality(Tiers) >= 1
    <3>1. Cardinality(Tiers) # 0
      BY HealthAssumption, FS_EmptySet
    <3> QED BY <3>1, Durations, HealthAssumption, FS_CardinalityType
  <2>6. ASSUME NEW i \in U(s), \A j \in D(s) : i < j
        PROVE  i \in LeadingStreak(s)
    <3>1. ASSUME NEW j \in 1..i PROVE log[j].status = s \/ PassedOver(log[j])
      <4>1. j \in 1..Len(log) /\ j \notin D(s)
        BY <2>1, <2>6
      <4>2. log[j].status \notin Informative \ {s}
        BY <2>1, <4>1
      <4> QED BY <2>1, <4>1, <4>2 DEF PassedOver, Statuses
    <3> QED BY <3>1 DEF LeadingStreak
  <2>7. CASE D(s) = {}
    <3>1. U(s) \subseteq LeadingStreak(s)
      BY <2>6, <2>7
    <3>2. Cardinality(U(s)) <= Cardinality(LeadingStreak(s))
      <4> HIDE DEF U
      <4> QED BY <2>4, <3>1, FS_Subset
    <3> HIDE DEF U
    <3> QED BY <2>4, <2>5, <3>2
  <2>8. CASE D(s) # {}
    <3>1. PICK j \in D(s) : \A k \in D(s) : j <= k
      <4> HIDE DEF D
      <4> QED BY <2>3, <2>8, Least
    <3>2. j \in 1..Len(log) /\ log[j].status \in Informative \ {s}
      BY <2>1, <3>1
    <3> DEFINE B == {i \in U(s) : i > j}
               rest == Tiers \ {log[j].tier}
               f == [i \in B |-> log[i].tier]
    <3>3. B \subseteq Late(j)
      BY <2>1, <3>2 DEF Late, Informative
    <3>4. \A i \in B, k \in B : log[i].tier # log[j].tier /\ (log[i].tier = log[k].tier => i = k)
      <4> HIDE DEF B
      <4> QED BY <2>1, <3>2, <3>3 DEF FewAreLate, HealthInv
    <3>5. f \in Injection(B, rest)
      <4>1. f \in [B -> rest]
        BY <2>1, <3>4
      <4> QED BY <3>4, <4>1 DEF Injection, IsInjective
    <3>6. IsFiniteSet(rest) /\ Cardinality(rest) = Cardinality(Tiers) - 1
      <4>1. log[j].tier \in Tiers
        BY <2>1, <3>2
      <4> QED BY <2>5, <4>1, FS_RemoveElement
    <3>7. IsFiniteSet(B) /\ Cardinality(B) <= Cardinality(Tiers) - 1 /\ Cardinality(B) \in Nat
      <4> HIDE DEF B, f, rest
      <4> QED BY <3>5, <3>6, FS_Injection, FS_CardinalityType
    <3>8. U(s) \subseteq LeadingStreak(s) \cup B
      <4> SUFFICES ASSUME NEW i \in U(s), ~(i > j) PROVE i \in LeadingStreak(s)
        OBVIOUS
      <4>1. i \in 1..Len(log) /\ i # j
        BY <2>1, <3>2
      <4>2. \A k \in D(s) : i < k
        BY <2>3, <3>1, <4>1
      <4> QED BY <2>6, <4>2
    <3> HIDE DEF B, U
    <3>9. /\ IsFiniteSet(LeadingStreak(s) \cup B)
          /\ Cardinality(LeadingStreak(s) \cup B) <= Cardinality(LeadingStreak(s)) + Cardinality(B)
      <4>1. /\ IsFiniteSet(LeadingStreak(s) \cup B)
            /\ Cardinality(LeadingStreak(s) \cup B)
                 = Cardinality(LeadingStreak(s)) + Cardinality(B) - Cardinality(LeadingStreak(s) \cap B)
        BY <2>4, <3>7, FS_Union
      <4>2. Cardinality(LeadingStreak(s) \cap B) \in Nat
        BY <2>4, FS_Intersection, FS_CardinalityType
      <4> QED BY <2>4, <3>7, <4>1, <4>2
    <3>10. Cardinality(U(s)) <= Cardinality(LeadingStreak(s) \cup B)
      BY <3>8, <3>9, FS_Subset
    <3>11. Cardinality(LeadingStreak(s) \cup B) \in Nat
      BY <3>9, FS_CardinalityType
    <3> QED BY <2>4, <2>5, <3>7, <3>9, <3>10, <3>11
  <2> QED BY <2>7, <2>8
<1> QED BY <1>1, HealthInvariant, PTL
-----------------------------------------------------------------------------
(* The token of the client.                                                *)

USE TokenAssumption

\* What the comparisons of tokens come down to.
LEMMA Order ==
    /\ \A a \in Nat : a <= a
    /\ \A a, b \in Nat : a <= b /\ a # b => a < b
    /\ \A a, b \in Nat : a < b => a <= b
    /\ \A a, b, d \in Nat : a <= b /\ b < d => a < d
    /\ \A a, b, d \in Nat : a <= b /\ b < d => a <= d
    /\ \A a \in Nat : a < a + 1
BY Z3

\* Every token is a number.
LEMMA TokensAreNumbers ==
    ASSUME TypeOK, NEW c \in Callers
    PROVE  /\ token \in Nat /\ issued \in Nat
           /\ answer[c] \in Nat /\ used[c] \in Nat /\ sent[c] \in Nat
BY DEF TypeOK

\* A call starts: it waits for the lock, or its GET carries the token it notes.
LEMMA CallStep == ASSUME IndInv, NEW c \in Callers, Call(c) PROVE IndInv'
<1>1. TypeOK'
  BY DEF Call, Send, Go, IndInv, TypeOK, Waiting, Posting, Sending
<1>2. LockGuardsPosts'
  BY DEF Call, Send, Go, IndInv, TypeOK, LockGuardsPosts, Posting
<1>3. PostsReplaceStale'
  <2>1. token' = token /\ valid' = valid BY DEF Call
  <2>2. ASSUME NEW d \in Callers, d # c
        PROVE  pc'[d] = pc[d] /\ used'[d] = used[d] /\ sent'[d] = sent[d]
    BY <2>2 DEF Call, Send, Go, IndInv, TypeOK
  <2>3. \/ pc'[c] = "ensure"
        \/ pc'[c] = "get" /\ sent'[c] = token /\ used'[c] = token
    BY DEF Call, Send, Go, IndInv, TypeOK
  <2>4. QED BY <2>1, <2>2, <2>3 DEF IndInv, PostsReplaceStale
<1>4. TokensGetNewer'
  <2>1. token' = token /\ issued' = issued /\ answer' = answer
    BY DEF Call
  <2>2. ASSUME NEW d \in Callers PROVE used'[d] <= token
    BY TokensAreNumbers, Order DEF Call, IndInv, TypeOK, TokensGetNewer
  <2>3. ASSUME NEW d \in Callers, answer[d] # NoToken PROVE pc'[d] \in Posting
    BY <2>3 DEF Call, Send, Go, IndInv, TypeOK, TokensGetNewer, Posting
  <2>4. QED
    BY <2>1, <2>2, <2>3 DEF IndInv, TokensGetNewer
<1>5. RetryIsFresh'
  BY DEF Call, Send, Go, IndInv, TypeOK, RetryIsFresh, TokensGetNewer,
         PostsReplaceStale
<1>6. QED
  BY <1>1, <1>2, <1>3, <1>4, <1>5 DEF IndInv

\* The lock is free, so this POST is the only one, and its caller has just seen
\* that the token is the one to replace.
LEMMA PostStep == ASSUME IndInv, NEW c \in Callers, Post(c) PROVE IndInv'
<1>1. TypeOK'
  BY DEF Post, LockFree, StillStale, Go, IndInv, TypeOK, Posting
<1>2. LockGuardsPosts'
  BY DEF Post, LockFree, StillStale, Go, IndInv, TypeOK, LockGuardsPosts, Posting
<1>3. PostsReplaceStale'
  BY DEF Post, LockFree, StillStale, Go, IndInv, TypeOK, PostsReplaceStale,
         TokensGetNewer, LockGuardsPosts, Waiting, Posting, Sending
<1>4. TokensGetNewer'
  BY DEF Post, LockFree, StillStale, Go, IndInv, TypeOK, TokensGetNewer,
         LockGuardsPosts
<1>5. RetryIsFresh'
  BY DEF Post, LockFree, StillStale, Go, IndInv, TypeOK, RetryIsFresh, TokensGetNewer,
         PostsReplaceStale
<1>6. QED
  BY <1>1, <1>2, <1>3, <1>4, <1>5 DEF IndInv

\* The token is newer than the one the caller was refused with.
LEMMA SkipStep == ASSUME IndInv, NEW c \in Callers, Skip(c) PROVE IndInv'
<1>1. TypeOK'
  BY DEF Skip, LockFree, StillStale, Send, Go, IndInv, TypeOK, Waiting, Posting,
         Sending
<1>2. LockGuardsPosts'
  BY DEF Skip, LockFree, StillStale, Send, Go, IndInv, TypeOK, LockGuardsPosts,
         Posting
<1>3. PostsReplaceStale'
  <2>1. token' = token /\ valid' = valid
    BY DEF Skip
  <2>2. PostsReplaceStale!(c)'
    BY DEF Skip, Send, Go, IndInv, TypeOK, Waiting
  <2>3. ASSUME NEW d \in Callers, d # c PROVE PostsReplaceStale!(d)'
    <3>1. pc'[d] = pc[d] /\ used'[d] = used[d] /\ sent'[d] = sent[d]
      BY <2>3 DEF Skip, Send, Go, IndInv, TypeOK
    <3>2. QED
      BY <2>1, <3>1 DEF IndInv, PostsReplaceStale
  <2>4. QED
    BY <2>2, <2>3 DEF PostsReplaceStale
<1>4. TokensGetNewer'
  BY DEF Skip, LockFree, StillStale, Send, Go, IndInv, TypeOK, TokensGetNewer,
         LockGuardsPosts
<1>5. RetryIsFresh'
  <2> SUFFICES ASSUME NEW d \in Callers, pc'[d] = "retry" PROVE used'[d] < sent'[d]
    BY DEF RetryIsFresh
  <2>1. CASE d # c
    BY <2>1 DEF Skip, Send, Go, IndInv, TypeOK, RetryIsFresh
  <2>2. CASE d = c
    <3>1. pc[c] = "refresh" /\ used' = used /\ sent'[c] = token /\ token # used[c]
      BY <2>2 DEF Skip, StillStale, Send, Go, IndInv, TypeOK, Waiting
    <3>2. used[c] <= token
      BY DEF IndInv, TokensGetNewer
    <3>3. QED
      BY <2>2, <3>1, <3>2, TokensAreNumbers, Order DEF IndInv
  <2>3. QED
    BY <2>1, <2>2
<1>6. QED
  BY <1>1, <1>2, <1>3, <1>4, <1>5 DEF IndInv

\* The API's new token is newer than all before.
LEMMA IssueStep == ASSUME IndInv, NEW c \in Callers, Issue(c) PROVE IndInv'
<1>1. TypeOK'
  BY DEF Issue, IndInv, TypeOK
<1>2. LockGuardsPosts'
  BY DEF Issue, IndInv, TypeOK, LockGuardsPosts
<1>3. PostsReplaceStale'
  <2>1. used' = used /\ pc' = pc /\ sent' = sent /\ token' = token
    BY DEF Issue
  <2>2. ASSUME NEW d \in Callers PROVE used[d] # issued + 1
    <3>1. used[d] <= token /\ token <= issued
      BY DEF IndInv, TokensGetNewer
    <3>2. QED
      BY <3>1, TokensAreNumbers DEF IndInv
  <2>3. QED
    BY <2>1, <2>2 DEF Issue, IndInv, PostsReplaceStale
<1>4. TokensGetNewer'
  BY DEF Issue, IndInv, TypeOK, TokensGetNewer, LockGuardsPosts
<1>5. RetryIsFresh'
  BY DEF Issue, IndInv, TypeOK, RetryIsFresh, TokensGetNewer, PostsReplaceStale
<1>6. QED
  BY <1>1, <1>2, <1>3, <1>4, <1>5 DEF IndInv

\* The caller inside the lock is the only one who knows a newer token.
LEMMA StoreStep == ASSUME IndInv, NEW c \in Callers, Store(c) PROVE IndInv'
<1>1. TypeOK'
  <2>1. answer[c] \in 0..MaxTokens
    BY DEF IndInv, TypeOK
  <2>2. sent' \in [Callers -> 0..MaxTokens] /\ used' \in [Callers -> 0..MaxTokens]
    BY <2>1 DEF Store, IndInv, TypeOK
  <2>3. pc' \in [Callers -> {"idle"} \cup Waiting \cup Posting \cup Sending]
    BY DEF Store, Go, IndInv, TypeOK, Sending
  <2>4. answer' \in [Callers -> 0..MaxTokens]
    <3>1. NoToken \in 0..MaxTokens
      BY DEF NoToken
    <3>2. QED
      BY <3>1 DEF Store, IndInv, TypeOK
  <2>5. QED
    BY <2>1, <2>2, <2>3, <2>4 DEF Store, IndInv, TypeOK
<1>2. LockGuardsPosts'
  BY DEF Store, Go, IndInv, TypeOK, LockGuardsPosts, Posting
<1>3. PostsReplaceStale'
  <2>1. PostsReplaceStale!(c)'
    BY DEF Store, Go, IndInv, TypeOK, PostsReplaceStale, Posting
  <2>2. ASSUME NEW d \in Callers, d # c PROVE PostsReplaceStale!(d)'
    <3>1. pc'[d] = pc[d] /\ used'[d] = used[d] /\ sent'[d] = sent[d] /\ valid' = valid
      BY <2>2 DEF Store, Go, IndInv, TypeOK
    <3>2. pc[d] \notin Posting
      BY <2>2 DEF Store, IndInv, LockGuardsPosts
    <3>3. QED
      BY <3>1, <3>2 DEF IndInv, PostsReplaceStale, Posting
  <2>3. QED
    BY <2>1, <2>2 DEF PostsReplaceStale
<1>4. TokensGetNewer'
  <2>1. token' = answer[c] /\ issued' = issued /\ token < answer[c] /\ answer[c] <= issued
    BY DEF Store, IndInv, TokensGetNewer
  <2>2. ASSUME NEW d \in Callers PROVE used'[d] <= answer[c]
    <3>1. used'[d] = used[d] \/ used'[d] = answer[c]
      BY DEF Store, IndInv, TypeOK
    <3>2. used[d] <= token
      BY DEF IndInv, TokensGetNewer
    <3>3. QED
      BY <2>1, <3>1, <3>2, TokensAreNumbers, Order DEF IndInv
  <2>3. ASSUME NEW d \in Callers PROVE answer'[d] = NoToken
    <3>1. CASE d = c
      BY <3>1 DEF Store, IndInv, TypeOK
    <3>2. CASE d # c
      <4>1. pc[d] \notin Posting
        BY <3>2 DEF Store, IndInv, LockGuardsPosts
      <4>2. QED
        BY <3>2, <4>1 DEF Store, IndInv, TypeOK, TokensGetNewer
    <3>3. QED
      BY <3>1, <3>2
  <2>4. NoToken <= issued
    BY TokensAreNumbers DEF IndInv, NoToken
  <2>5. QED
    BY <2>1, <2>2, <2>3, <2>4 DEF TokensGetNewer
<1>5. RetryIsFresh'
  BY DEF Store, Go, IndInv, TypeOK, RetryIsFresh, TokensGetNewer, PostsReplaceStale,
         Posting
<1>6. QED
  BY <1>1, <1>2, <1>3, <1>4, <1>5 DEF IndInv

\* A failed POST changes no token.
LEMMA PostFailsStep == ASSUME IndInv, NEW c \in Callers, PostFails(c) PROVE IndInv'
<1>1. TypeOK'
  BY DEF PostFails, Leave, Go, IndInv, TypeOK, NoToken
<1>2. LockGuardsPosts'
  BY DEF PostFails, Leave, Go, IndInv, TypeOK, LockGuardsPosts, Posting
<1>3. PostsReplaceStale'
  BY DEF PostFails, Leave, Go, IndInv, TypeOK, PostsReplaceStale, TokensGetNewer,
         LockGuardsPosts
<1>4. TokensGetNewer'
  BY DEF PostFails, Leave, Go, IndInv, TypeOK, TokensGetNewer, LockGuardsPosts,
         NoToken
<1>5. RetryIsFresh'
  BY DEF PostFails, Leave, Go, IndInv, TypeOK, RetryIsFresh, TokensGetNewer,
         PostsReplaceStale
<1>6. QED
  BY <1>1, <1>2, <1>3, <1>4, <1>5 DEF IndInv

\* A token that the API refuses is one it does not accept.
LEMMA RefusedStep == ASSUME IndInv, NEW c \in Callers, Refused(c) PROVE IndInv'
<1>1. TypeOK'
  BY DEF Refused, Go, IndInv, TypeOK, Waiting, Posting, Sending
<1>2. LockGuardsPosts'
  BY DEF Refused, Go, IndInv, TypeOK, LockGuardsPosts, Posting
<1>3. PostsReplaceStale'
  BY DEF Refused, Go, IndInv, TypeOK, PostsReplaceStale, TokensGetNewer,
         LockGuardsPosts
<1>4. TokensGetNewer'
  BY DEF Refused, Go, IndInv, TypeOK, TokensGetNewer, LockGuardsPosts, Posting
<1>5. RetryIsFresh'
  BY DEF Refused, Go, IndInv, TypeOK, RetryIsFresh, TokensGetNewer, PostsReplaceStale
<1>6. QED
  BY <1>1, <1>2, <1>3, <1>4, <1>5 DEF IndInv

\* A call that ends leaves nothing behind.
LEMMA EndStep == ASSUME IndInv, NEW c \in Callers, End(c) PROVE IndInv'
<1>1. TypeOK'
  BY DEF End, Leave, Go, IndInv, TypeOK, NoToken
<1>2. LockGuardsPosts'
  BY DEF End, Leave, Go, IndInv, TypeOK, LockGuardsPosts, Waiting, Posting, Sending
<1>3. PostsReplaceStale'
  BY DEF End, Leave, Go, IndInv, TypeOK, PostsReplaceStale, TokensGetNewer,
         LockGuardsPosts
<1>4. TokensGetNewer'
  BY DEF End, Leave, Go, IndInv, TypeOK, TokensGetNewer, LockGuardsPosts, NoToken
<1>5. RetryIsFresh'
  BY DEF End, Leave, Go, IndInv, TypeOK, RetryIsFresh, TokensGetNewer,
         PostsReplaceStale
<1>6. QED
  BY <1>1, <1>2, <1>3, <1>4, <1>5 DEF IndInv

\* A cancelled call leaves nothing behind, not even the lock.
LEMMA CancelledStep == ASSUME IndInv, NEW c \in Callers, Cancelled(c) PROVE IndInv'
<1>1. TypeOK'
  BY DEF Cancelled, Leave, Go, IndInv, TypeOK, NoToken
<1>2. LockGuardsPosts'
  BY DEF Cancelled, Leave, Go, IndInv, TypeOK, LockGuardsPosts, Posting
<1>3. PostsReplaceStale'
  BY DEF Cancelled, Leave, Go, IndInv, TypeOK, PostsReplaceStale, TokensGetNewer,
         LockGuardsPosts
<1>4. TokensGetNewer'
  BY DEF Cancelled, Leave, Go, IndInv, TypeOK, TokensGetNewer, LockGuardsPosts,
         NoToken
<1>5. RetryIsFresh'
  BY DEF Cancelled, Leave, Go, IndInv, TypeOK, RetryIsFresh, TokensGetNewer,
         PostsReplaceStale
<1>6. QED
  BY <1>1, <1>2, <1>3, <1>4, <1>5 DEF IndInv

\* An expiry only takes tokens away.
LEMMA ExpireStep == ASSUME IndInv, NEW t \in Tokens, Expire(t) PROVE IndInv'
BY DEF Expire, IndInv, TypeOK, LockGuardsPosts, PostsReplaceStale, TokensGetNewer,
       RetryIsFresh

\* The invariant holds in every reachable state of the client.
THEOREM Inductive == Spec => []IndInv
<1>1. Init => IndInv
  <2> SUFFICES ASSUME Init PROVE IndInv
    OBVIOUS
  <2>1. TypeOK
    BY DEF Init, TypeOK, NoToken
  <2>2. LockGuardsPosts
    BY DEF Init, LockGuardsPosts, Posting
  <2>3. PostsReplaceStale
    BY DEF Init, PostsReplaceStale
  <2>4. TokensGetNewer
    BY DEF Init, TokensGetNewer, NoToken
  <2>5. RetryIsFresh
    BY DEF Init, RetryIsFresh
  <2>6. QED
    BY <2>1, <2>2, <2>3, <2>4, <2>5 DEF IndInv
<1>2. IndInv /\ [Next]_vars => IndInv'
  <2>1. CASE UNCHANGED vars
    BY <2>1 DEF vars, IndInv, TypeOK, LockGuardsPosts, PostsReplaceStale,
           TokensGetNewer, RetryIsFresh
  <2>2. QED
    BY <2>1, CallStep, PostStep, SkipStep, IssueStep, StoreStep, PostFailsStep,
       RefusedStep, EndStep, CancelledStep, ExpireStep DEF Next, Step
<1>3. QED
  BY <1>1, <1>2, PTL DEF Spec

\* A retry never carries the token that was refused.
THEOREM RetriesAreFresh == Spec => []RetryIsFresh
<1>1. IndInv => RetryIsFresh
  BY DEF IndInv
<1>2. QED
  BY <1>1, Inductive, PTL

\* No step of any caller replaces a token that the API still accepts.
THEOREM FreshTokensStay == Spec => FreshTokenStays
<1>1. IndInv /\ [Next]_vars => [token' # token => token \notin valid]_vars
  <2> SUFFICES ASSUME IndInv, [Next]_vars, token' # token
               PROVE  token \notin valid
    OBVIOUS
  <2>1. PICK c \in Callers : Store(c)
    BY DEF Next, Step, vars, Call, Post, Skip, Issue, PostFails, Refused, End,
           Cancelled, Expire
  <2>2. pc[c] \in Posting
    BY <2>1 DEF Store
  <2>4. NoToken \notin valid
    BY DEF IndInv, TypeOK, NoToken
  <2>5. QED
    BY <2>2, <2>4 DEF IndInv, PostsReplaceStale, Posting
<1>2. QED
  BY <1>1, Inductive, PTL DEF Spec, FreshTokenStays

\* Every POST on its way holds the lock, from the step that sends it to the one
\* that stores its token, or forgets it.
LEMMA Outstanding == Spec => []PostsOutstanding
<1>1. Init => PostsOutstanding
  BY DEF Init, PostsOutstanding
<1>2. IndInv /\ PostsOutstanding /\ [Next]_vars => PostsOutstanding'
  <2> SUFFICES ASSUME IndInv, PostsOutstanding, [Next]_vars PROVE PostsOutstanding'
    OBVIOUS
  <2>1. ASSUME NEW c \in Callers, Post(c) PROVE PostsOutstanding'
    BY <2>1, TokensAreNumbers, Order DEF Post, PostsOutstanding, IndInv
  <2>2. ASSUME NEW c \in Callers, Store(c) PROVE PostsOutstanding'
    <3>1. token' = answer[c] /\ asked' = asked /\ token < answer[c]
      BY <2>2 DEF Store, IndInv, TokensGetNewer
    <3>2. asked \subseteq Nat /\ token \in Nat /\ answer[c] \in Nat
      BY TokensAreNumbers DEF IndInv, TypeOK
    <3>3. QED
      BY <3>1, <3>2, Z3 DEF PostsOutstanding
  <2>3. ASSUME NEW c \in Callers, PostFails(c) PROVE PostsOutstanding'
    BY <2>3 DEF PostFails, PostsOutstanding
  <2>4. ASSUME NEW c \in Callers, Cancelled(c) PROVE PostsOutstanding'
    <3>1. CASE pc[c] \in Posting
      BY <2>4, <3>1 DEF Cancelled, PostsOutstanding
    <3>2. CASE pc[c] \notin Posting
      <4>1. lock' = lock
        BY <2>4, <3>2 DEF Cancelled, IndInv, LockGuardsPosts
      <4>2. QED
        BY <2>4, <3>2, <4>1 DEF Cancelled, PostsOutstanding
    <3>3. QED
      BY <3>1, <3>2
  <2>5. CASE UNCHANGED <<token, asked, lock>>
    BY <2>5 DEF PostsOutstanding
  <2>6. QED
    BY <2>1, <2>2, <2>3, <2>4, <2>5
    DEF Next, Step, vars, Call, Skip, Issue, Refused, End, Expire
<1>3. QED
  BY <1>1, <1>2, Inductive, PTL DEF Spec

\* A second POST for a token follows only a failed or cancelled one.
THEOREM OnePost == Spec => OnePostPerToken
<1>1. IndInv /\ PostsOutstanding /\ [Next]_vars =>
        [\A c \in Callers :
            pc[c] \in Waiting /\ pc'[c] \in Posting => token \notin asked]_vars
  <2> SUFFICES ASSUME IndInv, PostsOutstanding, [Next]_vars,
                      NEW c \in Callers, pc[c] \in Waiting, pc'[c] \in Posting
               PROVE  token \notin asked
    OBVIOUS
  <2>1. PICK d \in Callers : Post(d)
    BY DEF Next, Step, vars, Call, Skip, Issue, Store, PostFails, Refused, End,
           Cancelled, Expire, Leave, Send, Go, IndInv, TypeOK, Waiting, Posting, Sending
  <2>2. QED
    BY <2>1 DEF Post, LockFree, PostsOutstanding
<1>2. QED
  BY <1>1, Inductive, Outstanding, PTL DEF Spec, OnePostPerToken
=============================================================================
